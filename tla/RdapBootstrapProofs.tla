-------------------------- MODULE RdapBootstrapProofs --------------------------
(***************************************************************************)
(* Theorems about RdapBootstrap, for any tasks, documents and durations.   *)
(***************************************************************************)
EXTENDS RdapBootstrap, TLAPS

\* ServersComeFromData and DataNeverRegresses are not inductive.  They need to
\* know that what a fetching task has read is no older than the stored document
\* (it holds the Mutex, so nobody stores another one meanwhile), and that a
\* server on its way to the cache is listed in the document it comes from.
DocumentsInOrder ==
    /\ data <= iana
    /\ \A t \in Tasks : pc[t] \in {"body", "clear", "insert"} => view[t] \in Versions
    /\ \A t \in Tasks : pc[t] = "body" => data <= view[t] /\ view[t] <= iana
    /\ \A t \in Tasks : pc[t] = "insert" => tld[t] \in Listed[view[t]]

BootstrapInv == TypeOK /\ OneFetch /\ ServersComeFromData /\ DocumentsInOrder

\* The initial state: no document, no server, nobody at work.
LEMMA BootstrapInvInit == Init => BootstrapInv
BY NumberAssumption, NoTaskAssumption
   DEF Init, BootstrapInv, TypeOK, OneFetch, ServersComeFromData, DocumentsInOrder,
       Versions, None, Never, Pc

\* Looking a TLD up in a stored document yields a server of that document or
\* nothing, and moves no other task.
LEMMA DiscoverStep ==
    ASSUME BootstrapInv, NEW t \in Tasks, NEW v \in Versions, Discover(t, v)
    PROVE  /\ pc' \in [Tasks -> Pc]
           /\ view' \in [Tasks -> Versions \cup {None}]
           /\ pc'[t] \in {"insert", "done"}
           /\ pc'[t] = "insert" => view'[t] = v /\ tld[t] \in Listed[v]
           /\ view'[t] <= v
           /\ \A x \in Tasks \ {t} : pc'[x] = pc[x] /\ view'[x] = view[x]
BY NumberAssumption
   DEF BootstrapInv, TypeOK, Discover, Finish, Versions, None, Pc

\* Every step preserves the invariant.
LEMMA BootstrapInvNext == BootstrapInv /\ [Next]_vars => BootstrapInv'
<1> SUFFICES ASSUME BootstrapInv, [Next]_vars PROVE BootstrapInv'
  OBVIOUS
<1> USE NumberAssumption, NoTaskAssumption, ListedAssumption DEF Versions, None, Never
<1>1. ASSUME NEW t \in Tasks, Find(t) PROVE BootstrapInv'
  <2>1. TypeOK'
    BY <1>1 DEF BootstrapInv, TypeOK, Pc, Find, Finish, state
  <2>2. OneFetch'
    BY <1>1 DEF BootstrapInv, TypeOK, OneFetch, Find, Finish, state
  <2>3. ServersComeFromData'
    BY <1>1 DEF BootstrapInv, TypeOK, OneFetch, ServersComeFromData, DocumentsInOrder,
                Find, Finish, state
  <2>4. DocumentsInOrder'
    BY <1>1 DEF BootstrapInv, TypeOK, OneFetch, ServersComeFromData, DocumentsInOrder,
                Find, Finish, state
  <2> QED
    BY <2>1, <2>2, <2>3, <2>4 DEF BootstrapInv
<1>2. ASSUME NEW t \in Tasks, Lock(t) PROVE BootstrapInv'
  <2>1. TypeOK'
    BY <1>2, DiscoverStep DEF BootstrapInv, TypeOK, Pc, Lock, decide, Fresh, Finish, state
  <2>2. OneFetch'
    BY <1>2, DiscoverStep DEF BootstrapInv, TypeOK, OneFetch, Lock, decide, Fresh,
                              Finish, state
  <2>3. ServersComeFromData'
    BY <1>2, DiscoverStep DEF BootstrapInv, TypeOK, OneFetch, ServersComeFromData,
                              DocumentsInOrder, Lock, decide, Fresh, Finish, state
  <2>4. DocumentsInOrder'
    BY <1>2, DiscoverStep DEF BootstrapInv, TypeOK, OneFetch, ServersComeFromData,
                              DocumentsInOrder, Lock, decide, Fresh, Finish, state
  <2> QED
    BY <2>1, <2>2, <2>3, <2>4 DEF BootstrapInv
<1>3. ASSUME NEW t \in Tasks, Respond(t) PROVE BootstrapInv'
  <2>1. TypeOK'
    BY <1>3 DEF BootstrapInv, TypeOK, Pc, Respond, state
  <2>2. OneFetch'
    BY <1>3 DEF BootstrapInv, TypeOK, OneFetch, Respond, state
  <2>3. ServersComeFromData'
    BY <1>3 DEF BootstrapInv, TypeOK, OneFetch, ServersComeFromData, DocumentsInOrder,
                Respond, state
  <2>4. DocumentsInOrder'
    BY <1>3 DEF BootstrapInv, TypeOK, OneFetch, ServersComeFromData, DocumentsInOrder,
                Respond, state
  <2> QED
    BY <2>1, <2>2, <2>3, <2>4 DEF BootstrapInv
<1>4. ASSUME NEW t \in Tasks, Store(t) PROVE BootstrapInv'
  <2>1. /\ pc[t] = "body" /\ view[t] \in Versions /\ data <= view[t] /\ view[t] <= iana
        /\ holder = t /\ \A x \in Tasks \ {t} : pc[x] \notin {"fetch", "body"}
    BY <1>4 DEF Store, BootstrapInv, OneFetch, DocumentsInOrder
  <2>2. /\ pc' \in [Tasks -> Pc] /\ view' \in [Tasks -> Versions \cup {None}]
        /\ pc'[t] \in {"clear", "insert", "done"} /\ view'[t] <= view[t]
        /\ pc'[t] # "done" => view'[t] = view[t]
        /\ pc'[t] = "insert" => tld[t] \in Listed[view[t]]
        /\ \A x \in Tasks \ {t} : pc'[x] = pc[x] /\ view'[x] = view[x]
    <3>1. CASE refresh[t]
      BY <1>4, <2>1, <3>1 DEF Store, BootstrapInv, TypeOK, Pc
    <3>2. CASE ~refresh[t]
      BY <1>4, <2>1, <3>2, DiscoverStep DEF Store
    <3> QED
      BY <3>1, <3>2
  <2>3. TypeOK'
    BY <1>4, <2>1, <2>2 DEF Store, BootstrapInv, TypeOK
  <2>4. OneFetch'
    BY <1>4, <2>1, <2>2 DEF Store, OneFetch
  <2>5. ServersComeFromData'
    BY <1>4, <2>1, <2>2 DEF Store, BootstrapInv, TypeOK, ServersComeFromData
  <2>6. DocumentsInOrder'
    BY <1>4, <2>1, <2>2 DEF Store, BootstrapInv, DocumentsInOrder
  <2> QED
    BY <2>3, <2>4, <2>5, <2>6 DEF BootstrapInv
<1>5. ASSUME NEW t \in Tasks, Clear(t) PROVE BootstrapInv'
  <2>1. view[t] \in Versions /\ view[t] <= data /\ holder # t
    BY <1>5 DEF Clear, BootstrapInv, OneFetch, ServersComeFromData, DocumentsInOrder
  <2>2. /\ pc' \in [Tasks -> Pc] /\ view' \in [Tasks -> Versions \cup {None}]
        /\ pc'[t] \in {"insert", "done"} /\ view'[t] <= view[t]
        /\ pc'[t] = "insert" => view'[t] = view[t] /\ tld[t] \in Listed[view[t]]
        /\ \A x \in Tasks \ {t} : pc'[x] = pc[x] /\ view'[x] = view[x]
    BY <1>5, <2>1, DiscoverStep DEF Clear
  <2>3. TypeOK'
    BY <1>5, <2>2 DEF Clear, state, BootstrapInv, TypeOK
  <2>4. OneFetch'
    BY <1>5, <2>1, <2>2 DEF Clear, state, BootstrapInv, OneFetch
  <2>5. ServersComeFromData'
    BY <1>5, <2>1, <2>2 DEF Clear, state, BootstrapInv, TypeOK, ServersComeFromData
  <2>6. DocumentsInOrder'
    BY <1>5, <2>1, <2>2 DEF Clear, state, BootstrapInv, DocumentsInOrder
  <2> QED
    BY <2>3, <2>4, <2>5, <2>6 DEF BootstrapInv
<1>6. ASSUME NEW t \in Tasks, FetchErr(t) PROVE BootstrapInv'
  <2>1. TypeOK'
    BY <1>6, DiscoverStep DEF BootstrapInv, TypeOK, Pc, FetchErr, Finish
  <2>2. OneFetch'
    BY <1>6, DiscoverStep DEF BootstrapInv, TypeOK, OneFetch, FetchErr, Finish
  <2>3. ServersComeFromData'
    BY <1>6, DiscoverStep DEF BootstrapInv, TypeOK, OneFetch, ServersComeFromData,
                              DocumentsInOrder, FetchErr, Finish
  <2>4. DocumentsInOrder'
    BY <1>6, DiscoverStep DEF BootstrapInv, TypeOK, OneFetch, ServersComeFromData,
                              DocumentsInOrder, FetchErr, Finish
  <2> QED
    BY <2>1, <2>2, <2>3, <2>4 DEF BootstrapInv
<1>7. ASSUME NEW t \in Tasks, Insert(t) PROVE BootstrapInv'
  <2>1. TypeOK'
    BY <1>7 DEF BootstrapInv, TypeOK, Pc, Insert, Finish, state
  <2>2. OneFetch'
    BY <1>7 DEF BootstrapInv, TypeOK, OneFetch, Insert, Finish, state
  <2>3. ServersComeFromData'
    BY <1>7 DEF BootstrapInv, TypeOK, OneFetch, ServersComeFromData, DocumentsInOrder,
                Insert, Finish, state
  <2>4. DocumentsInOrder'
    BY <1>7 DEF BootstrapInv, TypeOK, OneFetch, ServersComeFromData, DocumentsInOrder,
                Insert, Finish, state
  <2> QED
    BY <2>1, <2>2, <2>3, <2>4 DEF BootstrapInv
<1>8. ASSUME NEW t \in Tasks, Return(t) PROVE BootstrapInv'
  <2>1. TypeOK'
    BY <1>8 DEF BootstrapInv, TypeOK, Pc, Return, Rest, state
  <2>2. OneFetch'
    BY <1>8 DEF BootstrapInv, TypeOK, OneFetch, Return, Rest, state
  <2>3. ServersComeFromData'
    BY <1>8 DEF BootstrapInv, TypeOK, OneFetch, ServersComeFromData, DocumentsInOrder,
                Return, Rest, state
  <2>4. DocumentsInOrder'
    BY <1>8 DEF BootstrapInv, TypeOK, OneFetch, ServersComeFromData, DocumentsInOrder,
                Return, Rest, state
  <2> QED
    BY <2>1, <2>2, <2>3, <2>4 DEF BootstrapInv
<1>9. ASSUME NEW t \in Tasks, Abandon(t) PROVE BootstrapInv'
  <2>1. TypeOK'
    BY <1>9 DEF BootstrapInv, TypeOK, Pc, Abandon, Rest
  <2>2. OneFetch'
    BY <1>9 DEF BootstrapInv, TypeOK, OneFetch, Abandon, Rest
  <2>3. ServersComeFromData'
    BY <1>9 DEF BootstrapInv, TypeOK, OneFetch, ServersComeFromData, DocumentsInOrder,
                Abandon, Rest
  <2>4. DocumentsInOrder'
    BY <1>9 DEF BootstrapInv, TypeOK, OneFetch, ServersComeFromData, DocumentsInOrder,
                Abandon, Rest
  <2> QED
    BY <2>1, <2>2, <2>3, <2>4 DEF BootstrapInv
<1>10. CASE Publish
  BY <1>10 DEF Publish, state, task, BootstrapInv, TypeOK, OneFetch, ServersComeFromData,
               DocumentsInOrder
<1>11. CASE Tick
  BY <1>11 DEF Tick, state, task, BootstrapInv, TypeOK, OneFetch, ServersComeFromData,
               DocumentsInOrder
<1>12. CASE UNCHANGED vars
  BY <1>12 DEF vars, state, task, BootstrapInv, TypeOK, OneFetch, ServersComeFromData,
               DocumentsInOrder
<1> QED
  BY <1>1, <1>2, <1>3, <1>4, <1>5, <1>6, <1>7, <1>8, <1>9, <1>10, <1>11, <1>12
     DEF Next, Undisturbed, Proceed

\* The invariant holds in every behaviour.
LEMMA BootstrapInvAlways == Spec => []BootstrapInv
<1>1. Init => BootstrapInv
  BY BootstrapInvInit
<1>2. BootstrapInv /\ [Next]_vars => BootstrapInv'
  BY BootstrapInvNext
<1> QED
  BY <1>1, <1>2, PTL DEF Spec

-------------------------------------------------------------------------------
(* What it is for *)

\* Every variable keeps its type.
THEOREM TypeCorrect == Spec => []TypeOK
BY BootstrapInvAlways, PTL DEF BootstrapInv

\* rdap.rs:337: the task that holds the Mutex is the only one with a request to
\* IANA under way, however many tasks there are and whoever is dropped.
THEOREM OneFetchAtATime == Spec => []OneFetch
BY BootstrapInvAlways, PTL DEF BootstrapInv

\* No server is cached or returned that was not listed in a stored document.
THEOREM ServersAreListed == Spec => []ServersComeFromData
BY BootstrapInvAlways, PTL DEF BootstrapInv

\* A fetch never replaces the stored document by an older one.
THEOREM DocumentsMoveForward == Spec => DataNeverRegresses
<1>1. BootstrapInv /\ [Next]_vars => [data <= data']_vars
  <2> SUFFICES ASSUME BootstrapInv, [Next]_vars PROVE data <= data' \/ UNCHANGED vars
    OBVIOUS
  <2>1. data <= data
    BY NumberAssumption DEF BootstrapInv, TypeOK, Versions, None
  <2>2. data' = data \/ \E t \in Tasks : Store(t)
    BY DEF Next, Undisturbed, Proceed, Find, Lock, Respond, Clear, FetchErr, Insert,
           Return, Abandon, Publish, Tick, vars, state
  <2>3. ASSUME NEW t \in Tasks, Store(t) PROVE data <= data'
    BY <2>3 DEF Store, BootstrapInv, DocumentsInOrder
  <2> QED
    BY <2>1, <2>2, <2>3
<1> QED
  BY <1>1, BootstrapInvAlways, PTL DEF Spec, DataNeverRegresses

\* rdap.rs:335-336: whatever fails or is dropped, IANA is not asked again before
\* the retry window is over, nor while what it answered is fresh.
THEOREM BackoffHolds == Spec => BackoffRespected
<1> DEFINE Patient ==
      lastAttempt' # lastAttempt /\ lastAttempt # Never =>
          /\ now >= lastAttempt + RetryAfter
          /\ data # None /\ fetchedAt >= lastAttempt => now >= fetchedAt + RefreshAfter
<1>1. BootstrapInv /\ [Next]_vars => [Patient]_vars
  <2> SUFFICES ASSUME BootstrapInv, [Next]_vars PROVE Patient \/ UNCHANGED vars
    OBVIOUS
  <2>1. lastAttempt' = lastAttempt \/ \E t \in Tasks : Lock(t) /\ decide = "Fetch"
    BY DEF Next, Undisturbed, Proceed, Find, Lock, Respond, Store, Clear, FetchErr,
           Insert, Return, Abandon, Publish, Tick, vars, state
  <2>2. ASSUME decide = "Fetch" PROVE ~Fresh /\ ~AttemptedRecently
    BY <2>2 DEF decide
  <2>3. ASSUME decide = "Fetch" PROVE Patient
    BY <2>2, <2>3, NumberAssumption
       DEF Fresh, AttemptedRecently, Within, BootstrapInv, TypeOK, None, Never
  <2> QED
    BY <2>1, <2>3
<1> QED
  BY <1>1, BootstrapInvAlways, PTL DEF Spec, BackoffRespected

\* rdap.rs:335: a failed refresh keeps serving what is there.  Once a document is
\* stored, a TLD that every document lists is never refused again.
THEOREM OutageIsCovered == Spec => OutageServesStale
<1> DEFINE Served ==
      \A t \in Tasks :
          pc[t] # "done" /\ pc'[t] = "done" /\ view'[t] = None
          /\ (\A v \in Versions : tld'[t] \in Listed[v]) => data = None
<1>1. BootstrapInv /\ [Next]_vars => [Served]_vars
  <2> SUFFICES ASSUME BootstrapInv, [Next]_vars, data # None, NEW t \in Tasks,
                      pc[t] # "done", pc'[t] = "done", view'[t] = None,
                      \A v \in Versions : tld'[t] \in Listed[v]
               PROVE  FALSE
    OBVIOUS
  <2> USE DEF BootstrapInv, TypeOK
  <2>1. data \in Versions
    BY NumberAssumption
  <2>2. ASSUME NEW v \in Versions, Discover(t, v), tld' = tld PROVE FALSE
    BY <2>2 DEF Discover
  <2>3. ASSUME NEW x \in Tasks, x # t, Find(x) \/ Lock(x) \/ Proceed(x) \/ Abandon(x)
        PROVE  pc'[t] = pc[t]
    BY <2>3 DEF Find, Lock, Proceed, Respond, Store, Clear, FetchErr, Insert, Return,
                Abandon, Rest, Finish, Discover
  <2>4. ~Find(t)
    BY NumberAssumption DEF Find, Finish, Versions, None
  <2>5. ~Lock(t)
    BY <2>1, <2>2 DEF Lock, decide
  <2>6. ~Store(t) /\ ~Clear(t)
    BY <2>2 DEF Store, Clear, DocumentsInOrder
  <2>7. ~FetchErr(t)
    BY <2>1, <2>2 DEF FetchErr
  <2>8. ~Insert(t)
    BY NumberAssumption DEF Insert, Finish, DocumentsInOrder, Versions, None
  <2>9. ~Respond(t) /\ ~Return(t) /\ ~Abandon(t)
    BY DEF Respond, Return, Abandon, Rest
  <2>10. ~Publish /\ ~Tick /\ ~UNCHANGED vars
    BY DEF Publish, Tick, vars, task
  <2> QED
    BY <2>3, <2>4, <2>5, <2>6, <2>7, <2>8, <2>9, <2>10 DEF Next, Undisturbed, Proceed
<1> QED
  BY <1>1, BootstrapInvAlways, PTL DEF Spec, OutageServesStale
===============================================================================
