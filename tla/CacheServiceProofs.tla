-------------------------- MODULE CacheServiceProofs --------------------------
(***************************************************************************)
(* Theorems about CacheService, for any fleet, any callers and any TTLs.   *)
(***************************************************************************)
EXTENDS CacheService, TLAPS

-------------------------------------------------------------------------------
(* Lemmas about the operators on entries *)

\* A TTL is a natural number whatever the status.
LEMMA TtlType ==
    ASSUME NEW s
    PROVE  ExpireAfterCreate(s) \in Nat /\ BackendTtl(s) \in Nat
BY TimeAssumption DEF ExpireAfterCreate, BackendTtl

\* An entry made from an answer is dead at once or holds that answer.
LEMMA EntryUntilType ==
    ASSUME NEW a \in [status : Status, born : Nat], NEW t \in Nat
    PROVE  /\ EntryUntil(a, t) \in Entry
           /\ EntryUntil(a, t) # Empty =>
                 EntryUntil(a, t).status = a.status /\ EntryUntil(a, t).status \in Status
BY DEF EntryUntil, Entry, Empty

\* An insert into L1 yields an entry that is empty or holds the new answer.
LEMMA InsertedType ==
    ASSUME NEW e \in Entry, NEW a \in [status : Status, born : Nat], now \in Nat
    PROVE  /\ Inserted(e, a) \in Entry
           /\ Inserted(e, a) # Empty =>
                 Inserted(e, a).status = a.status /\ Inserted(e, a).status \in Status
<1> DEFINE t == IF e # Empty THEN e.expires ELSE now + ExpireAfterCreate(a.status)
<1>1. t \in Nat
  BY TtlType DEF Entry
<1>2. Inserted(e, a) = EntryUntil(a, t)
  BY DEF Inserted
<1> QED
  BY <1>1, <1>2, EntryUntilType

\* Whatever a store does to L2, it is empty or holds an answer afterwards.
LEMMA StoreType ==
    ASSUME NEW a \in [status : Status, born : Nat], now \in Nat,
           l2 \in Entry, l2 # Empty => l2.status \in Status,
           NEW e \in StoreOutcomes(a)
    PROVE  e \in Entry /\ (e # Empty => e.status \in Status)
<1> DEFINE t == now + BackendTtl(a.status)
<1>1. t \in Nat
  BY TtlType
<1>2. e = l2 \/ e = EntryUntil(a, t)
  BY DEF StoreOutcomes
<1> QED
  BY <1>1, <1>2, EntryUntilType

-------------------------------------------------------------------------------
(* Types *)

\* Only answers are stored, and only answers are on their way to a store: an
\* error or an empty result is never cached.  Needed to type the two tiers.
OnlyAnswersStored ==
    /\ \A i \in Instances : l1[i] # Empty => l1[i].status \in Status
    /\ l2 # Empty => l2.status \in Status
    /\ \A c \in Callers : pc[c] \in {"store", "insert"} => val[c].status \in Status

TypeInv == TypeOK /\ OnlyAnswersStored

\* A response whose status is an outcome is an answer.
LEMMA AnswerType ==
    ASSUME NEW a \in Answer, a.status \in Status
    PROVE  a \in [status : Status, born : Nat]
BY DEF Answer

\* The answer in an entry is an answer, with the entry's status and birth.
LEMMA AnswerOfType ==
    ASSUME NEW e \in Entry
    PROVE  /\ AnswerOf(e) \in Answer
           /\ AnswerOf(e).status = e.status
           /\ AnswerOf(e).born = e.born
BY DEF AnswerOf, Answer, Entry

\* The constants of the model have the types of what they stand for.
LEMMA ConstantTypes ==
    /\ Nothing \in Answer /\ Failure \in Answer /\ Empty \in Entry
    /\ \A s \in Status, t \in Nat : [status |-> s, born |-> t] \in Answer
BY DEF Nothing, Failure, Empty, Answer, Entry

\* What the end of a flight does to the calls of its instance.
LEMMA LandType ==
    ASSUME TypeInv, NEW c \in Callers, NEW a \in Answer, NEW flag \in BOOLEAN,
           Land(c, a, flag)
    PROVE  /\ leader' \in [Instances -> Callers \cup {NoCaller}]
           /\ pc' \in [Callers -> Pc]
           /\ val' \in [Callers -> Answer]
           /\ cached' \in [Callers -> BOOLEAN]
           /\ \A x \in Callers : pc'[x] \in {"store", "insert"} =>
                 pc[x] = pc'[x] /\ val'[x] = val[x]
BY HomeAssumption DEF TypeInv, TypeOK, Land, Waiters, Pc, InFlight

\* Empty tiers and idle callers have the right types.
LEMMA TypeInvInit == Init => TypeInv
BY TimeAssumption, ConstantTypes
   DEF Init, TypeInv, TypeOK, OnlyAnswersStored, Pc

\* Every operation, expiry, drop and tick keeps the types.
LEMMA TypeInvNext == TypeInv /\ [Next]_vars => TypeInv'
<1> SUFFICES ASSUME TypeInv, [Next]_vars PROVE TypeInv'
  OBVIOUS
<1> USE TimeAssumption, HomeAssumption, OpsAssumption, ConstantTypes
<1>0. now \in Nat
  BY DEF TypeInv, TypeOK
<1>1. ASSUME NEW c \in Callers, GetOrFetch(c) PROVE TypeInv'
  <2>1. /\ UNCHANGED <<now, l1, l2, leader>>
        /\ op' \in [Callers -> Ops \cup {"none"}]
        /\ start' \in [Callers -> Nat]
    BY <1>0, <1>1 DEF GetOrFetch, Begin, TypeInv, TypeOK
  <2>2. CASE Reply(c, AnswerOf(l1[Home[c]]), TRUE)
    BY <2>1, <2>2, AnswerOfType
       DEF Reply, Goto, Hold, TypeInv, TypeOK, OnlyAnswersStored, Pc
  <2>3. CASE Goto(c, "join") /\ UNCHANGED <<val, cached>>
    BY <2>1, <2>3 DEF Goto, TypeInv, TypeOK, OnlyAnswersStored, Pc
  <2> QED
    BY <1>1, <2>2, <2>3 DEF GetOrFetch
<1>2. ASSUME NEW c \in Callers, Get(c) PROVE TypeInv'
  <2>1. /\ UNCHANGED <<now, l1, l2, leader>>
        /\ op' \in [Callers -> Ops \cup {"none"}]
        /\ start' \in [Callers -> Nat]
    BY <1>0, <1>2 DEF Get, Begin, TypeInv, TypeOK
  <2>2. CASE Reply(c, AnswerOf(l1[Home[c]]), TRUE)
    BY <2>1, <2>2, AnswerOfType
       DEF Reply, Goto, Hold, TypeInv, TypeOK, OnlyAnswersStored, Pc
  <2>3. CASE Goto(c, "backend") /\ UNCHANGED <<val, cached>>
    BY <2>1, <2>3 DEF Goto, TypeInv, TypeOK, OnlyAnswersStored, Pc, InFlight
  <2> QED
    BY <1>2, <2>2, <2>3 DEF Get
<1>3. ASSUME NEW c \in Callers, Set(c) PROVE TypeInv'
  <2>1. PICK s \in Status :
           /\ l1' = [l1 EXCEPT ![Home[c]] = Inserted(@, [status |-> s, born |-> now])]
           /\ Hold(c, [status |-> s, born |-> now], FALSE)
    BY <1>3 DEF Set
  <2> DEFINE a == [status |-> s, born |-> now]
  <2>2. a \in [status : Status, born : Nat] /\ a \in Answer
    BY <1>0
  <2>3. Inserted(l1[Home[c]], a) \in Entry
        /\ (Inserted(l1[Home[c]], a) # Empty => Inserted(l1[Home[c]], a).status \in Status)
    BY <1>0, <2>2, InsertedType DEF TypeInv, TypeOK
  <2>4. /\ l1' \in [Instances -> Entry]
        /\ \A i \in Instances : l1'[i] # Empty => l1'[i].status \in Status
    BY <2>1, <2>3 DEF TypeInv, TypeOK, OnlyAnswersStored
  <2> QED
    BY <1>3, <2>1, <2>2, <2>4
       DEF Set, Begin, Idle, Goto, Hold, TypeInv, TypeOK, OnlyAnswersStored, Pc, InFlight
<1>4. ASSUME NEW c \in Callers, JoinFlight(c) PROVE TypeInv'
  BY <1>4 DEF JoinFlight, Goto, TypeInv, TypeOK, OnlyAnswersStored, Pc
<1>5. ASSUME NEW c \in Callers, Lead(c) PROVE TypeInv'
  <2>1. UNCHANGED <<now, l1, l2, op, start>>
    BY <1>5 DEF Lead
  <2>2. CASE Reply(c, AnswerOf(l1[Home[c]]), TRUE) /\ UNCHANGED leader
    BY <2>1, <2>2, AnswerOfType
       DEF Reply, Goto, Hold, TypeInv, TypeOK, OnlyAnswersStored, Pc
  <2>3. CASE /\ leader' = [leader EXCEPT ![Home[c]] = c]
             /\ Goto(c, "backend")
             /\ UNCHANGED <<val, cached>>
    BY <2>1, <2>3 DEF Goto, TypeInv, TypeOK, OnlyAnswersStored, Pc, InFlight
  <2> QED
    BY <1>5, <2>2, <2>3 DEF Lead
<1>6. ASSUME NEW c \in Callers, BackendHit(c) PROVE TypeInv'
  BY <1>6, AnswerOfType
     DEF BackendHit, Goto, Hold, TypeInv, TypeOK, OnlyAnswersStored, Pc, InFlight
<1>7. ASSUME NEW c \in Callers, BackendMiss(c) PROVE TypeInv'
  <2>1. UNCHANGED <<now, l1, l2, leader, op, start>>
    BY <1>7 DEF BackendMiss
  <2>2. CASE Goto(c, "fetch") /\ UNCHANGED <<val, cached>>
    BY <2>1, <2>2 DEF Goto, TypeInv, TypeOK, OnlyAnswersStored, Pc, InFlight
  <2>3. CASE Reply(c, Nothing, FALSE)
    BY <2>1, <2>3 DEF Reply, Goto, Hold, TypeInv, TypeOK, OnlyAnswersStored, Pc
  <2> QED
    BY <1>7, <2>2, <2>3 DEF BackendMiss
<1>8. ASSUME NEW c \in Callers, FetchOk(c) PROVE TypeInv'
  BY <1>0, <1>8 DEF FetchOk, Goto, Hold, TypeInv, TypeOK, OnlyAnswersStored, Pc, InFlight
<1>9. ASSUME NEW c \in Callers, FetchErr(c) PROVE TypeInv'
  BY <1>9, LandType DEF FetchErr, TypeInv, TypeOK, OnlyAnswersStored
<1>10. ASSUME NEW c \in Callers, BackendSet(c) PROVE TypeInv'
  <2>1. val[c] \in [status : Status, born : Nat]
    BY <1>10, AnswerType DEF BackendSet, TypeInv, TypeOK, OnlyAnswersStored
  <2>2. l2' \in Entry /\ (l2' # Empty => l2'.status \in Status)
    BY <1>0, <1>10, <2>1, StoreType DEF BackendSet, TypeInv, TypeOK, OnlyAnswersStored
  <2>3. UNCHANGED <<now, l1, leader, op, start>>
    BY <1>10 DEF BackendSet
  <2>4. CASE Goto(c, "insert") /\ UNCHANGED <<val, cached>>
    BY <2>1, <2>2, <2>3, <2>4 DEF Goto, TypeInv, TypeOK, OnlyAnswersStored, Pc, InFlight
  <2>5. CASE Reply(c, Nothing, FALSE)
    BY <2>2, <2>3, <2>5
       DEF Reply, Goto, Hold, TypeInv, TypeOK, OnlyAnswersStored, Pc, InFlight
  <2> QED
    BY <1>10, <2>4, <2>5 DEF BackendSet
<1>11. ASSUME NEW c \in Callers, pc[c] = "insert",
              l1' = [l1 EXCEPT ![Home[c]] = Inserted(@, val[c])]
       PROVE  /\ l1' \in [Instances -> Entry]
              /\ \A i \in Instances : l1'[i] # Empty => l1'[i].status \in Status
  <2>1. val[c] \in [status : Status, born : Nat]
    BY <1>11, AnswerType DEF TypeInv, TypeOK, OnlyAnswersStored
  <2>2. Inserted(l1[Home[c]], val[c]) \in Entry
        /\ (Inserted(l1[Home[c]], val[c]) # Empty =>
               Inserted(l1[Home[c]], val[c]).status \in Status)
    BY <1>0, <2>1, InsertedType DEF TypeInv, TypeOK
  <2> QED
    BY <1>11, <2>2 DEF TypeInv, TypeOK, OnlyAnswersStored
<1>12. ASSUME NEW c \in Callers, FinishFlight(c) PROVE TypeInv'
  <2>1. Land(c, val[c], cached[c]) /\ val[c] \in Answer /\ cached[c] \in BOOLEAN
    BY <1>12 DEF FinishFlight, TypeInv, TypeOK
  <2>2. /\ l1' \in [Instances -> Entry]
        /\ \A i \in Instances : l1'[i] # Empty => l1'[i].status \in Status
    BY <1>11, <1>12 DEF FinishFlight
  <2>3. UNCHANGED <<now, l2, op, start>>
    BY <1>12 DEF FinishFlight
  <2> QED
    BY <2>1, <2>2, <2>3, LandType DEF TypeInv, TypeOK, OnlyAnswersStored
<1>13. ASSUME NEW c \in Callers, Promote(c) PROVE TypeInv'
  BY <1>11, <1>13
     DEF Promote, Reply, Goto, Hold, TypeInv, TypeOK, OnlyAnswersStored, Pc
<1>14. ASSUME NEW c \in Callers, Wake(c) PROVE TypeInv'
  BY <1>14 DEF Wake, Reply, Goto, Hold, TypeInv, TypeOK, OnlyAnswersStored, Pc
<1>15. ASSUME NEW c \in Callers, Return(c) PROVE TypeInv'
  BY <1>15 DEF Return, Goto, Hold, TypeInv, TypeOK, OnlyAnswersStored, Pc
<1>16. ASSUME NEW c \in Callers, Abandon(c) PROVE TypeInv'
  BY <1>16 DEF Abandon, Hold, TypeInv, TypeOK, OnlyAnswersStored, Pc
<1>17. ASSUME NEW i \in Instances, Evict(i) PROVE TypeInv'
  BY <1>17 DEF Evict, TypeInv, TypeOK, OnlyAnswersStored
<1>18. ASSUME EvictBackend PROVE TypeInv'
  BY <1>18 DEF EvictBackend, TypeInv, TypeOK, OnlyAnswersStored
<1>19. ASSUME Tick PROVE TypeInv'
  BY <1>19 DEF Tick, Aged, TypeInv, TypeOK, OnlyAnswersStored
<1>20. ASSUME UNCHANGED vars PROVE TypeInv'
  BY <1>20 DEF vars, TypeInv, TypeOK, OnlyAnswersStored
<1> QED
  BY <1>1, <1>2, <1>3, <1>4, <1>5, <1>6, <1>7, <1>8, <1>9, <1>10, <1>12, <1>13, <1>14,
     <1>15, <1>16, <1>17, <1>18, <1>19, <1>20 DEF Next, Proceed

\* Every variable keeps its type, and no error is ever cached.
THEOREM TypeCorrect == Spec => []TypeInv
<1>1. Init => TypeInv
  BY TypeInvInit
<1>2. TypeInv /\ [Next]_vars => TypeInv'
  BY TypeInvNext
<1> QED
  BY <1>1, <1>2, PTL DEF Spec

\* Every variable keeps its type.
THEOREM TypesAreKept == Spec => []TypeOK
BY TypeCorrect, PTL DEF TypeInv

-------------------------------------------------------------------------------
(* Coalescing *)

\* SingleFlight is not inductive: it needs to know that the leader moka has on
\* record is a get_or_fetch call of this instance that still runs, that waiters
\* have a leader, and which operation can be where.
FlightInv ==
    /\ \A i \in Instances : leader[i] \in Callers =>
          /\ Home[leader[i]] = i
          /\ pc[leader[i]] \in InFlight
          /\ op[leader[i]] = "get_or_fetch"
    /\ SingleFlight
    /\ \A c \in Callers : pc[c] = "wait" => leader[Home[c]] \in Callers
    /\ \A c \in Callers : pc[c] \in {"join", "wait", "wake", "fetch"} =>
          op[c] = "get_or_fetch"

\* At first nobody leads and nobody waits.
LEMMA FlightInvInit == Init => FlightInv
BY NoCallerAssumption, HomeAssumption DEF Init, FlightInv, SingleFlight, InFlight

\* Every step keeps each flight with one leader, and its waiters behind it.
LEMMA FlightInvNext == TypeInv /\ FlightInv /\ [Next]_vars => FlightInv'
<1> SUFFICES ASSUME TypeInv, FlightInv, [Next]_vars PROVE FlightInv'
  OBVIOUS
<1> USE HomeAssumption, NoCallerAssumption
        DEF TypeInv, TypeOK, FlightInv, SingleFlight, InFlight, Goto, Hold
<1>1. ASSUME NEW c \in Callers, GetOrFetch(c) PROVE FlightInv'
  BY <1>1 DEF GetOrFetch, Begin, Idle, Reply
<1>2. ASSUME NEW c \in Callers, Get(c) PROVE FlightInv'
  BY <1>2 DEF Get, Begin, Idle, Reply
<1>3. ASSUME NEW c \in Callers, Set(c) PROVE FlightInv'
  BY <1>3 DEF Set, Begin, Idle
<1>4. ASSUME NEW c \in Callers, JoinFlight(c) PROVE FlightInv'
  BY <1>4 DEF JoinFlight
<1>5. ASSUME NEW c \in Callers, Lead(c) PROVE FlightInv'
  BY <1>5 DEF Lead, Reply
<1>6. ASSUME NEW c \in Callers, BackendHit(c) PROVE FlightInv'
  BY <1>6 DEF BackendHit
<1>7. ASSUME NEW c \in Callers, BackendMiss(c) PROVE FlightInv'
  BY <1>7 DEF BackendMiss, Reply
<1>8. ASSUME NEW c \in Callers, FetchOk(c) PROVE FlightInv'
  BY <1>8 DEF FetchOk
<1>9. ASSUME NEW c \in Callers,
             pc[c] \in InFlight, op[c] = "get_or_fetch", UNCHANGED op,
             leader' = [leader EXCEPT ![Home[c]] = NoCaller],
             pc' = [x \in Callers |-> IF x = c THEN "done"
                                      ELSE IF x \in {c} \cup Waiters(Home[c])
                                           THEN "wake" ELSE pc[x]]
      PROVE  FlightInv'
  <2>1. leader[Home[c]] = c
    BY <1>9
  <2>2. \A i \in Instances : leader'[i] = IF i = Home[c] THEN NoCaller ELSE leader[i]
    BY <1>9
  <2>3. \A x \in Callers :
           pc'[x] = IF x = c THEN "done"
                    ELSE IF Home[x] = Home[c] /\ pc[x] = "wait" THEN "wake" ELSE pc[x]
    BY <1>9 DEF Waiters
  <2>4. op' = op
    BY <1>9
  <2>5. \A i \in Instances : leader'[i] \in Callers =>
           i # Home[c] /\ Home[leader[i]] = i /\ leader'[i] = leader[i] /\ leader[i] # c
    BY <2>1, <2>2
  <2>6. \A x \in Callers : pc'[x] \in InFlight /\ op'[x] = "get_or_fetch" =>
           x # c /\ pc[x] = pc'[x] /\ Home[x] # Home[c]
    BY <2>1, <2>3, <2>4
  <2>7. \A x \in Callers : pc'[x] = "wait" => pc[x] = "wait" /\ Home[x] # Home[c]
    BY <2>3
  <2>8. \A i \in Instances : leader'[i] \in Callers =>
           pc'[leader'[i]] = pc[leader[i]] /\ op'[leader'[i]] = op[leader[i]]
    BY <2>3, <2>4, <2>5
  <2>9. SingleFlight'
    BY <2>2, <2>4, <2>6
  <2>10. \A x \in Callers : pc'[x] = "wait" => leader'[Home[x]] \in Callers
    BY <2>2, <2>7
  <2>11. \A x \in Callers : pc'[x] \in {"join", "wait", "wake", "fetch"} =>
            op'[x] = "get_or_fetch"
    BY <2>3, <2>4
  <2>12. \A i \in Instances : leader'[i] \in Callers =>
            /\ Home[leader'[i]] = i
            /\ pc'[leader'[i]] \in InFlight
            /\ op'[leader'[i]] = "get_or_fetch"
    <3> SUFFICES ASSUME NEW i \in Instances, leader'[i] \in Callers
                 PROVE  /\ Home[leader'[i]] = i
                        /\ pc'[leader'[i]] \in InFlight
                        /\ op'[leader'[i]] = "get_or_fetch"
      OBVIOUS
    <3>1. leader'[i] = leader[i] /\ leader[i] \in Callers
      BY <2>5
    <3> QED
      BY <2>5, <2>8, <3>1
  <2> QED
    BY <2>9, <2>10, <2>11, <2>12
<1>10. ASSUME NEW c \in Callers, FetchErr(c) PROVE FlightInv'
  BY <1>9, <1>10 DEF FetchErr, Land
<1>11. ASSUME NEW c \in Callers, FinishFlight(c) PROVE FlightInv'
  BY <1>9, <1>11 DEF FinishFlight, Land
<1>12. ASSUME NEW c \in Callers, BackendSet(c) PROVE FlightInv'
  BY <1>12 DEF BackendSet, Reply
<1>13. ASSUME NEW c \in Callers, Promote(c) PROVE FlightInv'
  BY <1>13 DEF Promote, Reply
<1>14. ASSUME NEW c \in Callers, Wake(c) PROVE FlightInv'
  BY <1>14 DEF Wake, Reply
<1>15. ASSUME NEW c \in Callers, Return(c) PROVE FlightInv'
  BY <1>15 DEF Return
<1>16. ASSUME NEW c \in Callers, Abandon(c) PROVE FlightInv'
  BY <1>16 DEF Abandon
<1>17. ASSUME NEW i \in Instances, Evict(i) PROVE FlightInv'
  BY <1>17 DEF Evict
<1>18. ASSUME EvictBackend \/ Tick \/ UNCHANGED vars PROVE FlightInv'
  BY <1>18 DEF EvictBackend, Tick, vars
<1> QED
  BY <1>1, <1>2, <1>3, <1>4, <1>5, <1>6, <1>7, <1>8, <1>10, <1>11, <1>12, <1>13, <1>14,
     <1>15, <1>16, <1>17, <1>18 DEF Next, Proceed

\* At most one get_or_fetch call per instance is between the L1 miss and the end
\* of its fetch, and it is the leader that moka has on record.
THEOREM OneFlight == Spec => []SingleFlight
<1>1. TypeInv /\ FlightInv /\ [Next]_vars => FlightInv'
  BY FlightInvNext
<1>2. FlightInv => SingleFlight
  BY DEF FlightInv
<1> QED
  BY <1>1, <1>2, FlightInvInit, TypeCorrect, PTL DEF Spec

\* Whoever waits, waits for a call that is still at work.
THEOREM NobodyStranded == Spec => []NoStrandedWaiter
<1>1. TypeInv /\ FlightInv /\ [Next]_vars => FlightInv'
  BY FlightInvNext
<1>2. FlightInv => NoStrandedWaiter
  BY HomeAssumption DEF FlightInv, NoStrandedWaiter
<1> QED
  BY <1>1, <1>2, FlightInvInit, TypeCorrect, PTL DEF Spec

-------------------------------------------------------------------------------
(* Provenance *)

\* No call began in the future, and what a call carries without the cached flag
\* is what it fetched itself.
OwnFetchInv ==
    /\ \A c \in Callers : start[c] <= now
    /\ \A c \in Callers :
          pc[c] \in {"store", "insert", "done"} /\ val[c].status \in Status /\ ~cached[c] =>
              val[c].born >= start[c]

\* At first nobody holds a response.
LEMMA OwnFetchInvInit == Init => OwnFetchInv
BY DEF Init, OwnFetchInv, Nothing, Status

\* Every step keeps a response that is not marked as cached younger than its call.
LEMMA OwnFetchInvNext == TypeInv /\ OwnFetchInv /\ [Next]_vars => OwnFetchInv'
<1> SUFFICES ASSUME TypeInv, OwnFetchInv, [Next]_vars PROVE OwnFetchInv'
  OBVIOUS
<1> USE TimeAssumption DEF TypeInv, TypeOK, OwnFetchInv, Goto, Hold
<1>1. Nothing.status \notin Status /\ Failure.status \notin Status
  BY DEF Nothing, Failure, Status
<1>2. ASSUME NEW c \in Callers, GetOrFetch(c) PROVE OwnFetchInv'
  BY <1>2 DEF GetOrFetch, Begin, Reply
<1>3. ASSUME NEW c \in Callers, Get(c) PROVE OwnFetchInv'
  BY <1>3 DEF Get, Begin, Reply
<1>4. ASSUME NEW c \in Callers, Set(c) PROVE OwnFetchInv'
  BY <1>4 DEF Set, Begin
<1>5. ASSUME NEW c \in Callers, JoinFlight(c) PROVE OwnFetchInv'
  BY <1>5 DEF JoinFlight
<1>6. ASSUME NEW c \in Callers, Lead(c) PROVE OwnFetchInv'
  BY <1>6 DEF Lead, Reply
<1>7. ASSUME NEW c \in Callers, BackendHit(c) PROVE OwnFetchInv'
  BY <1>7 DEF BackendHit
<1>8. ASSUME NEW c \in Callers, BackendMiss(c) PROVE OwnFetchInv'
  BY <1>1, <1>8 DEF BackendMiss, Reply
<1>9. ASSUME NEW c \in Callers, FetchOk(c) PROVE OwnFetchInv'
  BY <1>9 DEF FetchOk
<1>10. ASSUME NEW c \in Callers, FetchErr(c) PROVE OwnFetchInv'
  BY <1>1, <1>10 DEF FetchErr, Land, Waiters
<1>11. ASSUME NEW c \in Callers, FinishFlight(c) PROVE OwnFetchInv'
  BY <1>11 DEF FinishFlight, Land, Waiters
<1>12. ASSUME NEW c \in Callers, BackendSet(c) PROVE OwnFetchInv'
  BY <1>1, <1>12 DEF BackendSet, Reply
<1>13. ASSUME NEW c \in Callers, Promote(c) PROVE OwnFetchInv'
  BY <1>13 DEF Promote, Reply
<1>14. ASSUME NEW c \in Callers, Wake(c) PROVE OwnFetchInv'
  BY <1>14 DEF Wake, Reply
<1>15. ASSUME NEW c \in Callers, Return(c) PROVE OwnFetchInv'
  BY <1>15 DEF Return
<1>16. ASSUME NEW c \in Callers, Abandon(c) PROVE OwnFetchInv'
  BY <1>16 DEF Abandon
<1>17. ASSUME NEW i \in Instances, Evict(i) PROVE OwnFetchInv'
  BY <1>17 DEF Evict
<1>18. ASSUME EvictBackend \/ Tick \/ UNCHANGED vars PROVE OwnFetchInv'
  BY <1>18 DEF EvictBackend, Tick, vars
<1> QED
  BY <1>2, <1>3, <1>4, <1>5, <1>6, <1>7, <1>8, <1>9, <1>10, <1>11, <1>12, <1>13, <1>14,
     <1>15, <1>16, <1>17, <1>18 DEF Next, Proceed

\* A reply that says cached = false was fetched during the call itself.
THEOREM UncachedIsFresh == Spec => []UncachedIsOwnFetch
<1>1. TypeInv /\ OwnFetchInv /\ [Next]_vars => OwnFetchInv'
  BY OwnFetchInvNext
<1>2. OwnFetchInv => UncachedIsOwnFetch
  BY DEF OwnFetchInv, UncachedIsOwnFetch
<1> QED
  BY <1>1, <1>2, OwnFetchInvInit, TypeCorrect, PTL DEF Spec

-------------------------------------------------------------------------------
(***************************************************************************)
(* Lifetimes, when get_or_fetch is the only operation.  Three facts carry  *)
(* the argument: a call that is not idle began at most Timeout ago; what   *)
(* it holds was fetched after it began, or was alive in L2 when it had     *)
(* already begun; and the leader inserts into an L1 that is empty, so that *)
(* no entry inherits the expiry of another one.                            *)
(***************************************************************************)

\* A status that is stored at all, and the age an answer can have in L2.
Storable(s) == s # "RateLimited" /\ ExpireAfterCreate(s) > 0
BackendAge(s) == ExpireAfterCreate(s) + Timeout

\* How long before a call began its answer may have been fetched.
Lag(s, flag) == IF flag THEN BackendAge(s) ELSE 0

AgeInv ==
    /\ \A c \in Callers : op[c] = IF pc[c] = "idle" THEN "none" ELSE "get_or_fetch"
    /\ \A c \in Callers : pc[c] # "idle" => start[c] <= now /\ now <= start[c] + Timeout
    /\ HolderNeverFetches
    /\ \A i \in Instances : l1[i] # Empty =>
          /\ Storable(l1[i].status)
          /\ now < l1[i].expires
          /\ l1[i].expires <= l1[i].born + 2 * BackendAge(l1[i].status)
    /\ l2 # Empty =>
          /\ Storable(l2.status)
          /\ now < l2.expires
          /\ l2.expires <= l2.born + BackendAge(l2.status)
    /\ \A c \in Callers : pc[c] \in {"store", "insert"} =>
          /\ start[c] <= val[c].born + Lag(val[c].status, cached[c])
          /\ cached[c] => Storable(val[c].status) /\ pc[c] = "insert"
    /\ \A c \in Callers : pc[c] = "wake" /\ val[c].status \in Status =>
          /\ start[c] <= val[c].born + Timeout + Lag(val[c].status, cached[c])
          /\ cached[c] => Storable(val[c].status)
    /\ RepliesAreFresh

\* At first there is nothing that could be too old.
LEMMA AgeInvInit == Init => AgeInv
BY HomeAssumption DEF Init, AgeInv, HolderNeverFetches, RepliesAreFresh, InFlight, Status

\* How the bounds on an answer's age in L2, in L1 and in a reply relate.
LEMMA BackendAgeType ==
    ASSUME NEW s
    PROVE  /\ BackendAge(s) \in Nat
           /\ BackendAge(s) = ExpireAfterCreate(s) + Timeout
           /\ ShelfLife(s) \in Nat
           /\ 2 * Timeout <= ShelfLife(s)
           /\ Storable(s) => 2 * BackendAge(s) <= ShelfLife(s)
           /\ Storable(s) => BackendAge(s) + 2 * Timeout <= ShelfLife(s)
BY TtlType, TimeAssumption DEF BackendAge, ShelfLife, Storable, LongerOf

\* An answer inserted into an empty L1 within Timeout of the start of its call.
LEMMA FreshInsert ==
    ASSUME NEW a \in [status : Status, born : Nat], now \in Nat, NEW s \in Nat,
           now <= s + Timeout,
           s <= a.born + BackendAge(a.status),
           NEW e, e = Inserted(Empty, a), e # Empty
    PROVE  /\ e.status = a.status /\ e.born = a.born
           /\ Storable(e.status)
           /\ now < e.expires
           /\ e.expires <= e.born + 2 * BackendAge(e.status)
<1> DEFINE t == now + ExpireAfterCreate(a.status)
<1>1. e = [status |-> a.status, born |-> a.born, expires |-> t] /\ now < t
  BY DEF Inserted, EntryUntil
<1>2. ExpireAfterCreate(a.status) \in Nat
  BY TtlType
<1>3. Storable(a.status)
  BY <1>1, <1>2 DEF Storable, ExpireAfterCreate
<1> QED
  BY <1>1, <1>2, <1>3, TimeAssumption, BackendAgeType

\* A write to L2 that takes effect stores a status that may be stored, under an expiry
\* that its age bound covers.
LEMMA FreshStore ==
    ASSUME NEW a \in [status : Status, born : Nat], now \in Nat,
           now <= a.born + Timeout,
           NEW e \in StoreOutcomes(a), e # l2, e # Empty
    PROVE  /\ Storable(e.status)
           /\ now < e.expires
           /\ e.expires <= e.born + BackendAge(e.status)
<1> DEFINE t == now + BackendTtl(a.status)
<1>1. e = [status |-> a.status, born |-> a.born, expires |-> t] /\ now < t
  BY DEF StoreOutcomes, EntryUntil
<1>2. BackendTtl(a.status) = ExpireAfterCreate(a.status) /\ ExpireAfterCreate(a.status) \in Nat
  BY TtlType DEF BackendTtl, ExpireAfterCreate
<1>3. Storable(a.status)
  BY <1>1, <1>2 DEF Storable, ExpireAfterCreate
<1> QED
  BY <1>1, <1>2, <1>3, TimeAssumption, BackendAgeType

\* With get_or_fetch only, every step keeps the bounds on age and on what is stored.
LEMMA AgeInvNext ==
    ASSUME Ops \subseteq {"get_or_fetch"}
    PROVE  TypeInv /\ FlightInv /\ AgeInv /\ [Next]_vars => AgeInv'
<1> SUFFICES ASSUME TypeInv, FlightInv, AgeInv, [Next]_vars PROVE AgeInv'
  OBVIOUS
<1> USE HomeAssumption, TimeAssumption
        DEF TypeInv, TypeOK, AgeInv, HolderNeverFetches, RepliesAreFresh, InFlight, Lag
<1>0. /\ Nothing.status \notin Status /\ Failure.status \notin Status
      /\ now \in Nat /\ Timeout \in Nat
      /\ \A i \in Instances : l1[i] # Empty => l1[i].status \in Status
  BY DEF Nothing, Failure, Status, OnlyAnswersStored
<1>1. ASSUME NEW c \in Callers, GetOrFetch(c) PROVE AgeInv'
  <2>1. /\ UNCHANGED <<now, l1, l2, leader>>
        /\ op' = [op EXCEPT ![c] = "get_or_fetch"]
        /\ start' = [start EXCEPT ![c] = now]
        /\ pc[c] = "idle"
    BY <1>1 DEF GetOrFetch, Begin, Idle
  <2>2. CASE l1[Home[c]] # Empty /\ Reply(c, AnswerOf(l1[Home[c]]), TRUE)
    <3>1. now <= l1[Home[c]].born + ShelfLife(l1[Home[c]].status)
      BY <1>0, <2>2, BackendAgeType DEF Entry
    <3>2. pc' = [pc EXCEPT ![c] = "done"]
          /\ val' = [val EXCEPT ![c] = AnswerOf(l1[Home[c]])]
          /\ cached' = [cached EXCEPT ![c] = TRUE]
      BY <2>2 DEF Reply, Goto, Hold
    <3> QED
      BY <2>1, <3>1, <3>2, AnswerOfType
  <2>3. CASE Goto(c, "join") /\ UNCHANGED <<val, cached>>
    BY <2>1, <2>3 DEF Goto
  <2> QED
    BY <1>1, <2>2, <2>3 DEF GetOrFetch
<1>2. ASSUME NEW c \in Callers, Get(c) \/ Set(c) \/ Promote(c) PROVE AgeInv'
  BY <1>2 DEF Get, Set, Begin, Promote
<1>3. ASSUME NEW c \in Callers, JoinFlight(c) PROVE AgeInv'
  BY <1>3 DEF JoinFlight, Goto
<1>4. ASSUME NEW c \in Callers, Lead(c) PROVE AgeInv'
  <2>1. UNCHANGED <<now, l1, l2, op, start>> /\ pc[c] = "join"
    BY <1>4 DEF Lead
  <2>2. CASE l1[Home[c]] # Empty /\ Reply(c, AnswerOf(l1[Home[c]]), TRUE)
    <3>1. now <= l1[Home[c]].born + ShelfLife(l1[Home[c]].status)
      BY <1>0, <2>2, BackendAgeType DEF Entry
    <3>2. pc' = [pc EXCEPT ![c] = "done"]
          /\ val' = [val EXCEPT ![c] = AnswerOf(l1[Home[c]])]
          /\ cached' = [cached EXCEPT ![c] = TRUE]
      BY <2>2 DEF Reply, Goto, Hold
    <3> QED
      BY <2>1, <3>1, <3>2, AnswerOfType
  <2>3. CASE l1[Home[c]] = Empty /\ Goto(c, "backend") /\ UNCHANGED <<val, cached>>
    BY <2>1, <2>3 DEF Goto
  <2> QED
    BY <1>4, <2>2, <2>3 DEF Lead
<1>5. ASSUME NEW c \in Callers, BackendHit(c) PROVE AgeInv'
  <2>1. start[c] <= AnswerOf(l2).born + BackendAge(AnswerOf(l2).status)
        /\ Storable(AnswerOf(l2).status)
    BY <1>0, <1>5, AnswerOfType, BackendAgeType DEF BackendHit, Entry
  <2> QED
    BY <1>5, <2>1 DEF BackendHit, Goto, Hold
<1>6. ASSUME NEW c \in Callers, BackendMiss(c) PROVE AgeInv'
  BY <1>0, <1>6 DEF BackendMiss, Reply, Goto, Hold
<1>7. ASSUME NEW c \in Callers, FetchOk(c) PROVE AgeInv'
  BY <1>7 DEF FetchOk, Goto, Hold
<1>8. ASSUME NEW c \in Callers, FetchErr(c) PROVE AgeInv'
  BY <1>0, <1>8 DEF FetchErr, Land, Waiters
<1>9. ASSUME NEW c \in Callers, BackendSet(c) PROVE AgeInv'
  <2>1. val[c] \in [status : Status, born : Nat]
    BY <1>9, AnswerType DEF BackendSet, OnlyAnswersStored
  <2>2. now <= val[c].born + Timeout
    BY <1>9, <2>1 DEF BackendSet
  <2>3. l2' # Empty =>
          /\ Storable(l2'.status)
          /\ now < l2'.expires
          /\ l2'.expires <= l2'.born + BackendAge(l2'.status)
    <3>1. CASE l2' = l2
      BY <3>1
    <3>2. CASE l2' # l2
      BY <1>0, <1>9, <2>1, <2>2, <3>2, FreshStore DEF BackendSet
    <3> QED
      BY <3>1, <3>2
  <2>4. UNCHANGED <<now, l1, op, start, val, cached>> /\ Goto(c, "insert") /\ pc[c] = "store"
    BY <1>9 DEF BackendSet
  <2> QED
    BY <2>3, <2>4 DEF Goto
<1>10. ASSUME NEW c \in Callers, FinishFlight(c) PROVE AgeInv'
  <2>1. val[c] \in [status : Status, born : Nat]
    BY <1>10, AnswerType DEF FinishFlight, OnlyAnswersStored
  <2>2. /\ l1[Home[c]] = Empty
        /\ l1' = [l1 EXCEPT ![Home[c]] = Inserted(Empty, val[c])]
        /\ UNCHANGED <<now, l2, op, start>>
    BY <1>10 DEF FinishFlight
  <2>3. start[c] <= val[c].born + BackendAge(val[c].status)
        /\ start[c] <= val[c].born + Lag(val[c].status, cached[c])
        /\ (cached[c] => Storable(val[c].status))
        /\ now <= start[c] + Timeout
    BY <1>10, <2>1, BackendAgeType DEF FinishFlight
  <2>4. Inserted(Empty, val[c]) # Empty =>
          /\ Storable(Inserted(Empty, val[c]).status)
          /\ now < Inserted(Empty, val[c]).expires
          /\ Inserted(Empty, val[c]).expires <=
                Inserted(Empty, val[c]).born + 2 * BackendAge(Inserted(Empty, val[c]).status)
    BY <1>0, <2>1, <2>3, FreshInsert
  <2>5. \A x \in Callers : pc[x] \in InFlight /\ x # c => Home[x] # Home[c]
    BY <1>10 DEF FinishFlight, FlightInv, SingleFlight
  <2>6. now <= val[c].born + Timeout + Lag(val[c].status, cached[c])
    BY <1>0, <2>1, <2>3, BackendAgeType
  <2>7. now <= val[c].born + ShelfLife(val[c].status)
    BY <1>0, <2>1, <2>3, <2>6, BackendAgeType
  <2>8. \A x \in Callers :
           /\ pc'[x] = IF x = c THEN "done"
                       ELSE IF x \in Waiters(Home[c]) THEN "wake" ELSE pc[x]
           /\ val'[x] = IF x = c \/ x \in Waiters(Home[c]) THEN val[c] ELSE val[x]
           /\ cached'[x] = IF x = c \/ x \in Waiters(Home[c]) THEN cached[c] ELSE cached[x]
    BY <1>10 DEF FinishFlight, Land
  <2>9. \A x \in Callers : x \in Waiters(Home[c]) <=> Home[x] = Home[c] /\ pc[x] = "wait"
    BY DEF Waiters
  <2>10. \A x \in Callers : op'[x] = IF pc'[x] = "idle" THEN "none" ELSE "get_or_fetch"
    BY <1>10, <2>2, <2>8, <2>9 DEF FinishFlight
  <2>11. \A x \in Callers : pc'[x] # "idle" =>
            start'[x] <= now' /\ now' <= start'[x] + Timeout
    BY <1>10, <2>2, <2>8, <2>9 DEF FinishFlight
  <2>12. HolderNeverFetches'
    BY <2>2, <2>5, <2>8, <2>9
  <2>13. \A i \in Instances : l1'[i] # Empty =>
            /\ Storable(l1'[i].status)
            /\ now' < l1'[i].expires
            /\ l1'[i].expires <= l1'[i].born + 2 * BackendAge(l1'[i].status)
    BY <2>2, <2>4
  <2>14. \A x \in Callers : pc'[x] \in {"store", "insert"} =>
            x # c /\ x \notin Waiters(Home[c]) /\ pc'[x] = pc[x]
    BY <2>8, <2>9
  <2>15. \A x \in Callers : pc'[x] = "wake" /\ val'[x].status \in Status =>
            /\ start'[x] <= val'[x].born + Timeout + Lag(val'[x].status, cached'[x])
            /\ cached'[x] => Storable(val'[x].status)
    <3> SUFFICES ASSUME NEW x \in Callers, pc'[x] = "wake", val'[x].status \in Status
                 PROVE  /\ start'[x] <= val'[x].born + Timeout + Lag(val'[x].status, cached'[x])
                        /\ cached'[x] => Storable(val'[x].status)
      OBVIOUS
    <3>1. CASE x \in Waiters(Home[c])
      <4>1. start[x] <= now
        BY <2>9, <3>1
      <4>2. val'[x] = val[c] /\ cached'[x] = cached[c] /\ start'[x] = start[x]
        BY <2>2, <2>8, <3>1
      <4> QED
        BY <1>0, <2>1, <2>3, <2>6, <4>1, <4>2, BackendAgeType
    <3>2. CASE x \notin Waiters(Home[c])
      BY <2>2, <2>8, <3>2
    <3> QED
      BY <3>1, <3>2
  <2>16. RepliesAreFresh'
    BY <2>2, <2>7, <2>8
  <2>17. \A x \in Callers : pc'[x] \in {"store", "insert"} =>
            /\ start'[x] <= val'[x].born + Lag(val'[x].status, cached'[x])
            /\ cached'[x] => Storable(val'[x].status) /\ pc'[x] = "insert"
    BY <2>2, <2>8, <2>14
  <2> QED
    BY <2>2, <2>10, <2>11, <2>12, <2>13, <2>15, <2>16, <2>17
<1>11. ASSUME NEW c \in Callers, Wake(c) PROVE AgeInv'
  <2>1. val[c].status \in Status => now <= val[c].born + ShelfLife(val[c].status)
    BY <1>0, <1>11, BackendAgeType DEF Wake, Answer
  <2> QED
    BY <1>11, <2>1 DEF Wake, Reply, Goto, Hold
<1>12. ASSUME NEW c \in Callers, Return(c) PROVE AgeInv'
  BY <1>12 DEF Return, Goto, Hold
<1>13. ASSUME NEW c \in Callers, Abandon(c) PROVE AgeInv'
  BY <1>13 DEF Abandon, Hold
<1>14. ASSUME NEW i \in Instances, Evict(i) PROVE AgeInv'
  BY <1>14 DEF Evict
<1>15. ASSUME EvictBackend PROVE AgeInv'
  BY <1>15 DEF EvictBackend
<1>16. ASSUME Tick PROVE AgeInv'
  BY <1>16 DEF Tick, Overdue, Aged
<1>17. ASSUME UNCHANGED vars PROVE AgeInv'
  BY <1>17 DEF vars
<1> QED
  BY <1>1, <1>2, <1>3, <1>4, <1>5, <1>6, <1>7, <1>8, <1>9, <1>10, <1>11, <1>12, <1>13,
     <1>14, <1>15, <1>16, <1>17 DEF Next, Proceed

\* With get_or_fetch only, AgeInv holds in every state.
LEMMA AgeInvAlways ==
    ASSUME Ops \subseteq {"get_or_fetch"}
    PROVE  Spec => []AgeInv
<1>1. TypeInv /\ FlightInv /\ AgeInv /\ [Next]_vars => AgeInv'
  BY AgeInvNext
<1>2. TypeInv /\ FlightInv /\ [Next]_vars => FlightInv'
  BY FlightInvNext
<1> QED
  BY <1>1, <1>2, AgeInvInit, FlightInvInit, TypeCorrect, PTL DEF Spec

\* A throttle banner persists in neither tier.
THEOREM BannerNeverPersists ==
    ASSUME Ops \subseteq {"get_or_fetch"}
    PROVE  Spec => []ThrottleNotCached
<1>1. AgeInv => ThrottleNotCached
  BY DEF AgeInv, ThrottleNotCached, ThrottleNotShared, Storable, Empty
<1> QED
  BY <1>1, AgeInvAlways, PTL

\* An instance that holds an answer is not asking anybody for it.
THEOREM HolderIsQuiet ==
    ASSUME Ops \subseteq {"get_or_fetch"}
    PROVE  Spec => []HolderNeverFetches
<1>1. AgeInv => HolderNeverFetches
  BY DEF AgeInv
<1> QED
  BY <1>1, AgeInvAlways, PTL

\* The two TTLs, and one Timeout for each of the two calls an answer passes
\* through, bound the life of every entry.
THEOREM LifetimesAreBounded ==
    ASSUME Ops \subseteq {"get_or_fetch"}
    PROVE  Spec => []LifetimeBounded
<1>1. TypeInv /\ AgeInv => LifetimeBounded
  BY TtlType, TimeAssumption
     DEF TypeInv, TypeOK, Entry, AgeInv, LifetimeBounded, BackendAge
<1> QED
  BY <1>1, AgeInvAlways, TypeCorrect, PTL

\* No reply is older than the shelf life of its status.
THEOREM RepliesStayFresh ==
    ASSUME Ops \subseteq {"get_or_fetch"}
    PROVE  Spec => []RepliesAreFresh
<1>1. AgeInv => RepliesAreFresh
  BY DEF AgeInv
<1> QED
  BY <1>1, AgeInvAlways, PTL

-------------------------------------------------------------------------------
(***************************************************************************)
(* The whole interface.  get and set write over live entries, so an entry  *)
(* may inherit an expiry that its own status would not earn.  It is still  *)
(* bounded: the inherited expiry is at most one TTL away, and what is      *)
(* written was fetched when the call was young, or was alive in L2 then.   *)
(***************************************************************************)

\* No entry is given longer than this.
LongestTtl == LongerOf(PositiveTtl, NegativeTtl)

\* No TTL is longer than the longest.
LEMMA TtlBound ==
    ASSUME NEW s
    PROVE  /\ LongestTtl \in Nat
           /\ ExpireAfterCreate(s) <= LongestTtl
           /\ BackendTtl(s) <= LongestTtl
BY TimeAssumption DEF LongestTtl, LongerOf, ExpireAfterCreate, BackendTtl

\* When each tier's entry expires, and how old the answer is that a call is about to store
\* or insert.
ApiInv ==
    /\ \A c \in Callers : pc[c] # "idle" => start[c] <= now /\ now <= start[c] + Timeout
    /\ \A i \in Instances : l1[i] # Empty =>
          /\ l1[i].expires <= now + LongestTtl
          /\ l1[i].expires <= l1[i].born + 2 * (LongestTtl + Timeout)
    /\ l2 # Empty => now < l2.expires /\ l2.expires <= l2.born + LongestTtl + Timeout
    /\ \A c \in Callers : pc[c] = "store" => start[c] <= val[c].born
    /\ \A c \in Callers : pc[c] = "insert" => start[c] <= val[c].born + LongestTtl + Timeout

\* An insert over any entry.
LEMMA BoundedInsert ==
    ASSUME NEW a \in [status : Status, born : Nat], now \in Nat, NEW e \in Entry,
           now <= a.born + LongestTtl + 2 * Timeout,
           e # Empty => e.expires <= now + LongestTtl,
           Inserted(e, a) # Empty
    PROVE  /\ Inserted(e, a).expires <= now + LongestTtl
           /\ Inserted(e, a).expires <= Inserted(e, a).born + 2 * (LongestTtl + Timeout)
<1> DEFINE t == IF e # Empty THEN e.expires ELSE now + ExpireAfterCreate(a.status)
<1>1. t \in Nat /\ t <= now + LongestTtl /\ LongestTtl \in Nat
  BY TtlType, TtlBound DEF Entry
<1> HIDE DEF t
<1>2. Inserted(e, a) = [status |-> a.status, born |-> a.born, expires |-> t]
  BY DEF Inserted, EntryUntil, t
<1> QED
  BY <1>1, <1>2, TimeAssumption

\* A store within Timeout of the fetch.
LEMMA BoundedStore ==
    ASSUME NEW a \in [status : Status, born : Nat], now \in Nat,
           now <= a.born + Timeout,
           NEW e \in StoreOutcomes(a), e # l2, e # Empty
    PROVE  now < e.expires /\ e.expires <= e.born + LongestTtl + Timeout
<1> DEFINE t == now + BackendTtl(a.status)
<1>1. t \in Nat /\ t <= now + LongestTtl /\ LongestTtl \in Nat
  BY TtlType, TtlBound
<1>2. e = [status |-> a.status, born |-> a.born, expires |-> t] /\ now < t
  BY DEF StoreOutcomes, EntryUntil
<1> QED
  BY <1>1, <1>2, TimeAssumption

\* At first nothing is stored.
LEMMA ApiInvInit == Init => ApiInv
BY DEF Init, ApiInv

\* Every step keeps the bounds that hold with get and set in use as well.
LEMMA ApiInvNext == TypeInv /\ ApiInv /\ [Next]_vars => ApiInv'
<1> SUFFICES ASSUME TypeInv, ApiInv, [Next]_vars PROVE ApiInv'
  OBVIOUS
<1> USE HomeAssumption, TimeAssumption DEF TypeInv, TypeOK, ApiInv
<1>0. now \in Nat /\ Timeout \in Nat /\ LongestTtl \in Nat
  BY DEF LongestTtl, LongerOf
<1>1. ASSUME NEW c \in Callers, GetOrFetch(c) \/ Get(c) PROVE ApiInv'
  BY <1>1 DEF GetOrFetch, Get, Begin, Idle, Reply, Goto, Hold
<1>2. ASSUME NEW c \in Callers, NEW a \in [status : Status, born : Nat],
             now <= a.born + LongestTtl + 2 * Timeout,
             l1' = [l1 EXCEPT ![Home[c]] = Inserted(@, a)], now' = now
      PROVE  \A i \in Instances : l1'[i] # Empty =>
                /\ l1'[i].expires <= now' + LongestTtl
                /\ l1'[i].expires <= l1'[i].born + 2 * (LongestTtl + Timeout)
  <2>1. l1[Home[c]] \in Entry /\ Home[c] \in Instances
    OBVIOUS
  <2>2. l1[Home[c]] # Empty => l1[Home[c]].expires <= now + LongestTtl
    BY <2>1
  <2>3. Inserted(l1[Home[c]], a) # Empty =>
           /\ Inserted(l1[Home[c]], a).expires <= now + LongestTtl
           /\ Inserted(l1[Home[c]], a).expires <=
                 Inserted(l1[Home[c]], a).born + 2 * (LongestTtl + Timeout)
    BY <1>0, <1>2, <2>1, <2>2, BoundedInsert
  <2> QED
    BY <1>2, <2>1, <2>3
<1>3. ASSUME NEW c \in Callers, Set(c) PROVE ApiInv'
  <2>1. PICK s \in Status :
           /\ l1' = [l1 EXCEPT ![Home[c]] = Inserted(@, [status |-> s, born |-> now])]
           /\ Hold(c, [status |-> s, born |-> now], FALSE)
    BY <1>3 DEF Set
  <2>2. /\ UNCHANGED <<now, l2>> /\ pc' = [pc EXCEPT ![c] = "store"]
        /\ start' = [start EXCEPT ![c] = now]
    BY <1>3 DEF Set, Begin, Goto
  <2>3. /\ [status |-> s, born |-> now] \in [status : Status, born : Nat]
        /\ now <= [status |-> s, born |-> now].born + LongestTtl + 2 * Timeout
    BY <1>0
  <2>4. \A i \in Instances : l1'[i] # Empty =>
                /\ l1'[i].expires <= now' + LongestTtl
                /\ l1'[i].expires <= l1'[i].born + 2 * (LongestTtl + Timeout)
    BY <1>2, <2>1, <2>2, <2>3
  <2> QED
    BY <1>0, <2>1, <2>2, <2>4 DEF Hold
<1>4. ASSUME NEW c \in Callers, JoinFlight(c) \/ Lead(c) \/ BackendMiss(c) \/ Wake(c)
      PROVE  ApiInv'
  BY <1>4 DEF JoinFlight, Lead, BackendMiss, Wake, Reply, Goto, Hold
<1>5. ASSUME NEW c \in Callers, BackendHit(c) PROVE ApiInv'
  <2>1. AnswerOf(l2).born = l2.born /\ l2.born \in Nat /\ l2.expires \in Nat
    BY AnswerOfType DEF Entry
  <2>2. pc[c] # "idle" /\ l2 # Empty /\ start[c] \in Nat
    BY <1>5 DEF BackendHit
  <2>3. start[c] <= now /\ now < l2.expires /\ l2.expires <= l2.born + LongestTtl + Timeout
    BY <2>2
  <2>4. start[c] <= AnswerOf(l2).born + LongestTtl + Timeout
    BY <1>0, <2>1, <2>2, <2>3
  <2> QED
    BY <1>5, <2>4 DEF BackendHit, Goto, Hold
<1>6. ASSUME NEW c \in Callers, FetchOk(c) PROVE ApiInv'
  BY <1>6 DEF FetchOk, Goto, Hold
<1>7. ASSUME NEW c \in Callers, FetchErr(c) PROVE ApiInv'
  BY <1>7 DEF FetchErr, Land, Waiters
<1>8. ASSUME NEW c \in Callers, BackendSet(c) PROVE ApiInv'
  <2>1. val[c] \in [status : Status, born : Nat] /\ val[c].born \in Nat
    BY <1>8, AnswerType DEF BackendSet, OnlyAnswersStored
  <2>2. now <= val[c].born + Timeout
    BY <1>8, <2>1 DEF BackendSet
  <2>3. l2' # Empty => now < l2'.expires /\ l2'.expires <= l2'.born + LongestTtl + Timeout
    <3>1. CASE l2' = l2
      BY <3>1
    <3>2. CASE l2' # l2
      BY <1>0, <1>8, <2>1, <2>2, <3>2, BoundedStore DEF BackendSet
    <3> QED
      BY <3>1, <3>2
  <2>4. UNCHANGED <<now, l1, start>> /\ pc[c] = "store" /\ start[c] \in Nat
    BY <1>8 DEF BackendSet
  <2>5. CASE Goto(c, "insert") /\ UNCHANGED <<val, cached>>
    BY <1>0, <2>1, <2>3, <2>4, <2>5 DEF Goto
  <2>6. CASE Reply(c, Nothing, FALSE)
    BY <2>3, <2>4, <2>6 DEF Reply, Goto, Hold
  <2> QED
    BY <1>8, <2>5, <2>6 DEF BackendSet
<1>9. ASSUME NEW c \in Callers, FinishFlight(c) \/ Promote(c) PROVE ApiInv'
  <2>1. /\ pc[c] = "insert" /\ UNCHANGED <<now, l2, start>>
        /\ l1' = [l1 EXCEPT ![Home[c]] = Inserted(@, val[c])]
    BY <1>9 DEF FinishFlight, Promote
  <2>2. val[c] \in [status : Status, born : Nat] /\ start[c] \in Nat /\ val[c].born \in Nat
    BY <2>1, AnswerType DEF OnlyAnswersStored
  <2>3. now <= val[c].born + LongestTtl + 2 * Timeout
    BY <1>0, <2>1, <2>2
  <2>4. \A i \in Instances : l1'[i] # Empty =>
                /\ l1'[i].expires <= now' + LongestTtl
                /\ l1'[i].expires <= l1'[i].born + 2 * (LongestTtl + Timeout)
    BY <1>2, <2>1, <2>2, <2>3
  <2>5. CASE FinishFlight(c)
    BY <2>1, <2>4, <2>5 DEF FinishFlight, Land, Waiters
  <2>6. CASE Promote(c)
    BY <2>1, <2>4, <2>6 DEF Promote, Reply, Goto, Hold
  <2> QED
    BY <1>9, <2>5, <2>6
<1>10. ASSUME NEW c \in Callers, Return(c) PROVE ApiInv'
  BY <1>10 DEF Return, Goto, Hold
<1>11. ASSUME NEW c \in Callers, Abandon(c) PROVE ApiInv'
  BY <1>11 DEF Abandon, Hold
<1>12. ASSUME (\E i \in Instances : Evict(i)) \/ EvictBackend \/ UNCHANGED vars
       PROVE  ApiInv'
  BY <1>12 DEF Evict, EvictBackend, vars
<1>13. ASSUME Tick PROVE ApiInv'
  BY <1>0, <1>13 DEF Tick, Overdue, Aged, Entry
<1> QED
  BY <1>1, <1>3, <1>4, <1>5, <1>6, <1>7, <1>8, <1>9, <1>10, <1>11, <1>12, <1>13
  DEF Next, Proceed

\* Whatever operations are called, nothing outlives two TTLs and two timeouts in L1.
THEOREM ApiLifetimesAreBounded == Spec => []ApiLifetimeBounded
<1>1. TypeInv /\ ApiInv /\ [Next]_vars => ApiInv'
  BY ApiInvNext
<1>2. ApiInv => ApiLifetimeBounded
  BY DEF ApiInv, ApiLifetimeBounded, LongestTtl
<1> QED
  BY <1>1, <1>2, ApiInvInit, TypeCorrect, PTL DEF Spec

\* Whoever calls set, a throttle banner never reaches the shared tier.
THEOREM BannersAreNotShared == Spec => []ThrottleNotShared
<1>1. Init => ThrottleNotShared
  BY DEF Init, ThrottleNotShared, Empty
<1>2. ThrottleNotShared /\ [Next]_vars => ThrottleNotShared'
  <2> SUFFICES ASSUME ThrottleNotShared, [Next]_vars PROVE ThrottleNotShared'
    OBVIOUS
  <2>1. ASSUME NEW c \in Callers, BackendSet(c) PROVE ThrottleNotShared'
    <3>1. l2' = l2 \/ l2' = Empty \/ (BackendTtl(val[c].status) > 0 /\
                                       l2'.status = val[c].status)
      BY <2>1 DEF BackendSet, StoreOutcomes, EntryUntil
    <3> QED
      BY <3>1 DEF ThrottleNotShared, Empty, BackendTtl
  <2>2. CASE UNCHANGED l2
    BY <2>2 DEF ThrottleNotShared
  <2>3. CASE EvictBackend \/ Tick
    BY <2>3 DEF EvictBackend, Tick, Aged, ThrottleNotShared, Empty
  <2> QED
    BY <2>1, <2>2, <2>3
    DEF Next, Proceed, GetOrFetch, Get, Set, JoinFlight, Lead, BackendHit, BackendMiss,
        FetchOk, FetchErr, FinishFlight, Wake, Promote, Return, Abandon, Evict, vars
<1> QED
  BY <1>1, <1>2, PTL DEF Spec
===============================================================================
