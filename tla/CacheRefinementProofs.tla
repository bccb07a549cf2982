------------------------- MODULE CacheRefinementProofs -------------------------
(***************************************************************************)
(* CacheService, used through get_or_fetch, implements FreshAnswers, for   *)
(* any fleet, any callers and any TTLs: every step of the two tiers is a   *)
(* step of the promise, or one in which the service only forgets.          *)
(***************************************************************************)
EXTENDS CacheRefinement, CacheServiceProofs

Known == {a \in Kept : a.status \in Status}
Phase == [c \in Callers |-> IF pc[c] = "idle" THEN "idle"
                            ELSE IF pc[c] = "done" THEN "answered" ELSE "asking"]
Result == [c \in Callers |-> IF pc[c] = "done" THEN val[c] ELSE Nothing]

\* What a woken caller was given is an answer or the error of the fetch.
WakeInv == \A c \in Callers : pc[c] = "wake" => val[c].status \in Status \/ val[c] = Failure

\* At first nobody is being woken.
LEMMA WakeInvInit == Init => WakeInv
BY DEF Init, WakeInv

\* Every step keeps waiters woken with an answer or an error.
LEMMA WakeInvNext == TypeInv /\ WakeInv /\ [Next]_vars => WakeInv'
<1> SUFFICES ASSUME TypeInv, WakeInv, [Next]_vars PROVE WakeInv'
  OBVIOUS
<1> USE DEF WakeInv, TypeInv, TypeOK
<1>1. ASSUME NEW c \in Callers, GetOrFetch(c) \/ Get(c) \/ Set(c) PROVE WakeInv'
  BY <1>1 DEF GetOrFetch, Get, Set, Begin, Reply, Goto, Hold
<1>2. ASSUME NEW c \in Callers, JoinFlight(c) \/ Lead(c) \/ BackendHit(c) \/ BackendMiss(c)
      PROVE  WakeInv'
  BY <1>2 DEF JoinFlight, Lead, BackendHit, BackendMiss, Reply, Goto, Hold
<1>3. ASSUME NEW c \in Callers, FetchOk(c) \/ BackendSet(c) \/ Wake(c) \/ Promote(c)
                                \/ Return(c)
      PROVE  WakeInv'
  BY <1>3 DEF FetchOk, BackendSet, Wake, Promote, Return, Reply, Goto, Hold
<1>4. ASSUME NEW c \in Callers, FetchErr(c) PROVE WakeInv'
  BY <1>4 DEF FetchErr, Land, Waiters
<1>5. ASSUME NEW c \in Callers, FinishFlight(c) PROVE WakeInv'
  BY <1>5 DEF FinishFlight, Land, Waiters, OnlyAnswersStored
<1>6. ASSUME NEW c \in Callers, Abandon(c) PROVE WakeInv'
  BY <1>6 DEF Abandon, Hold
<1>7. ASSUME (\E i \in Instances : Evict(i)) \/ EvictBackend \/ Tick \/ UNCHANGED vars
      PROVE  WakeInv'
  BY <1>7 DEF Evict, EvictBackend, Tick, vars
<1> QED
  BY <1>1, <1>2, <1>3, <1>4, <1>5, <1>6, <1>7 DEF Next, Proceed

-------------------------------------------------------------------------------
(* The mapping *)

\* The service keeps an answer in one of the tiers or in a call.
LEMMA KeptIn ==
    ASSUME NEW a
    PROVE  a \in Kept <=> \/ \E i \in Instances : a = AnswerOf(l1[i])
                          \/ a = AnswerOf(l2)
                          \/ \E c \in Callers : a = val[c]
BY DEF Kept

\* If every place holds what some place held before, or no answer, or the one that was
\* just given, no other answer becomes known.
LEMMA NothingInvented ==
    ASSUME NEW given,
           \A i \in Instances : \/ AnswerOf(l1'[i]).status \notin Status
                                \/ AnswerOf(l1'[i]) \in Kept \cup given,
           \/ AnswerOf(l2').status \notin Status
           \/ AnswerOf(l2') \in Kept \cup given,
           \A c \in Callers : val'[c].status \notin Status \/ val'[c] \in Kept \cup given
    PROVE  Known' \subseteq Known \cup given
BY DEF Known, Kept

\* An empty place holds no answer, and an unchanged one holds what it held.
LEMMA Places ==
    /\ AnswerOf(Empty).status \notin Status
    /\ Nothing.status \notin Status /\ Failure.status \notin Status
    /\ \A i \in Instances : AnswerOf(l1[i]) \in Kept
    /\ AnswerOf(l2) \in Kept
    /\ \A c \in Callers : val[c] \in Kept
BY DEF AnswerOf, Empty, Nothing, Failure, Status, Kept

\* An entry made from an answer is empty or holds that answer.
LEMMA EntryHolds ==
    ASSUME NEW a \in [status : Status, born : Nat], NEW t
    PROVE  EntryUntil(a, t) = Empty \/ AnswerOf(EntryUntil(a, t)) = a
BY DEF EntryUntil, AnswerOf

Become(c, p, r) == Phase' = [Phase EXCEPT ![c] = p] /\ Result' = [Result EXCEPT ![c] = r]

\* To its caller a call shows whether it runs and what it has returned.
Shows(x, p, r) ==
    /\ p = IF pc'[x] = "idle" THEN "idle" ELSE IF pc'[x] = "done" THEN "answered" ELSE "asking"
    /\ r = IF pc'[x] = "done" THEN val'[x] ELSE Nothing

Same(x) ==
    /\ pc'[x] = "idle" <=> pc[x] = "idle"
    /\ pc'[x] = "done" <=> pc[x] = "done"
    /\ pc[x] = "done" => val'[x] = val[x]

\* A step that changes what one caller shows, and no other's, changes the abstract phase
\* and result at that caller only.
LEMMA OnlyOneShows ==
    ASSUME NEW c \in Callers, NEW p, NEW r, Shows(c, p, r),
           \A x \in Callers : x # c => Same(x)
    PROVE  Become(c, p, r)
<1>1. /\ Phase' = [x \in Callers |-> IF pc'[x] = "idle" THEN "idle"
                                    ELSE IF pc'[x] = "done" THEN "answered" ELSE "asking"]
      /\ Result' = [x \in Callers |-> IF pc'[x] = "done" THEN val'[x] ELSE Nothing']
      /\ Nothing' = Nothing
  BY DEF Phase, Result, Nothing
<1>2. Phase' = [Phase EXCEPT ![c] = p]
  BY <1>1 DEF Phase, Shows, Same
<1>3. Result' = [Result EXCEPT ![c] = r]
  BY <1>1 DEF Result, Shows, Same
<1> QED
  BY <1>2, <1>3 DEF Become

\* A step that changes nothing a caller shows leaves the abstract phase and result alone.
LEMMA NoneShows ==
    ASSUME \A x \in Callers : Same(x)
    PROVE  UNCHANGED <<Phase, Result>>
BY DEF Phase, Result, Same, Nothing

\* The steps of FreshAnswers, of what CacheService shows.
LEMMA Steps ==
    ASSUME Known' \subseteq Known
    PROVE  /\ UNCHANGED <<now, Phase, Result>> => FA!Next
           /\ (\A c \in Callers : Phase[c] # "answered") /\ now' = now + 1
                 /\ UNCHANGED <<Phase, Result>> => FA!Next
           /\ \A c \in Callers :
                 /\ Phase[c] = "idle" /\ Become(c, "asking", Nothing) /\ now' = now => FA!Next
                 /\ Phase[c] # "idle" /\ Become(c, "idle", Nothing) /\ now' = now => FA!Next
                 /\ Phase[c] = "asking" /\ now' = now
                       /\ (Become(c, "answered", Nothing) \/ Become(c, "answered", Failure))
                       => FA!Next
                 /\ \A a \in Known : Phase[c] # "answered" /\ now' = now
                       /\ now <= a.born + ShelfLife(a.status) /\ Become(c, "answered", a)
                       => FA!Next
<1>1. FA!Forget
  BY DEF FA!Forget, Known
<1>2. UNCHANGED <<now, Phase, Result>> => FA!Next
  BY <1>1 DEF FA!Next, FA!Lose, Phase, Result
<1>3. (\A c \in Callers : Phase[c] # "answered") /\ now' = now + 1
          /\ UNCHANGED <<Phase, Result>> => FA!Next
  BY <1>1 DEF FA!Next, FA!Tick, Phase, Result
<1>4. ASSUME NEW c \in Callers, NEW p, NEW r
      PROVE  Become(c, p, r) <=> FA!Become(c, p, r)
  BY DEF Become, FA!Become, Phase, Result
<1>5. ASSUME NEW c \in Callers, Phase[c] = "idle", Become(c, "asking", Nothing), now' = now
      PROVE  FA!Next
  BY <1>1, <1>4, <1>5 DEF FA!Next, FA!Ask, Phase
<1>6. ASSUME NEW c \in Callers, Phase[c] # "idle", Become(c, "idle", Nothing), now' = now
      PROVE  FA!Next
  BY <1>1, <1>4, <1>6 DEF FA!Next, FA!Leave, Phase
<1>7. ASSUME NEW c \in Callers, Phase[c] = "asking", now' = now,
             Become(c, "answered", Nothing) \/ Become(c, "answered", Failure)
      PROVE  FA!Next
  <2>1. FA!Refuse(c)
    BY <1>1, <1>4, <1>7 DEF FA!Refuse, Phase
  <2> QED
    BY <2>1 DEF FA!Next
<1>8. ASSUME NEW c \in Callers, NEW a \in Known, Phase[c] # "answered", now' = now,
             now <= a.born + ShelfLife(a.status), Become(c, "answered", a)
      PROVE  FA!Next
  <2>1. a.status \in Status
    BY DEF Known
  <2>2. FA!Usable(a)
    BY <1>8, <2>1 DEF FA!Usable
  <2>3. FA!Become(c, "answered", a)
    BY <1>4, <1>8
  <2>4. FA!Reply(c)
    BY <1>1, <1>8, <2>2, <2>3 DEF FA!Reply, Phase, Known
  <2> QED
    BY <2>4 DEF FA!Next
<1> QED
  BY <1>2, <1>3, <1>5, <1>6, <1>7, <1>8

-------------------------------------------------------------------------------
(* The steps *)

\* What an instance has in L1 it may still hand out.
LEMMA HitIsUsable ==
    ASSUME TypeInv, AgeInv, NEW i \in Instances, l1[i] # Empty
    PROVE  /\ AnswerOf(l1[i]) \in Known
           /\ now <= AnswerOf(l1[i]).born + ShelfLife(AnswerOf(l1[i]).status)
<1>1. l1[i] \in Entry /\ l1[i].status \in Status /\ l1[i].born \in Nat /\ now \in Nat
      /\ l1[i].expires \in Nat
  BY DEF TypeInv, TypeOK, OnlyAnswersStored, Entry
<1>2. /\ AnswerOf(l1[i]).status = l1[i].status /\ AnswerOf(l1[i]).born = l1[i].born
  BY <1>1, AnswerOfType
<1>3. /\ Storable(l1[i].status) /\ now < l1[i].expires
      /\ l1[i].expires <= l1[i].born + 2 * BackendAge(l1[i].status)
  BY DEF AgeInv
<1>4. now <= l1[i].born + ShelfLife(l1[i].status)
  BY <1>1, <1>3, BackendAgeType
<1> QED
  BY <1>1, <1>2, <1>4, Places DEF Known

\* Every action of the cache maps to an action of the promise.
LEMMA StepKept ==
    ASSUME Ops \subseteq {"get_or_fetch"}, TypeInv, AgeInv, WakeInv, RepliesAreFresh', Next
    PROVE  FA!Next
<1> USE HomeAssumption, NoCallerAssumption DEF Pc, InFlight
<1>0. /\ pc \in [Callers -> Pc] /\ val \in [Callers -> Answer] /\ now \in Nat
      /\ \A c \in Callers : op[c] = IF pc[c] = "idle" THEN "none" ELSE "get_or_fetch"
      /\ \A c \in Callers : Phase[c] = IF pc[c] = "idle" THEN "idle"
                                       ELSE IF pc[c] = "done" THEN "answered" ELSE "asking"
  BY DEF TypeInv, TypeOK, AgeInv, Phase
<1>1. ASSUME UNCHANGED <<l1, l2>>,
             \A c \in Callers : val'[c].status \notin Status \/ val'[c] \in Kept
      PROVE  Known' \subseteq Known
  <2>1. \A i \in Instances : AnswerOf(l1'[i]) \in Kept
    BY <1>1, Places
  <2>2. AnswerOf(l2') \in Kept
    BY <1>1, Places
  <2>3. Known' \subseteq Known \cup {}
    BY <1>1, <2>1, <2>2, NothingInvented
  <2> QED
    BY <2>3
<1>2. ASSUME NEW c \in Callers, GetOrFetch(c) PROVE FA!Next
  <2>1. pc[c] = "idle" /\ UNCHANGED <<now, l1, l2>>
    BY <1>2 DEF GetOrFetch, Begin, Idle
  <2>2. CASE l1[Home[c]] # Empty /\ Reply(c, AnswerOf(l1[Home[c]]), TRUE)
    <3>1. /\ pc' = [pc EXCEPT ![c] = "done"]
          /\ val' = [val EXCEPT ![c] = AnswerOf(l1[Home[c]])]
      BY <2>2 DEF Reply, Goto, Hold
    <3>2. Known' \subseteq Known
      BY <1>0, <1>1, <2>1, <3>1, Places
    <3>3. Become(c, "answered", AnswerOf(l1[Home[c]]))
      BY <1>0, <3>1, OnlyOneShows DEF Shows, Same
    <3> QED
      BY <1>0, <2>1, <2>2, <3>2, <3>3, HitIsUsable, Steps
  <2>3. CASE Goto(c, "join") /\ UNCHANGED <<val, cached>>
    <3>1. Known' \subseteq Known
      BY <1>1, <2>1, <2>3, Places
    <3>2. Become(c, "asking", Nothing)
      BY <1>0, <2>3, OnlyOneShows DEF Shows, Same, Goto
    <3> QED
      BY <1>0, <2>1, <3>1, <3>2, Steps
  <2> QED
    BY <1>2, <2>2, <2>3 DEF GetOrFetch
<1>3. ASSUME NEW c \in Callers, Get(c) \/ Set(c) \/ Promote(c) PROVE FALSE
  BY <1>0, <1>3 DEF Get, Set, Promote, Begin
<1>4. ASSUME NEW c \in Callers, pc[c] \notin {"idle", "done"}, NEW to \in Pc \ {"idle", "done"},
             pc' = [pc EXCEPT ![c] = to], UNCHANGED <<now, val>>, Known' \subseteq Known
      PROVE  FA!Next
  <2>1. \A x \in Callers : Same(x)
    BY <1>0, <1>4 DEF Same
  <2> QED
    BY <1>4, <2>1, NoneShows, Steps
<1>5. ASSUME NEW c \in Callers, JoinFlight(c) PROVE FA!Next
  BY <1>1, <1>4, <1>5, Places DEF JoinFlight, Goto
<1>6. ASSUME NEW c \in Callers, Lead(c) PROVE FA!Next
  <2>1. pc[c] = "join" /\ UNCHANGED <<now, l1, l2>>
    BY <1>6 DEF Lead
  <2>2. CASE l1[Home[c]] # Empty /\ Reply(c, AnswerOf(l1[Home[c]]), TRUE)
    <3>1. /\ pc' = [pc EXCEPT ![c] = "done"]
          /\ val' = [val EXCEPT ![c] = AnswerOf(l1[Home[c]])]
      BY <2>2 DEF Reply, Goto, Hold
    <3>2. Known' \subseteq Known
      BY <1>0, <1>1, <2>1, <3>1, Places
    <3>3. Become(c, "answered", AnswerOf(l1[Home[c]]))
      BY <1>0, <3>1, OnlyOneShows DEF Shows, Same
    <3> QED
      BY <1>0, <2>1, <2>2, <3>2, <3>3, HitIsUsable, Steps
  <2>3. CASE Goto(c, "backend") /\ UNCHANGED <<val, cached>>
    BY <1>1, <1>4, <2>1, <2>3, Places DEF Goto
  <2> QED
    BY <1>6, <2>2, <2>3 DEF Lead
<1>7. ASSUME NEW c \in Callers, BackendHit(c) PROVE FA!Next
  <2>1. /\ pc[c] = "backend" /\ UNCHANGED <<now, l1, l2>>
        /\ pc' = [pc EXCEPT ![c] = "insert"] /\ val' = [val EXCEPT ![c] = AnswerOf(l2)]
    BY <1>7 DEF BackendHit, Goto, Hold
  <2>2. Known' \subseteq Known
    BY <1>0, <1>1, <2>1, Places
  <2>3. \A x \in Callers : Same(x)
    BY <1>0, <2>1 DEF Same
  <2> QED
    BY <2>1, <2>2, <2>3, NoneShows, Steps
<1>8. ASSUME NEW c \in Callers, BackendMiss(c) PROVE FA!Next
  <2>1. /\ pc[c] = "backend" /\ op[c] = "get_or_fetch" /\ UNCHANGED <<now, l1, l2, val>>
        /\ Goto(c, "fetch")
    BY <1>0, <1>8 DEF BackendMiss
  <2> QED
    BY <1>1, <1>4, <2>1, Places DEF Goto
<1>9. ASSUME NEW c \in Callers, FetchOk(c) PROVE FA!Next
  <2>1. PICK s \in Status : Hold(c, [status |-> s, born |-> now], FALSE)
    BY <1>9 DEF FetchOk
  <2>2. /\ pc[c] = "fetch" /\ UNCHANGED <<now, l1, l2>>
        /\ pc' = [pc EXCEPT ![c] = "store"]
        /\ val' = [val EXCEPT ![c] = [status |-> s, born |-> now]]
    BY <1>9, <2>1 DEF FetchOk, Goto, Hold
  <2>3. \A x \in Callers : val'[x] \in Kept \cup {[status |-> s, born |-> now]}
    BY <1>0, <2>2, Places
  <2>4. (\A i \in Instances : AnswerOf(l1'[i]) \in Kept) /\ AnswerOf(l2') \in Kept
    BY <2>2, Places
  <2>5. Known' \subseteq Known \cup {[status |-> s, born |-> now]}
    BY <2>3, <2>4, NothingInvented
  <2>6. \A x \in Callers : Same(x)
    BY <1>0, <2>2 DEF Same
  <2>7. UNCHANGED <<Phase, Result>>
    BY <2>6, NoneShows
  <2>8. FA!Learn(c)
    BY <1>0, <2>2, <2>5, <2>7 DEF FA!Learn, Known, Phase, Result
  <2> QED
    BY <2>8 DEF FA!Next
<1>10. ASSUME NEW c \in Callers, FetchErr(c) PROVE FA!Next
  <2>1. /\ pc[c] = "fetch" /\ UNCHANGED <<now, l1, l2>> /\ Land(c, Failure, FALSE)
    BY <1>10 DEF FetchErr
  <2>2. \A x \in Callers :
           /\ pc'[x] = IF x = c THEN "done"
                       ELSE IF Home[x] = Home[c] /\ pc[x] = "wait" THEN "wake" ELSE pc[x]
           /\ val'[x] = IF x = c \/ (Home[x] = Home[c] /\ pc[x] = "wait") THEN Failure
                        ELSE val[x]
    BY <2>1 DEF Land, Waiters
  <2>3. Known' \subseteq Known
    BY <1>1, <2>1, <2>2, Places
  <2>4. Become(c, "answered", Failure)
    BY <2>2, OnlyOneShows DEF Shows, Same
  <2> QED
    BY <1>0, <2>1, <2>3, <2>4, Steps
<1>11. ASSUME NEW c \in Callers, BackendSet(c) PROVE FA!Next
  <2>1. /\ pc[c] = "store" /\ op[c] = "get_or_fetch" /\ UNCHANGED <<now, l1, val>>
        /\ Goto(c, "insert") /\ l2' \in StoreOutcomes(val[c])
    BY <1>0, <1>11 DEF BackendSet
  <2>2. val[c] \in [status : Status, born : Nat]
    BY <2>1, AnswerType DEF TypeInv, TypeOK, OnlyAnswersStored
  <2>3. l2' = l2 \/ l2' = Empty \/ AnswerOf(l2') = val[c]
    BY <2>1, <2>2, EntryHolds DEF StoreOutcomes
  <2>4. AnswerOf(l2').status \notin Status \/ AnswerOf(l2') \in Kept
    BY <2>3, Places
  <2>5. /\ \A i \in Instances : AnswerOf(l1'[i]) \in Kept
        /\ \A x \in Callers : val'[x] \in Kept
    BY <2>1, Places
  <2>6. Known' \subseteq Known \cup {}
    BY <2>4, <2>5, NothingInvented
  <2> QED
    BY <1>4, <2>1, <2>6 DEF Goto
<1>12. ASSUME NEW c \in Callers, FinishFlight(c) PROVE FA!Next
  <2>1. /\ pc[c] = "insert" /\ UNCHANGED <<now, l2>> /\ Land(c, val[c], cached[c])
        /\ l1' = [l1 EXCEPT ![Home[c]] = Inserted(@, val[c])]
    BY <1>12 DEF FinishFlight
  <2>2. val[c] \in [status : Status, born : Nat] /\ val[c].status \in Status
    BY <2>1, AnswerType DEF TypeInv, TypeOK, OnlyAnswersStored
  <2>3. \A x \in Callers :
           /\ pc'[x] = IF x = c THEN "done"
                       ELSE IF Home[x] = Home[c] /\ pc[x] = "wait" THEN "wake" ELSE pc[x]
           /\ val'[x] = IF x = c \/ (Home[x] = Home[c] /\ pc[x] = "wait") THEN val[c]
                        ELSE val[x]
    BY <2>1 DEF Land, Waiters
  <2>4. \A i \in Instances : l1'[i] = l1[i] \/ l1'[i] = Empty \/ AnswerOf(l1'[i]) = val[c]
    BY <2>1, <2>2, EntryHolds DEF Inserted, TypeInv, TypeOK
  <2>5. \A i \in Instances : AnswerOf(l1'[i]).status \notin Status \/ AnswerOf(l1'[i]) \in Kept
    BY <2>4, Places
  <2>6. AnswerOf(l2') \in Kept /\ \A x \in Callers : val'[x] \in Kept
    BY <2>1, <2>3, Places
  <2>7. Known' \subseteq Known \cup {}
    BY <2>5, <2>6, NothingInvented
  <2>8. Become(c, "answered", val[c])
    BY <2>3, OnlyOneShows DEF Shows, Same
  <2>9. now <= val[c].born + ShelfLife(val[c].status)
    BY <2>1, <2>2, <2>3 DEF RepliesAreFresh
  <2>10. val[c] \in Known
    BY <2>2, Places DEF Known
  <2> QED
    BY <1>0, <2>1, <2>7, <2>8, <2>9, <2>10, Steps
<1>13. ASSUME NEW c \in Callers, Wake(c) PROVE FA!Next
  <2>1. /\ pc[c] = "wake" /\ UNCHANGED <<now, l1, l2>>
        /\ pc' = [pc EXCEPT ![c] = "done"] /\ val' = [val EXCEPT ![c] = val[c]]
    BY <1>13 DEF Wake, Reply, Goto, Hold
  <2>2. Known' \subseteq Known
    BY <1>0, <1>1, <2>1, Places
  <2>3. Become(c, "answered", val[c])
    BY <1>0, <2>1, OnlyOneShows DEF Shows, Same
  <2>4. CASE val[c] = Failure
    BY <1>0, <2>1, <2>2, <2>3, <2>4, Steps
  <2>5. CASE val[c].status \in Status
    <3>1. val[c] \in Known
      BY <2>5, Places DEF Known
    <3>2. now <= val[c].born + ShelfLife(val[c].status)
      BY <1>0, <2>1, <2>5 DEF RepliesAreFresh
    <3> QED
      BY <1>0, <2>1, <2>2, <2>3, <3>1, <3>2, Steps
  <2> QED
    BY <2>1, <2>4, <2>5 DEF WakeInv
<1>14. ASSUME NEW c \in Callers, Return(c) \/ Abandon(c) PROVE FA!Next
  <2>1. /\ pc[c] # "idle" /\ UNCHANGED <<now, l1, l2>>
        /\ val' = [val EXCEPT ![c] = Nothing]
    BY <1>14 DEF Return, Abandon, Hold
  <2>2. \A x \in Callers : pc'[x] = IF x = c THEN "idle"
                                    ELSE IF pc[x] = "wait" /\ pc'[x] = "join" THEN "join"
                                    ELSE pc[x]
    BY <1>0, <1>14 DEF Return, Abandon, Goto
  <2>3. Known' \subseteq Known
    BY <1>0, <1>1, <2>1, Places
  <2>4. Become(c, "idle", Nothing)
    BY <1>0, <2>1, <2>2, OnlyOneShows DEF Shows, Same
  <2> QED
    BY <1>0, <2>1, <2>3, <2>4, Steps
<1>15. ASSUME (\E i \in Instances : Evict(i)) \/ EvictBackend PROVE FA!Next
  <2>1. /\ UNCHANGED <<now, pc, val>>
        /\ \A i \in Instances : l1'[i] = l1[i] \/ l1'[i] = Empty
        /\ l2' = l2 \/ l2' = Empty
    BY <1>15 DEF Evict, EvictBackend, TypeInv, TypeOK
  <2>2. Known' \subseteq Known \cup {}
    BY <2>1, Places, NothingInvented
  <2>3. \A x \in Callers : Same(x)
    BY <2>1 DEF Same
  <2> QED
    BY <2>1, <2>2, <2>3, NoneShows, Steps
<1>16. ASSUME Tick PROVE FA!Next
  <2>1. /\ UNCHANGED <<pc, val>> /\ now' = now + 1
        /\ \A i \in Instances : l1'[i] = l1[i] \/ l1'[i] = Empty
        /\ l2' = l2 \/ l2' = Empty
        /\ \A c \in Callers : pc[c] # "done"
    BY <1>16 DEF Tick, Aged, Overdue
  <2>2. Known' \subseteq Known \cup {}
    BY <2>1, Places, NothingInvented
  <2>3. \A x \in Callers : Same(x)
    BY <2>1 DEF Same
  <2>4. \A c \in Callers : Phase[c] # "answered"
    BY <1>0, <2>1
  <2> QED
    BY <2>1, <2>2, <2>3, <2>4, NoneShows, Steps
<1> QED
  BY <1>2, <1>3, <1>5, <1>6, <1>7, <1>8, <1>9, <1>10, <1>11, <1>12, <1>13, <1>14, <1>15,
     <1>16 DEF Next, Proceed

\* The two tiers, promotion, coalescing and abandoned calls never invent an answer, alter
\* one, or serve one too late.
THEOREM PromiseIsKept ==
    ASSUME Ops \subseteq {"get_or_fetch"}
    PROVE  Spec => KeepsPromise
<1>1. Init => FA!Init
  <2>1. Init => Known = {}
    BY HomeAssumption DEF Init, Known, Kept, AnswerOf, Empty, Nothing, Status
  <2> QED
    BY <2>1 DEF Init, FA!Init, Known
<1>2. TypeInv /\ AgeInv /\ AgeInv' /\ WakeInv /\ [Next]_vars => [FA!Next]_FA!vars
  <2> SUFFICES ASSUME TypeInv, AgeInv, AgeInv', WakeInv, [Next]_vars
               PROVE  FA!Next \/ UNCHANGED FA!vars
    OBVIOUS
  <2>1. CASE Next
    BY <2>1, StepKept DEF AgeInv
  <2>2. CASE UNCHANGED vars
    BY <2>2 DEF vars, FA!vars, Kept
  <2> QED
    BY <2>1, <2>2
<1>3. TypeInv /\ WakeInv /\ [Next]_vars => WakeInv'
  BY WakeInvNext
<1> QED
  BY <1>1, <1>2, <1>3, WakeInvInit, TypeCorrect, AgeInvAlways, PTL
  DEF Spec, KeepsPromise, FA!Spec
===============================================================================
