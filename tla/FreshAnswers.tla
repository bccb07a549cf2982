----------------------------- MODULE FreshAnswers -----------------------------
(***************************************************************************)
(* What the response cache promises to those who call it, for one key and  *)
(* without a word about tiers, coalescing or expiry: an answer is handed   *)
(* out unaltered, it was really given by the registry to some call, and it *)
(* is not older than its status allows.  The cache may forget answers at   *)
(* any time, and a call may come back empty, fail, or be dropped.          *)
(***************************************************************************)
EXTENDS Integers

CONSTANTS
    Callers,
    Status,         \* the outcomes of a lookup that found somebody to answer
    Shelf,          \* per status, the age up to which an answer may be used
    Nothing,        \* no result, or a lookup of the cache that missed
    Failure         \* the registry could not be asked

VARIABLES
    clock,
    known,          \* the answers the service still holds, in whatever place
    phase,          \* of each caller: "idle", "asking" or "answered"
    result          \* what an answered caller was given

vars == <<clock, known, phase, result>>

Init ==
    /\ clock = 0
    /\ known = {}
    /\ phase = [c \in Callers |-> "idle"]
    /\ result = [c \in Callers |-> Nothing]

Usable(a) == clock <= a.born + Shelf[a.status]
Forget == known' \subseteq known
Become(c, p, r) ==
    /\ phase' = [phase EXCEPT ![c] = p]
    /\ result' = [result EXCEPT ![c] = r]

Ask(c) ==
    /\ phase[c] = "idle"
    /\ Become(c, "asking", Nothing)
    /\ Forget
    /\ UNCHANGED clock

\* The registry answers one of the calls.
Learn(c) ==
    /\ phase[c] = "asking"
    /\ \E s \in Status : known' \subseteq known \cup {[status |-> s, born |-> clock]}
    /\ UNCHANGED <<clock, phase, result>>

\* A caller may be answered at once, in the step in which it asks.
Reply(c) ==
    /\ phase[c] # "answered"
    /\ \E a \in known : Usable(a) /\ Become(c, "answered", a)
    /\ Forget
    /\ UNCHANGED clock

Refuse(c) ==
    /\ phase[c] = "asking"
    /\ \E r \in {Nothing, Failure} : Become(c, "answered", r)
    /\ Forget
    /\ UNCHANGED clock

\* The caller takes its result, or has given up.
Leave(c) ==
    /\ phase[c] # "idle"
    /\ Become(c, "idle", Nothing)
    /\ Forget
    /\ UNCHANGED clock

Lose == Forget /\ UNCHANGED <<clock, phase, result>>

\* A result is taken in the instant it is given.
Tick ==
    /\ \A c \in Callers : phase[c] # "answered"
    /\ clock' = clock + 1
    /\ Forget
    /\ UNCHANGED <<phase, result>>

Next ==
    \/ \E c \in Callers : Ask(c) \/ Learn(c) \/ Reply(c) \/ Refuse(c) \/ Leave(c)
    \/ Lose
    \/ Tick

Spec == Init /\ [][Next]_vars
===============================================================================
