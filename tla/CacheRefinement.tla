---------------------------- MODULE CacheRefinement ---------------------------
(* CacheService, used through get_or_fetch as WhoisClient uses it, keeps the   *)
(* promise of FreshAnswers.                                                    *)
EXTENDS CacheService

Kept ==
    {AnswerOf(l1[i]) : i \in Instances} \cup {AnswerOf(l2)} \cup {val[c] : c \in Callers}

FA == INSTANCE FreshAnswers WITH
    Shelf <- [s \in Status |-> ShelfLife(s)],
    clock <- now,
    known <- {a \in Kept : a.status \in Status},
    phase <- [c \in Callers |-> IF pc[c] = "idle" THEN "idle"
                                ELSE IF pc[c] = "done" THEN "answered" ELSE "asking"],
    result <- [c \in Callers |-> IF pc[c] = "done" THEN val[c] ELSE Nothing]

\* Two tiers, promotion, coalescing and abandoned calls together never invent an
\* answer, alter one, hand one to the wrong flight or serve it too late.
KeepsPromise == FA!Spec
===============================================================================
