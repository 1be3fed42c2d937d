----------------------------- MODULE Validation -----------------------------
(***************************************************************************)
(* What build() and finish_in_place() do after a value is complete: they   *)
(* call the invariants of every part of it, but for the parts whose types  *)
(* have none below them.  Which types those are is found by a walk over    *)
(* the types that keeps its answers: in a cache for this build, where a    *)
(* type that is being looked at is `busy`, and in a memo of the thread     *)
(* (INVARIANT_SUBTREE_CACHE), for good.                                    *)
(*                                                                         *)
(* A value is the tree of its parts: [shape, sound, parts], where `sound`  *)
(* is what the invariants of the shape would say.  No part is met twice in *)
(* a tree, so `visited` is left out.                                       *)
(***************************************************************************)
EXTENDS Plans

VARIABLES
    memo,     \* INVARIANT_SUBTREE_CACHE, an answer for each type it has
    verdict   \* what was just built, and whether it was refused (or nothing)

validationVars == <<memo, verdict>>
allVars == <<vars, validationVars>>

NoVerdict == {}

\* The types that shape_subtree_has_invariants goes on to: not a wrapper's.
\* Slip: only to the first part of a container, a map's values are left out.
BelowFirst(shape) ==
    IF Shape[shape].kind = "wrapper" THEN << >>
    ELSE LET parts == PartsOf(shape)
             last == IF Shape[shape].kind = "map" THEN 1 ELSE Len(parts) IN
         [i \in 1..last |-> parts[i].shape]
Below(shape) ==
    IF Shape[shape].kind = "wrapper" THEN << >>
    ELSE [i \in DOMAIN PartsOf(shape) |-> PartsOf(shape)[i].shape]

Recorded(f, t, answer) == [u \in DOMAIN f \cup {t} |-> IF u = t THEN answer ELSE f[u]]

\* An answer that was given, the memo's before the cache's; a type that is
\* being looked at has none, and counts as one without invariants.
KnownAnswer(t, st) == IF t \in DOMAIN st.memo THEN st.memo[t] ELSE st.cache[t] = "yes"

\* shape_subtree_has_invariants, with what it leaves in memo and cache.
RECURSIVE Subtree(_, _), AnyBelow(_, _)
Subtree(t, st) ==
    IF t \in DOMAIN st.memo \cup DOMAIN st.cache
    THEN [st EXCEPT !.answer = KnownAnswer(t, st)]
    ELSE
        LET entered == [st EXCEPT !.cache = Recorded(@, t, "busy"), !.answer = TRUE]
            found == IF Shape[t].checked THEN entered ELSE AnyBelow(Below(t), entered) IN
        [found EXCEPT !.memo = Recorded(@, t, found.answer),
                      !.cache = Recorded(@, t, IF found.answer THEN "yes" ELSE "no")]

\* `any` stops at the first yes.
AnyBelow(ts, st) ==
    IF ts = << >> THEN [st EXCEPT !.answer = FALSE]
    ELSE LET first == Subtree(Head(ts), st) IN
         IF first.answer THEN first ELSE AnyBelow(Tail(ts), first)

\* validate_invariants_recursive: the value's own invariants before its parts',
\* and no further than the first that fails.
RECURSIVE Validate(_, _), ValidateAll(_, _)
Validate(v, st) ==
    LET asked == Subtree(v.shape, st) IN
    IF ~asked.answer THEN asked
    ELSE IF Shape[v.shape].checked /\ ~v.sound THEN [asked EXCEPT !.refused = TRUE]
    ELSE ValidateAll(v.parts, asked)

ValidateAll(vs, st) ==
    IF vs = << >> \/ st.refused THEN st
    ELSE ValidateAll(Tail(vs), Validate(Head(vs), st))

Build(v) ==
    /\ Len(frames) = 1 /\ v.shape = Current.shape
    /\ Leave
    /\ LET result == Validate(v, [memo |-> memo, cache |-> << >>, answer |-> FALSE, refused |-> FALSE]) IN
        /\ memo' = result.memo
        /\ verdict' = {[value |-> v, refused |-> result.refused]}

Drop == Leave /\ UNCHANGED validationVars

ValidationInit == Init /\ memo = << >> /\ verdict = NoVerdict

-----------------------------------------------------------------------------
RECURSIVE Sound(_)
Sound(v) == v.sound /\ \A i \in DOMAIN v.parts : Sound(v.parts[i])

(***************************************************************************)
(* "Validate invariants on the full value tree (root + nested values)":    *)
(* build() refuses a value if and only if some part of it, at any depth,   *)
(* breaks its own invariants.  The code keeps to that, whatever the thread *)
(* has built before, for types in which a part with invariants is found    *)
(* before the walk comes back to a type that is busy (MCPlans!MCRoots,     *)
(* run plans).  It breaks it for types that contain themselves before      *)
(* that part: the answers given meanwhile stay (LateRoots, run             *)
(* late_invariants).                                                       *)
(***************************************************************************)
RefusesExactlyTheUnsound ==
    \A built \in verdict : built.refused <=> ~Sound(built.value)

=============================================================================
