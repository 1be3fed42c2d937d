--------------------------- MODULE Solver_proofs ---------------------------
(***************************************************************************)
(* The solver's guarantees for every schema: every number of resolutions,  *)
(* every set of keys, every way to look a shape up at a path.              *)
(*                                                                         *)
(* SolverInv adds to the properties what the last answer says about the    *)
(* candidates it was given for; nothing changes the candidates without     *)
(* giving a new answer, and nothing happens after finish().                *)
(***************************************************************************)
EXTENDS Solver, TLAPS

\* What an answer stands for until the next call.
ResultMeans ==
    /\ result.kind = "Solved" => candidates = {result.idx}
    /\ result.kind = "Ok" => Viable = {result.idx}
    /\ result.kind = "Ambiguous resolutions" => Viable # {} /\ ~One(Viable)
    /\ result.kind = "No viable resolution" => Viable = {}

SolverInv ==
    /\ schema \in Schemas
    /\ truth \in {0} \cup Indices
    /\ candidates \subseteq Indices
    /\ plain \in BOOLEAN
    /\ truth # 0 => truth \in candidates
    /\ NarrowingIsOrderFree
    /\ ResultMeans

-----------------------------------------------------------------------------
(* Answers *)

\* A set with one element is the singleton of the element that is taken.
LEMMA OnlyIsOne == ASSUME NEW S, One(S) PROVE S = {Only(S)}
  BY DEF One, Only

\* Answer() says "Solved" of one candidate only, and never what finish() says.
LEMMA AnswerKinds ==
    ASSUME NEW left, NEW path, NEW shapes
    PROVE  /\ Answer(left, path, shapes).kind = "Solved" => left = {Answer(left, path, shapes).idx}
           /\ Answer(left, path, shapes).kind \notin
                {"Ok", "Ambiguous resolutions", "No viable resolution"}
<1>1. CASE One(left)
  <2>1. Answer(left, path, shapes) = Solved(Only(left))
    BY <1>1 DEF Answer
  <2>2. /\ Answer(left, path, shapes).kind = "Solved"
        /\ Answer(left, path, shapes).idx = Only(left)
    BY <2>1 DEF Solved, NoResult
  <2> QED  BY <1>1, <2>2, OnlyIsOne
<1>2. CASE ~One(left)
  <2>1. Answer(left, path, shapes).kind \in {"Unknown", "Unambiguous", "Ambiguous"}
    BY <1>2 DEF Answer, Simple, NoResult
  <2> QED  BY <2>1
<1> QED  BY <1>1, <1>2

\* The same of what satisfy() answers.
LEMMA RemainingKinds ==
    ASSUME NEW left
    PROVE  /\ Remaining(left).kind = "Solved" => left = {Remaining(left).idx}
           /\ Remaining(left).kind \notin {"Ok", "Ambiguous resolutions", "No viable resolution"}
<1>1. CASE left # {} /\ One(left)
  <2>1. Remaining(left) = Solved(Only(left))
    BY <1>1 DEF Remaining
  <2>2. Remaining(left).kind = "Solved" /\ Remaining(left).idx = Only(left)
    BY <2>1 DEF Solved, NoResult
  <2> QED  BY <1>1, <2>2, OnlyIsOne
<1>2. CASE ~(left # {} /\ One(left))
  <2>1. Remaining(left).kind \in {"NoMatch", "Continue"}
    BY <1>2 DEF Remaining, Simple, NoResult
  <2> QED  BY <2>1
<1> QED  BY <1>1, <1>2

\* Other answers say nothing about the candidates.
LEMMA SimpleKinds ==
    ASSUME NEW kind, NEW r, r = Simple(kind) PROVE r.kind = kind
  BY DEF Simple, NoResult

-----------------------------------------------------------------------------
(* Keys *)

\* The first field of a category without names is its only one.
LEMMA OnlyNameless ==
    ASSUME Usage = {}, schema \in Schemas, truth \in Indices,
           NEW f \in DOMAIN Res(truth).fields, f[1] \in Nameless
    PROVE  FirstIn(f[1]) = f
<1> DEFINE Fields == UNION {DOMAIN Res(i).fields : i \in Indices}
<1>1. FirstIn(f[1]) \in Fields /\ FirstIn(f[1])[1] = f[1]
  <2>1. f \in Fields
    OBVIOUS
  <2> HIDE DEF Fields
  <2>2. FirstIn(f[1]) = CHOOSE g \in Fields : g[1] = f[1]
    BY Zenon DEF FirstIn, Fields
  <2> QED  BY <2>1, <2>2
<1>2. PICK j \in Indices : FirstIn(f[1]) \in DOMAIN Res(j).fields
  BY <1>1
<1> QED  BY <1>1, <1>2, TextsAssumption DEF Res, Indices

\* A key that stands for a field is looked up as that field.
LEMMA ReportedIsFound ==
    ASSUME Usage = {}, NEW k, NEW f, schema \in Schemas, truth \in Indices,
           f \in DOMAIN Res(truth).fields, Reports(k, f)
    PROVE  LooksUp(k, f)
<1>1. /\ Format \in {"Flat", "Dom"}
      /\ f \in STRING \X STRING
      /\ Format = "Dom" => f[1] # "Flat"
  BY SchemasAssumption DEF Res, Indices, Format
<1>2. f = <<f[1], f[2]>>
  BY <1>1
<1>0. f[1] \in Nameless => FirstIn(f[1]) = f
  BY OnlyNameless
<1>3. CASE k = f
  BY <1>0, <1>1, <1>2, <1>3 DEF LooksUp
<1>4. CASE k[2] = f[2] /\ (Format = "Dom" => k[1] = "Flat" /\ f[1] = "Element")
  BY <1>1, <1>2, <1>4 DEF LooksUp
<1>5. CASE k[1] = f[1] /\ k[1] \in Nameless /\ k[2] = "" /\ Format = "Dom"
  BY <1>0, <1>1, <1>5 DEF LooksUp, Nameless
<1> QED  BY <1>3, <1>4, <1>5 DEF Reports

\* A key of the input does not narrow the input's own resolution away.
LEMMA InputIsFound ==
    ASSUME Usage = {}, NEW k, schema \in Schemas, truth \in Indices, truth # 0, InInput(k),
           IndexOf(k) # {}
    PROVE  truth \in IndexOf(k)
<1>1. PICK f \in DOMAIN Res(truth).fields : Reports(k, f)
  BY DEF InInput
<1>2. LooksUp(k, f)
  BY <1>1, ReportedIsFound
<1> QED  BY <1>1, <1>2 DEF IndexOf

\* One more key keeps, of the resolutions that fit, those that know it.
LEMMA FittingWithKey ==
    ASSUME NEW k, seen' = seen \cup {k}, UNCHANGED schema
    PROVE  Fitting' = IF IndexOf(k) = {} THEN Fitting ELSE Fitting \cap IndexOf(k)
<1>1. Indices' = Indices /\ \A x : IndexOf(x)' = IndexOf(x)
  BY DEF Indices, IndexOf, LooksUp, FirstIn, Res, Format
<1>2. IndexOf(k) \subseteq Indices
  BY DEF IndexOf
<1> QED  BY <1>1, <1>2 DEF Fitting

-----------------------------------------------------------------------------
(* The invariant *)

LEMMA SolverInit == Init => SolverInv
<1> SUFFICES ASSUME Init PROVE SolverInv
  OBVIOUS
<1>1. Indices # {} /\ 0 \notin Indices
  BY SchemasAssumption DEF Init, Indices
<1>2. Fitting = Indices
  BY DEF Fitting, Init
<1>3. result.kind = "None"
  BY DEF Init, NoResult
<1> QED  BY <1>1, <1>2, <1>3 DEF Init, SolverInv, NarrowingIsOrderFree, ResultMeans

\* A call that only narrows: the answer is to the candidates it leaves, and
\* the input's resolution is among them.
LEMMA Narrows ==
    ASSUME SolverInv, UNCHANGED <<schema, truth>>, candidates' \subseteq candidates,
           truth # 0 => truth \in candidates',
           result'.kind = "Solved" => candidates' = {result'.idx},
           result'.kind \notin {"Ok", "Ambiguous resolutions", "No viable resolution"},
           plain' \in BOOLEAN, NarrowingIsOrderFree'
    PROVE  SolverInv'
<1>1. Indices' = Indices
  BY DEF Indices
<1>2. ResultMeans'
  BY DEF ResultMeans
<1> QED  BY <1>1, <1>2 DEF SolverInv

LEMMA SeeKeyInv ==
    ASSUME Usage = {}, SolverInv, NEW k, SeeKey(k)
    PROVE  SolverInv' /\ candidates' \subseteq candidates
<1> DEFINE left == candidates \cap IndexOf(k)
<1>1. /\ schema \in Schemas /\ truth \in {0} \cup Indices /\ candidates \subseteq Indices
      /\ truth # 0 => truth \in candidates
      /\ InInput(k) /\ seen' = seen \cup {k} /\ UNCHANGED <<schema, truth, plain>>
      /\ plain \in BOOLEAN
  BY DEF SolverInv, SeeKey
<1>2. \/ left = {} /\ candidates' = candidates /\ result' = Simple("Unknown")
      \/ left # {} /\ candidates' = left /\ result' = Answer(left, <<k[2]>>, ShapesOfKey(k, left))
  BY DEF SeeKey
<1>3. candidates' \subseteq candidates
  BY <1>2
<1>4. truth # 0 => truth \in candidates'
  <2>1. CASE IndexOf(k) = {}
    BY <1>1, <1>2, <2>1
  <2>2. CASE IndexOf(k) # {} /\ truth # 0
    <3>1. truth \in IndexOf(k)
      BY <1>1, <2>2, InputIsFound
    <3> QED  BY <1>1, <1>2, <3>1
  <2> QED  BY <2>1, <2>2
<1>5. /\ result'.kind = "Solved" => candidates' = {result'.idx}
      /\ result'.kind \notin {"Ok", "Ambiguous resolutions", "No viable resolution"}
  <2>1. CASE result' = Simple("Unknown")
    <3>1. result'.kind = "Unknown"
      BY <2>1, SimpleKinds
    <3> QED  BY <3>1
  <2>2. CASE candidates' = left /\ result' = Answer(left, <<k[2]>>, ShapesOfKey(k, left))
    <3> HIDE DEF left
    <3> QED  BY <2>2, AnswerKinds
  <2> QED  BY <1>2, <2>1, <2>2
<1>6. NarrowingIsOrderFree'
  <2>1. Fitting' = IF IndexOf(k) = {} THEN Fitting ELSE Fitting \cap IndexOf(k)
    BY <1>1, FittingWithKey
  <2>2. plain => candidates # {} /\ (Fitting # {} => candidates = Fitting)
    BY DEF SolverInv, NarrowingIsOrderFree
  <2>3. plain' => candidates' # {} /\ (Fitting' # {} => candidates' = Fitting')
    BY <1>1, <1>2, <2>1, <2>2
  <2> QED  BY <2>3 DEF NarrowingIsOrderFree
<1> HIDE DEF left
<1> QED  BY <1>1, <1>3, <1>4, <1>5, <1>6, Narrows

\* Any other call makes the run no longer plain.
LEMMA NotPlain == ~plain' => NarrowingIsOrderFree'
  BY DEF NarrowingIsOrderFree

LEMMA SatisfyShapesInv ==
    ASSUME Usage = {}, SolverInv, NEW S, SatisfyShapes(S)
    PROVE  SolverInv' /\ candidates' \subseteq candidates
<1>1. /\ candidates' = {i \in candidates :
                          \E f \in DOMAIN Res(i).fields : Res(i).fields[f].shape \in S}
      /\ FieldAccepts(result.path[1], S)
      /\ result' = Remaining(candidates') /\ plain' = FALSE
      /\ UNCHANGED <<schema, truth>>
      /\ truth # 0 => truth \in candidates
  BY DEF SatisfyShapes, SolverInv
<1>2. candidates' \subseteq candidates
  BY <1>1
<1>3. truth # 0 => truth \in candidates'
  BY <1>1 DEF FieldAccepts
<1> QED  BY <1>1, <1>2, <1>3, RemainingKinds, NotPlain, Narrows

LEMMA SatisfyAtPathInv ==
    ASSUME SolverInv, NEW S, SatisfyAtPath(S)
    PROVE  SolverInv' /\ candidates' \subseteq candidates
<1>1. /\ candidates' = {i \in candidates : ShapeIn(Res(i), result.path) \in S}
      /\ AcceptsAt(result.path, S)
      /\ result' = Remaining(candidates') /\ plain' = FALSE
      /\ UNCHANGED <<schema, truth>>
      /\ truth # 0 => truth \in candidates
  BY DEF SatisfyAtPath, SolverInv
<1>2. candidates' \subseteq candidates
  BY <1>1
<1>3. truth # 0 => truth \in candidates'
  BY <1>1 DEF AcceptsAt
<1> QED  BY <1>1, <1>2, <1>3, RemainingKinds, NotPlain, Narrows

LEMMA ProbeKeyInv ==
    ASSUME SolverInv, NEW path, ProbeKey(path)
    PROVE  SolverInv' /\ candidates' \subseteq candidates
<1>1. /\ candidates' = {i \in candidates : path \in Res(i).paths}
      /\ PathInInput(path)
      /\ \/ result' = Simple("Unknown")
         \/ result' = Answer(candidates', path, ShapesAt(path, candidates'))
      /\ plain' = FALSE
      /\ UNCHANGED <<schema, truth>>
      /\ truth # 0 => truth \in candidates
  BY DEF ProbeKey, SolverInv
<1>2. candidates' \subseteq candidates
  BY <1>1
<1>3. truth # 0 => truth \in candidates'
  BY <1>1 DEF PathInInput
<1>4. /\ result'.kind = "Solved" => candidates' = {result'.idx}
      /\ result'.kind \notin {"Ok", "Ambiguous resolutions", "No viable resolution"}
  <2>1. CASE result' = Simple("Unknown")
    <3>1. result'.kind = "Unknown"
      BY <2>1, SimpleKinds
    <3> QED  BY <3>1
  <2>2. CASE result' = Answer(candidates', path, ShapesAt(path, candidates'))
    BY <2>2, AnswerKinds
  <2> QED  BY <1>1, <2>1, <2>2
<1> QED  BY <1>1, <1>2, <1>3, <1>4, NotPlain, Narrows

LEMMA HintVariantInv ==
    ASSUME SolverInv, NEW name, HintVariant(name)
    PROVE  SolverInv' /\ candidates' \subseteq candidates
<1>1. /\ VariantInInput(name)
      /\ \/ candidates' = candidates /\ result' = Simple("No hint")
         \/ candidates' = Selecting(name) /\ result' = Simple("Hinted")
      /\ plain' = FALSE
      /\ UNCHANGED <<schema, truth>>
      /\ truth # 0 => truth \in candidates
  BY DEF HintVariant, SolverInv
<1>2. candidates' \subseteq candidates
  BY <1>1 DEF Selecting
<1>3. truth # 0 => truth \in candidates'
  BY <1>1 DEF VariantInInput, Selecting
<1>4. result'.kind \in {"No hint", "Hinted"}
  BY <1>1, SimpleKinds
<1> QED  BY <1>1, <1>2, <1>3, <1>4, NotPlain, Narrows

LEMMA HintVariantForTagInv ==
    ASSUME SolverInv, NEW tag, NEW name, HintVariantForTag(tag, name)
    PROVE  SolverInv' /\ candidates' \subseteq candidates
<1>1. CASE HintVariant(name)
  BY <1>1, HintVariantInv
<1>2. CASE /\ result' = Simple("No hint") /\ plain' = FALSE
           /\ UNCHANGED <<schema, truth, candidates, seen>>
  <2>1. result'.kind = "No hint"
    BY <1>2, SimpleKinds
  <2>2. truth # 0 => truth \in candidates'
    BY <1>2 DEF SolverInv
  <2> QED  BY <1>2, <2>1, <2>2, NotPlain, Narrows
<1> QED  BY <1>1, <1>2 DEF HintVariantForTag

LEMMA MarkSeenInv ==
    ASSUME SolverInv, NEW k, MarkSeen(k)
    PROVE  SolverInv' /\ candidates' \subseteq candidates
<1>1. /\ UNCHANGED <<schema, truth, candidates>> /\ plain' = FALSE
      /\ result'.kind = "None"
      /\ truth # 0 => truth \in candidates'
  BY DEF MarkSeen, SolverInv, NoResult
<1> QED  BY <1>1, NotPlain, Narrows

LEMMA FinishInv ==
    ASSUME SolverInv, Finish
    PROVE  SolverInv' /\ candidates' = candidates
<1>1. UNCHANGED <<schema, truth, candidates, seen, plain>>
  BY DEF Finish
<1>2. Indices' = Indices /\ Viable' = Viable
  BY <1>1 DEF Indices, Viable, Required, SeenNames, Res
<1>3. NarrowingIsOrderFree'
  <2>1. Fitting' = Fitting
    BY <1>1 DEF Fitting, Indices, IndexOf, LooksUp, FirstIn, Res, Format
  <2> QED  BY <1>1, <2>1 DEF SolverInv, NarrowingIsOrderFree
<1>4. ResultMeans'
  <2>1. CASE Viable = {}
    <3>1. result'.kind = "No viable resolution"
      BY <2>1, SimpleKinds DEF Finish
    <3> QED  BY <1>2, <2>1, <3>1 DEF ResultMeans
  <2>2. CASE Viable # {} /\ One(Viable)
    <3>1. result'.kind = "Ok" /\ result'.idx = Only(Viable)
      BY <2>2 DEF Finish, NoResult
    <3>2. Viable = {Only(Viable)}
      BY <2>2, OnlyIsOne
    <3> QED  BY <1>2, <3>1, <3>2 DEF ResultMeans
  <2>3. CASE Viable # {} /\ ~One(Viable)
    <3>1. result'.kind = "Ambiguous resolutions"
      BY <2>3, SimpleKinds DEF Finish
    <3>2. One(Viable)' = One(Viable)
      BY <1>2 DEF One
    <3> QED  BY <1>2, <2>3, <3>1, <3>2 DEF ResultMeans
  <2> QED  BY <2>1, <2>2, <2>3
<1> QED  BY <1>1, <1>2, <1>3, <1>4 DEF SolverInv

LEMMA SolverStutter ==
    ASSUME SolverInv, UNCHANGED vars PROVE SolverInv' /\ candidates' = candidates
<1>1. Indices' = Indices /\ Viable' = Viable /\ Fitting' = Fitting /\ One(Viable)' = One(Viable)
  BY DEF vars, Indices, Viable, Required, SeenNames, Res, Fitting, IndexOf, LooksUp, FirstIn, Format, One
<1> QED  BY <1>1 DEF SolverInv, NarrowingIsOrderFree, ResultMeans, vars

LEMMA SolverStep ==
    ASSUME Usage = {}, SolverInv, [Next]_vars
    PROVE  SolverInv' /\ candidates' \subseteq candidates
<1>1. CASE UNCHANGED vars
  BY <1>1, SolverStutter
<1>2. ASSUME NEW k \in schema.keys, SeeKey(k) \/ MarkSeen(k)
      PROVE  SolverInv' /\ candidates' \subseteq candidates
  BY <1>2, SeeKeyInv, MarkSeenInv
<1>3. ASSUME NEW S \in SUBSET result.shapes, SatisfyShapes(S) \/ SatisfyAtPath(S)
      PROVE  SolverInv' /\ candidates' \subseteq candidates
  BY <1>3, SatisfyShapesInv, SatisfyAtPathInv
<1>4. ASSUME NEW path \in InputPaths, ProbeKey(path)
      PROVE  SolverInv' /\ candidates' \subseteq candidates
  BY <1>4, ProbeKeyInv
<1>5. ASSUME NEW name \in VariantNames,
             HintVariant(name) \/ \E k \in schema.keys : HintVariantForTag(k[2], name)
      PROVE  SolverInv' /\ candidates' \subseteq candidates
  BY <1>5, HintVariantInv, HintVariantForTagInv
<1>6. CASE Finish
  BY <1>6, FinishInv
<1> QED  BY <1>1, <1>2, <1>3, <1>4, <1>5, <1>6 DEF Next

LEMMA SolverInvariant == ASSUME Usage = {} PROVE Spec => []SolverInv
<1>1. SolverInv /\ [Next]_vars => SolverInv'
  BY SolverStep
<1> QED  BY <1>1, SolverInit, PTL DEF Spec

-----------------------------------------------------------------------------
(* The guarantees *)

\* The answers of every call name candidates (see_key_internal, finish).
THEOREM SolverTypes == ASSUME Usage = {} PROVE Spec => []TypeOK
<1>1. SolverInv => TypeOK
  <2> SUFFICES ASSUME SolverInv PROVE TypeOK
    OBVIOUS
  <2>1. Viable \subseteq candidates
    BY DEF Viable
  <2> QED  BY <2>1 DEF SolverInv, TypeOK, ResultMeans
<1> QED  BY <1>1, SolverInvariant, PTL

\* What keys alone leave does not depend on their order (see_key_internal).
THEOREM OrderFree == ASSUME Usage = {} PROVE Spec => []NarrowingIsOrderFree
<1>1. SolverInv => NarrowingIsOrderFree
  BY DEF SolverInv
<1> QED  BY <1>1, SolverInvariant, PTL

\* Whatever mix of truthful calls is made, the resolution an input was written
\* for is never ruled out, and none of them answers another one.
THEOREM TruthIsKept == ASSUME Usage = {} PROVE Spec => []TruthSurvives
<1>1. SolverInv => TruthSurvives
  BY DEF SolverInv, TruthSurvives, ResultMeans
<1> QED  BY <1>1, SolverInvariant, PTL

\* finish() after see_key for every key of a flat input agrees with
\* Resolution::matches of the input as a whole.
THEOREM IncrementalAgrees == ASSUME Usage = {} PROVE Spec => []OneShotAgrees
<1>1. SolverInv => OneShotAgrees
  <2> SUFFICES ASSUME SolverInv, plain, Format = "Flat", Matching # {}
               PROVE  /\ result.kind = "Ok" => Matching = {result.idx}
                      /\ result.kind = "Ambiguous resolutions" => ~One(Matching)
                      /\ result.kind # "No viable resolution"
    BY DEF OneShotAgrees
  <2>1. \A k, i : i \in Indices => (k[2] \in NamesOf(Res(i)) <=> i \in IndexOf(k))
    BY DEF NamesOf, IndexOf, LooksUp
  <2>2. Matching = {i \in Fitting : Required(Res(i)) \subseteq SeenNames}
    BY <2>1 DEF Matching, Matches, Fitting
  <2>3. candidates = Fitting
    BY <2>2 DEF SolverInv, NarrowingIsOrderFree
  <2>4. Matching = Viable
    BY <2>2, <2>3 DEF Viable
  <2> QED  BY <2>4 DEF SolverInv, ResultMeans
<1> QED  BY <1>1, SolverInvariant, PTL

\* No call brings a resolution back.
THEOREM CandidatesShrink == ASSUME Usage = {} PROVE Spec => NeverReopened
<1>1. SolverInv /\ [Next]_vars => [candidates' \subseteq candidates]_vars
  BY SolverStep
<1> QED  BY <1>1, SolverInvariant, PTL DEF Spec, NeverReopened
=============================================================================
