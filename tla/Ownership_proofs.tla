-------------------------- MODULE Ownership_proofs --------------------------
(***************************************************************************)
(* OwnershipInv is an invariant of Partial for every tree of places, so    *)
(* long as the caller keeps to DocumentedUse: it holds initially, and each *)
(* call and each iteration of a loop preserves it.  The safety properties  *)
(* of Partial follow.                                                      *)
(*                                                                         *)
(* First lemmas about places, their leaves and their paths; about one      *)
(* frame, what it accounts for when memory changes, when a place inside it *)
(* gets a frame or loses it and when it is filled; about the stack and the *)
(* path it derives.  Then what each kind of step does to a stack, stored   *)
(* frames and a memory that agree: a frame and the memory of its place     *)
(* change, a frame is popped or taken out of the stored ones, a field is   *)
(* entered, a frame is stored or restored.  Then one lemma per action.     *)
(***************************************************************************)
EXTENDS Ownership, FiniteSetTheorems, TLAPS

-----------------------------------------------------------------------------
(* The tree of places *)

\* A field of a place is a place strictly inside it, and never the root.
LEMMA FieldInside ==
    ASSUME NEW n \in Nodes, NEW c \in Fields[n]
    PROVE  /\ c \in Nodes /\ c \in Below[n] /\ c # n /\ n \notin Below[c]
           /\ c # Root
           /\ Below[c] \subseteq Below[n]
           /\ Kind[n] # "leaf"
<1>1. c \in Nodes
  BY NodesAssumption
<1>2. c \in Below[c]
  BY <1>1, TreeAssumption
<1>3. Below[c] \subseteq Below[n]
  BY TreeAssumption
<1>4. n \notin Below[c]
  BY TreeAssumption
<1>5. n \in Below[Root] /\ n \in Below[n]
  BY TreeAssumption
<1>6. Kind[n] # "leaf"
  BY TreeAssumption
<1> QED
  BY <1>1, <1>2, <1>3, <1>4, <1>5, <1>6

\* What lies inside a place lies in or below one of its fields.
LEMMA InsideIsBelowField ==
    ASSUME NEW n \in Nodes, NEW m \in Below[n], m # n
    PROVE  \E c \in Fields[n] : m \in Below[c]
<1>1. Below[n] = {n} \cup UNION {Below[c] : c \in Fields[n]}
  BY TreeAssumption
<1> QED
  BY <1>1

\* The parent of a place strictly inside n is in n.
LEMMA ParentInside ==
    ASSUME NEW m \in Nodes, NEW n \in Nodes, NEW c \in Fields[m],
           c \in Below[n], c # n
    PROVE  m \in Below[n]
<1>1. c \in Nodes /\ c \in Below[m] /\ n \in Below[n]
  BY FieldInside, TreeAssumption
<1>2. m \in Below[n] \/ n \in Below[m]
  BY <1>1, TreeAssumption
<1>3. CASE n \in Below[m] /\ n # m
  <2>1. PICK d \in Fields[m] : n \in Below[d]
    BY <1>3, InsideIsBelowField
  <2>2. d \in Nodes /\ Below[n] \subseteq Below[d]
    BY <2>1, FieldInside, TreeAssumption
  <2>3. c \in Below[d] /\ c \in Below[c]
    BY <2>2, <1>1, TreeAssumption
  <2>4. c = d
    BY <2>3, TreeAssumption
  <2>5. c = n
    BY <2>1, <2>4, <1>1, TreeAssumption
  <2> QED
    BY <2>5
<1> QED
  BY <1>1, <1>2, <1>3

\* Every place but the root is a field of exactly one place.
LEMMA HasParent ==
    ASSUME NEW n \in Nodes, n # Root
    PROVE  \E m \in Nodes : n \in Fields[m] /\ \A k \in Nodes : n \in Fields[k] => k = m
  BY TreeAssumption

\* Everything is inside the root, and the root inside nothing else.
LEMMA RootIsTop ==
    /\ Root \in Nodes
    /\ \A n \in Nodes : n \in Below[Root]
    /\ \A n \in Nodes : Root \in Below[n] => n = Root
<1>1. Root \in Nodes /\ Below[Root] = Nodes
  BY NodesAssumption, TreeAssumption
<1> QED
  BY <1>1, TreeAssumption

-----------------------------------------------------------------------------
(* Leaves *)

\* The leaves of a place are leaves.
LEMMA LeavesInNodes ==
    ASSUME NEW n \in Nodes
    PROVE  LeavesOf(n) \subseteq Leaves
  BY NodesAssumption DEF LeavesOf, Leaves

\* The leaves of the root are all there are.
LEMMA LeavesOfRoot == LeavesOf(Root) = Leaves
  BY TreeAssumption DEF LeavesOf, Leaves

\* The leaves of a composite place are those of its fields.
LEMMA LeavesSplit ==
    ASSUME NEW n \in Nodes, Kind[n] # "leaf"
    PROVE  LeavesOf(n) = UNION {LeavesOf(c) : c \in Fields[n]}
<1>1. ASSUME NEW l \in LeavesOf(n) PROVE \E c \in Fields[n] : l \in LeavesOf(c)
  <2>1. l \in Below[n] /\ Kind[l] = "leaf" /\ l # n
    BY <1>1 DEF LeavesOf
  <2> QED
    BY <2>1, InsideIsBelowField DEF LeavesOf
<1>2. ASSUME NEW c \in Fields[n], NEW l \in LeavesOf(c) PROVE l \in LeavesOf(n)
  BY <1>2, FieldInside DEF LeavesOf
<1> QED
  BY <1>1, <1>2

\* Places apart from each other share no leaf.
LEMMA LeavesDisjoint ==
    ASSUME NEW m \in Nodes, NEW n \in Nodes, m \notin Below[n], n \notin Below[m]
    PROVE  LeavesOf(m) \cap LeavesOf(n) = {}
<1>1. Below[m] \cap Below[n] = {}
  BY TreeAssumption
<1> QED
  BY <1>1 DEF LeavesOf

\* What is inside a place has only leaves of it.
LEMMA LeavesMonotone ==
    ASSUME NEW n \in Nodes, NEW m \in Below[n]
    PROVE  m \in Nodes /\ LeavesOf(m) \subseteq LeavesOf(n)
<1>1. m \in Nodes
  BY NodesAssumption
<1> QED
  BY <1>1, TreeAssumption DEF LeavesOf

-----------------------------------------------------------------------------
(* Paths *)

\* The steps of a path name their places.
LEMMA StepNames ==
    /\ \A m, n : StepTo(m) = StepTo(n) => m = n
    /\ \A n : StepTo(n)[2] = n
  BY DEF StepTo

\* Without arrays every step is a Field.
LEMMA FieldSteps ==
    ASSUME \A n \in Nodes : Kind[n] # "array", NEW n
    PROVE  StepTo(n) = <<"Field", n>>
  BY DEF StepTo

\* A frame's cursor is the step to the child it points at.
LEMMA StepOfCursor ==
    ASSUME NEW f, FrameOK(f), f.cur # NoChild
    PROVE  StepOf(f) = StepTo(f.cur)
<1>1. f.cur \in Fields[f.at] /\ f.at \in Nodes /\ f.tracker \in {"Struct", "Array"}
  BY DEF FrameOK, Frames
<1>2. f.tracker = "Array" <=> Kind[f.at] = "array"
  BY <1>1 DEF FrameOK
<1>3. Kind[f.at] = "array" <=> \E m \in Nodes : f.cur \in Fields[m] /\ Kind[m] = "array"
  BY <1>1, TreeAssumption
<1> QED
  BY <1>2, <1>3 DEF StepOf, StepTo

\* The root's path is empty.
LEMMA PathOfRoot == FullPath(Root) = {}
  BY RootIsTop DEF FullPath

\* A field's path is its parent's and one step.
LEMMA PathOfField ==
    ASSUME NEW n \in Nodes, NEW c \in Fields[n]
    PROVE  FullPath(c) = FullPath(n) \cup {StepTo(c)} /\ StepTo(c) \notin FullPath(n)
<1> DEFINE Above(k) == {j \in Nodes \ {Root} : k \in Below[j]}
<1>1. c \in Nodes /\ c \in Below[n] /\ c # Root /\ c \in Below[c] /\ n \notin Below[c]
  BY FieldInside, TreeAssumption
<1>2. Above(c) = Above(n) \cup {c}
  <2>1. ASSUME NEW k \in Nodes, c \in Below[k], k # c PROVE n \in Below[k]
    BY <2>1, ParentInside
  <2>2. ASSUME NEW k \in Nodes, n \in Below[k] PROVE c \in Below[k]
    BY <2>2, <1>1, TreeAssumption
  <2> QED
    BY <1>1, <2>1, <2>2
<1>3. c \notin Above(n)
  BY <1>1
<1> HIDE DEF Above
<1>4. FullPath(c) = {StepTo(m) : m \in Above(c)} /\ FullPath(n) = {StepTo(m) : m \in Above(n)}
  BY DEF FullPath, Above
<1> QED
  BY <1>2, <1>3, <1>4, StepNames

\* Paths are finite.
LEMMA PathFinite ==
    ASSUME NEW n \in Nodes
    PROVE  IsFiniteSet(FullPath(n))
<1> DEFINE S == {k \in Nodes \ {Root} : n \in Below[k]}
           f == [m \in S |-> StepTo(m)]
<1>1. IsFiniteSet(S)
  BY FS_Subset, NodesAssumption
<1>2. f \in Surjection(S, FullPath(n))
  BY DEF Surjection, FullPath
<1> HIDE DEF S, f
<1> QED
  BY <1>1, <1>2, FS_Surjection

\* A field is one step deeper than the place it belongs to.
LEMMA DepthOfField ==
    ASSUME NEW n \in Nodes, NEW c \in Fields[n]
    PROVE  Depth(c) = Depth(n) + 1
  BY PathFinite, PathOfField, FS_AddElement DEF Depth

\* So depths are numbers.
LEMMA DepthNat ==
    ASSUME NEW n \in Nodes
    PROVE  Depth(n) \in Nat
  BY PathFinite, FS_CardinalityType DEF Depth

\* The root is at depth 0.
LEMMA DepthOfRoot == Depth(Root) = 0
  BY PathOfRoot, FS_EmptySet DEF Depth

\* Two places never share a path.
LEMMA PathInjective ==
    ASSUME NEW m \in Nodes, NEW n \in Nodes, FullPath(m) = FullPath(n)
    PROVE  m = n
<1>1. ASSUME NEW a \in Nodes, NEW b \in Nodes, FullPath(a) = FullPath(b), a # Root
      PROVE  b \in Below[a]
  <2>1. StepTo(a) \in FullPath(b)
    <3>1. a \in Nodes \ {Root} /\ a \in Below[a]
      BY <1>1, TreeAssumption
    <3>2. StepTo(a) \in FullPath(a)
      BY <3>1 DEF FullPath
    <3> QED
      BY <3>2, <1>1
  <2>2. PICK k \in Nodes : b \in Below[k] /\ StepTo(a) = StepTo(k)
    BY <2>1 DEF FullPath
  <2>3. a = k
    BY <2>2, StepNames
  <2> QED
    BY <2>2, <2>3
<1>2. CASE m # Root /\ n # Root
  BY <1>1, <1>2, TreeAssumption
<1>3. CASE m = Root \/ n = Root
  BY <1>1, <1>3, RootIsTop
<1> QED
  BY <1>2, <1>3

\* The last step of a path names its place.
LEMMA LastOfPath ==
    ASSUME NEW n \in Nodes, n # Root
    PROVE  LastStep(FullPath(n)) = StepTo(n)
<1> DEFINE IsLast(s) == \A t \in FullPath(n) : s[2] \in Below[t[2]]
<1>1. StepTo(n) \in FullPath(n) /\ IsLast(StepTo(n))
  BY TreeAssumption, StepNames DEF FullPath
<1>2. ASSUME NEW s \in FullPath(n), IsLast(s) PROVE s = StepTo(n)
  <2>1. PICK k \in Nodes : n \in Below[k] /\ s = StepTo(k)
    BY DEF FullPath
  <2>2. k \in Below[n]
    BY <1>1, <1>2, <2>1, StepNames
  <2> QED
    BY <2>1, <2>2, TreeAssumption
<1>3. LastStep(FullPath(n)) = CHOOSE s \in FullPath(n) : IsLast(s)
  BY DEF LastStep
<1> QED
  BY <1>1, <1>2, <1>3

\* The parent of a field's path is the path of its parent.
LEMMA ParentOfPath ==
    ASSUME NEW n \in Nodes, NEW c \in Fields[n]
    PROVE  ParentPath(FullPath(c)) = FullPath(n)
  BY FieldInside, LastOfPath, PathOfField DEF ParentPath

\* A place lies deeper than whatever contains it.
LEMMA DeeperInside ==
    ASSUME NEW n \in Nodes, NEW d \in Inside(n)
    PROVE  Depth(n) < Depth(d)
<1>1. d \in Nodes /\ d \in Below[n] /\ d # n
  BY NodesAssumption DEF Inside
<1>2. d # Root /\ n \notin Below[d]
  BY <1>1, RootIsTop, TreeAssumption
<1>3. FullPath(n) \subseteq FullPath(d)
  BY <1>1, TreeAssumption DEF FullPath
<1>4. StepTo(d) \in FullPath(d)
  BY <1>1, <1>2, TreeAssumption DEF FullPath
<1>5. StepTo(d) \notin FullPath(n)
  <2>1. SUFFICES ASSUME StepTo(d) \in FullPath(n) PROVE FALSE
    OBVIOUS
  <2>2. PICK k \in Nodes : n \in Below[k] /\ StepTo(d) = StepTo(k)
    BY <2>1 DEF FullPath
  <2> QED
    BY <1>2, <2>2, StepNames
<1> HIDE DEF FullPath
<1>6. IsFiniteSet(FullPath(d)) /\ FullPath(n) # FullPath(d)
  BY <1>1, <1>4, <1>5, PathFinite
<1>7. /\ Cardinality(FullPath(n)) <= Cardinality(FullPath(d))
      /\ Cardinality(FullPath(n)) # Cardinality(FullPath(d))
  BY <1>3, <1>6, FS_Subset
<1> QED
  BY <1>1, <1>7, DepthNat DEF Depth

\* The path of a place other than the root has a step.
LEMMA PathTyped ==
    ASSUME NEW n \in Nodes, n # Root
    PROVE  FullPath(n) \in Paths \ {{}}
<1>1. StepTo(n) \in FullPath(n)
  BY TreeAssumption DEF FullPath
<1>2. FullPath(n) \subseteq Steps
  BY DEF FullPath, StepTo, Steps
<1> QED
  BY <1>1, <1>2 DEF Paths

-----------------------------------------------------------------------------
(* Memory *)

\* Writing changes the leaves written and no other.
LEMMA WroteFacts ==
    ASSUME NEW m \in [Leaves -> Contents], NEW S, NEW v \in Contents
    PROVE  /\ Wrote(m, S, v) \in [Leaves -> Contents]
           /\ \A l \in Leaves : Wrote(m, S, v)[l] = IF l \in S THEN v ELSE m[l]
  BY DEF Wrote

\* A place whose leaves did not change is as full, or as empty, as before.
LEMMA SameLeaves ==
    ASSUME NEW n \in Nodes, NEW m, NEW m2, \A l \in LeavesOf(n) : m2[l] = m[l]
    PROVE  (Full(n, m2) <=> Full(n, m)) /\ (Empty(n, m2) <=> Empty(n, m))
  BY DEF Full, Empty

\* A place is full, or empty, when all its fields are.
LEMMA FullByFields ==
    ASSUME NEW n \in Nodes, Kind[n] # "leaf", NEW m
    PROVE  /\ Full(n, m) <=> \A c \in Fields[n] : Full(c, m)
           /\ Empty(n, m) <=> \A c \in Fields[n] : Empty(c, m)
  BY LeavesSplit DEF Full, Empty

-----------------------------------------------------------------------------
(* Live places *)

\* Where the frame e stands with respect to a live place n that has nothing
\* live inside it.
LEMMA Apart ==
    ASSUME NEW live \in SUBSET Nodes, Closed(live), NEW n \in live,
           live \cap Inside(n) = {}, NEW a \in live, a # n
    PROVE  /\ a \notin Below[n]
           /\ \A d \in Fields[a] \ live : LeavesOf(d) \cap LeavesOf(n) = {}
           /\ n \notin Inside(a) => LeavesOf(a) \cap LeavesOf(n) = {}
<1>1. a \in Nodes /\ n \in Nodes
  OBVIOUS
<1>2. a \notin Below[n]
  BY DEF Inside
<1>3. ASSUME NEW d \in Fields[a], d \notin live PROVE LeavesOf(d) \cap LeavesOf(n) = {}
  <2>1. d \in Nodes
    BY <1>1, <1>3, FieldInside
  <2>2. n \notin Below[d]
    BY <1>3, <2>1 DEF Closed
  <2>3. d \notin Below[n]
    BY <1>1, <1>2, <1>3, ParentInside
  <2> QED
    BY <1>1, <2>1, <2>2, <2>3, LeavesDisjoint
<1>4. n \notin Inside(a) => LeavesOf(a) \cap LeavesOf(n) = {}
  BY <1>1, <1>2, LeavesDisjoint DEF Inside
<1> QED
  BY <1>2, <1>3, <1>4

\* A frame is not concerned by what happens in the memory of another place
\* that has nothing live inside it.
LEMMA Elsewhere ==
    ASSUME NEW live \in SUBSET Nodes, Closed(live),
           NEW n \in live, live \cap Inside(n) = {},
           NEW e \in Frames, FrameOK(e), e.at \in live, e.at # n,
           NEW m \in [Leaves -> Contents], NEW m2 \in [Leaves -> Contents],
           \A l \in Leaves \ LeavesOf(n) : m2[l] = m[l],
           Accounts(e, live, m)
    PROVE  Accounts(e, live, m2)
<1>1. e.at \in Nodes /\ \A d \in Fields[e.at] : d \in Nodes
  BY FieldInside
<1>2. CASE Composite(e)
  <2>1. ASSUME NEW d \in Fields[e.at], d \notin live
        PROVE  (Full(d, m2) <=> Full(d, m)) /\ (Empty(d, m2) <=> Empty(d, m))
    <3>1. LeavesOf(d) \cap LeavesOf(n) = {} /\ LeavesOf(d) \subseteq Leaves
      BY <1>1, <2>1, Apart, LeavesInNodes
    <3> QED
      BY <1>1, <3>1, SameLeaves
  <2> QED
    BY <1>2, <2>1 DEF Accounts
<1>3. CASE ~Composite(e)
  <2>1. n \notin Inside(e.at)
    BY <1>3 DEF Accounts
  <2>2. LeavesOf(e.at) \cap LeavesOf(n) = {} /\ LeavesOf(e.at) \subseteq Leaves
    BY <1>1, <2>1, Apart, LeavesInNodes
  <2>3. (Full(e.at, m2) <=> Full(e.at, m)) /\ (Empty(e.at, m2) <=> Empty(e.at, m))
    BY <1>1, <2>2, SameLeaves
  <2> QED
    BY <1>3, <2>3 DEF Accounts
<1> QED
  BY <1>2, <1>3

\* A field of n gets a frame: frames of other places are not concerned.
LEMMA Enter ==
    ASSUME NEW live \in SUBSET Nodes, NEW n \in live, NEW c \in Fields[n],
           NEW e \in Frames, e.at \in live, e.at # n, NEW m, Accounts(e, live, m)
    PROVE  Accounts(e, live \cup {c}, m)
<1>1. CASE Composite(e)
  BY <1>1 DEF Accounts
<1>2. CASE ~Composite(e)
  <2>1. c \notin Inside(e.at)
    <3>1. SUFFICES ASSUME c \in Below[e.at], c # e.at PROVE FALSE
      BY DEF Inside
    <3>2. n \in Below[e.at]
      BY <3>1, ParentInside
    <3> QED
      BY <1>2, <3>2 DEF Accounts, Inside
  <2> QED
    BY <1>2, <2>1 DEF Accounts
<1> QED
  BY <1>1, <1>2

\* A place loses its frame: frames of places it is not a field of are not
\* concerned.
LEMMA Leave ==
    ASSUME NEW live, NEW n, NEW e \in Frames, n \notin Fields[e.at],
           NEW m, Accounts(e, live, m)
    PROVE  Accounts(e, live \ {n}, m)
<1>1. CASE Composite(e)
  BY <1>1 DEF Accounts
<1>2. CASE ~Composite(e)
  BY <1>2 DEF Accounts
<1> QED
  BY <1>1, <1>2

\* The frame around a live place is composite.
LEMMA AroundLive ==
    ASSUME NEW live, NEW e \in Frames, NEW n \in Fields[e.at], n \in live,
           NEW m, Accounts(e, live, m)
    PROVE  Composite(e)
  BY FieldInside DEF Accounts, Inside, Frames

\* A field loses its frame and its parent's bit says what it holds.
LEMMA LeaveParent ==
    ASSUME NEW live, NEW e \in Frames, Composite(e), NEW n \in Fields[e.at],
           NEW m, Accounts(e, live, m),
           NEW g \in Frames, Composite(g), g.at = e.at,
           \/ g.iset = e.iset \cup {n} /\ Full(n, m)
           \/ g.iset = e.iset \ {n} /\ Empty(n, m)
    PROVE  Accounts(g, live \ {n}, m)
  BY DEF Accounts

\* What a frame says of a field with a frame of its own does not matter, nor
\* where its cursor is.
LEMMA BitOfLive ==
    ASSUME NEW live, NEW e \in Frames, NEW m, Accounts(e, live, m),
           NEW g \in Frames, g.at = e.at, g.isInit = e.isInit,
           Composite(g) <=> Composite(e),
           \A c \in Fields[e.at] \ live : c \in g.iset <=> c \in e.iset
    PROVE  Accounts(g, live, m)
  BY DEF Accounts

-----------------------------------------------------------------------------
(* A frame with nothing live inside its place *)

\* What such a frame owns is exactly what the memory of its place holds.
LEMMA OwnedExact ==
    ASSUME NEW live, NEW e \in Frames, FrameOK(e), live \cap Inside(e.at) = {},
           NEW m, Accounts(e, live, m)
    PROVE  /\ Owned(e) \subseteq LeavesOf(e.at)
           /\ \A l \in LeavesOf(e.at) : l \in Owned(e) <=> m[l] # "Uninit"
<1>1. CASE Composite(e)
  <2>1. Kind[e.at] # "leaf" /\ e.at \in Nodes
    BY <1>1 DEF FrameOK, Frames, Composite
  <2>2. \A c \in Fields[e.at] : c \notin live
    BY <2>1, FieldInside DEF Inside
  <2>3. Owned(e) = UNION {LeavesOf(c) : c \in e.iset} /\ e.iset \subseteq Fields[e.at]
    BY <1>1 DEF Owned, FrameOK
  <2>4. LeavesOf(e.at) = UNION {LeavesOf(c) : c \in Fields[e.at]}
    BY <2>1, LeavesSplit
  <2>5. ASSUME NEW l \in LeavesOf(e.at) PROVE l \in Owned(e) <=> m[l] # "Uninit"
    <3>1. PICK c \in Fields[e.at] : l \in LeavesOf(c)
      BY <2>4
    <3>2. CASE c \in e.iset
      BY <1>1, <2>2, <2>3, <3>1, <3>2 DEF Accounts, Full
    <3>3. CASE c \notin e.iset
      <4>1. m[l] = "Uninit"
        BY <1>1, <2>2, <3>1, <3>3 DEF Accounts, Empty
      <4>2. ASSUME NEW d \in e.iset PROVE l \notin LeavesOf(d)
        <5>1. Below[c] \cap Below[d] = {}
          BY <2>1, <2>3, <3>3, <4>2, TreeAssumption
        <5> QED
          BY <3>1, <5>1 DEF LeavesOf
      <4> QED
        BY <2>3, <4>1, <4>2
    <3> QED
      BY <3>2, <3>3
  <2> QED
    BY <2>3, <2>4, <2>5
<1>2. CASE ~Composite(e)
  BY <1>2 DEF Accounts, Owned, Full, Empty
<1> QED
  BY <1>1, <1>2

\* If it is complete, its place is full.
LEMMA CompleteFull ==
    ASSUME NEW live, NEW e \in Frames, FrameOK(e), live \cap Inside(e.at) = {},
           NEW m, Accounts(e, live, m), Complete(e)
    PROVE  Full(e.at, m)
<1>1. CASE Composite(e)
  <2>1. Kind[e.at] # "leaf" /\ e.at \in Nodes
    BY <1>1 DEF FrameOK, Frames, Composite
  <2>2. \A c \in Fields[e.at] : c \notin live
    BY <2>1, FieldInside DEF Inside
  <2> QED
    BY <1>1, <2>1, <2>2, FullByFields DEF Accounts, Complete
<1>2. CASE ~Composite(e)
  BY <1>2 DEF Accounts, Complete
<1> QED
  BY <1>1, <1>2

\* The tracker that records fields one by one says what the Scalar one said.
LEMMA AsCompositeOK ==
    ASSUME NEW live, NEW e \in Frames, FrameOK(e), Kind[e.at] # "leaf",
           NEW m, Accounts(e, live, m)
    PROVE  /\ AsComposite(e) \in Frames /\ FrameOK(AsComposite(e))
           /\ AsComposite(e).at = e.at /\ AsComposite(e).cur = e.cur
           /\ Composite(AsComposite(e))
           /\ Accounts(AsComposite(e), live, m)
<1>1. CASE Composite(e)
  BY <1>1 DEF AsComposite
<1>2. CASE ~Composite(e)
  <2> DEFINE g == AsComposite(e)
  <2>1. e.tracker = "Scalar" /\ e.iset = {} /\ e.cur = NoChild /\ e.at \in Nodes
    BY <1>2 DEF Composite, FrameOK, Frames
  <2>2. Kind[e.at] \in {"struct", "array"} /\ Fields[e.at] \in SUBSET Nodes
    BY <2>1, NodesAssumption
  <2>3. g = [e EXCEPT !.tracker = IF Kind[e.at] = "array" THEN "Array" ELSE "Struct",
                      !.iset = IF e.isInit THEN Fields[e.at] ELSE {}]
    BY <1>2 DEF AsComposite
  <2>4. /\ g \in Frames /\ g.at = e.at /\ g.cur = e.cur /\ Composite(g)
        /\ g.tracker = IF Kind[e.at] = "array" THEN "Array" ELSE "Struct"
        /\ g.iset = IF e.isInit THEN Fields[e.at] ELSE {}
    BY <2>2, <2>3 DEF Frames, Composite
  <2>5. FrameOK(g)
    BY <2>1, <2>2, <2>4 DEF FrameOK
  <2>6. Accounts(g, live, m)
    <3>1. e.isInit => \A c \in Fields[e.at] : Full(c, m)
      BY <1>2, <2>1, FullByFields DEF Accounts
    <3>2. ~e.isInit => \A c \in Fields[e.at] : Empty(c, m)
      BY <1>2, <2>1, FullByFields DEF Accounts
    <3> QED
      BY <2>4, <3>1, <3>2 DEF Accounts
  <2> QED
    BY <2>4, <2>5, <2>6
<1> QED
  BY <1>1, <1>2

-----------------------------------------------------------------------------
(* Filling defaults *)

\* What a call that fills (part of) a frame leaves behind.
Filled(e, g, W, live, m) ==
    /\ g \in Frames /\ FrameOK(g) /\ g.at = e.at /\ g.cur \in {e.cur, NoChild}
    /\ W \subseteq LeavesOf(e.at)
    /\ \A l \in W : m[l] = "Uninit"
    /\ Accounts(g, live, Wrote(m, W, "Default"))

\* Filling nothing changes nothing.
LEMMA FilledNothing ==
    ASSUME NEW live, NEW e \in Frames, FrameOK(e),
           NEW m \in [Leaves -> Contents], Accounts(e, live, m)
    PROVE  Filled(e, e, {}, live, m)
<1>1. Wrote(m, {}, "Default") = m
  BY DEF Wrote
<1> QED
  BY <1>1 DEF Filled

\* Filling some of the missing fields of a struct.
LEMMA FillFieldsOK ==
    ASSUME NEW live, NEW e \in Frames, FrameOK(e), live \cap Inside(e.at) = {},
           NEW m \in [Leaves -> Contents], Accounts(e, live, m),
           Kind[e.at] = "struct", NEW D \in SUBSET Defaultable(e)
    PROVE  Filled(e, FillFields(e, D).frame, FillFields(e, D).leaves, live, m)
<1> DEFINE W == UNION {LeavesOf(c) : c \in D}
           m2 == Wrote(m, W, "Default")
           g == IF Composite(e) \/ e.isInit THEN e ELSE AsComposite(e)
           h == [g EXCEPT !.iset = @ \cup D]
<1>1. FillFields(e, D).frame = h /\ FillFields(e, D).leaves = W
  BY DEF FillFields
<1>2. e.at \in Nodes /\ D \subseteq Fields[e.at] /\ Fields[e.at] \subseteq Nodes
  BY NodesAssumption DEF Defaultable, Frames
<1>3. \A c \in Fields[e.at] : c \notin live
  BY <1>2, FieldInside DEF Inside
<1>4. CASE Composite(e) \/ ~e.isInit
  <2>1. /\ g \in Frames /\ FrameOK(g) /\ g.at = e.at /\ g.cur = e.cur
        /\ Composite(g) /\ Accounts(g, live, m)
    BY <1>4, AsCompositeOK
  <2>2. D \cap g.iset = {}
    <3>1. CASE Composite(e)
      BY <3>1 DEF Defaultable
    <3>2. CASE ~Composite(e)
      BY <1>4, <3>2 DEF AsComposite
    <3> QED
      BY <3>1, <3>2
  <2> HIDE DEF g
  <2>3. /\ h \in Frames /\ h.at = e.at /\ h.cur = e.cur /\ h.iset = g.iset \cup D
        /\ h.tracker = g.tracker /\ Composite(h)
    BY <1>2, <2>1 DEF Frames, Composite
  <2>4. FrameOK(h)
    BY <1>2, <2>1, <2>3 DEF FrameOK, Composite
  <2>5. \A c \in D : Empty(c, m)
    BY <1>2, <1>3, <2>1, <2>2 DEF Accounts
  <2>6. W \subseteq LeavesOf(e.at) /\ \A l \in W : m[l] = "Uninit"
    BY <1>2, <2>5, LeavesSplit DEF Empty
  <2>7. m2 \in [Leaves -> Contents] /\ \A l \in Leaves : m2[l] = IF l \in W THEN "Default" ELSE m[l]
    BY WroteFacts DEF Contents
  <2> HIDE DEF m2, h
  <2>8. ASSUME NEW c \in D PROVE Full(c, m2)
    BY <1>2, <2>7, LeavesInNodes DEF Full
  <2>9. ASSUME NEW c \in Fields[e.at], c \notin D
        PROVE  (Full(c, m2) <=> Full(c, m)) /\ (Empty(c, m2) <=> Empty(c, m))
    <3>1. ASSUME NEW d \in D PROVE LeavesOf(c) \cap LeavesOf(d) = {}
      BY <1>2, <2>9, <3>1, TreeAssumption DEF LeavesOf
    <3>2. \A l \in LeavesOf(c) : l \in Leaves /\ l \notin W
      BY <1>2, <3>1, LeavesInNodes
    <3> QED
      BY <1>2, <2>7, <3>2, SameLeaves
  <2>10. Accounts(h, live, m2)
    BY <2>1, <2>3, <2>8, <2>9 DEF Accounts
  <2> QED
    BY <1>1, <2>3, <2>4, <2>6, <2>10 DEF Filled, m2
<1>5. CASE ~Composite(e) /\ e.isInit
  <2>1. D = {}
    BY <1>5 DEF Defaultable
  <2>2. h = e /\ W = {}
    BY <1>5, <2>1 DEF Frames
  <2> HIDE DEF h, W
  <2>3. FillFields(e, D).frame = e /\ FillFields(e, D).leaves = {}
    BY <1>1, <2>2
  <2> QED
    BY <2>3, FilledNothing
<1> QED
  BY <1>4, <1>5

\* fill_defaults and fill_and_require_fields.
LEMMA FillOK ==
    ASSUME NEW live, NEW e \in Frames, FrameOK(e), live \cap Inside(e.at) = {},
           NEW m \in [Leaves -> Contents], Accounts(e, live, m), NEW v \in BOOLEAN
    PROVE  Filled(e, Fill(e, v).frame, Fill(e, v).leaves, live, m)
<1>1. CASE FillsWhole(e, v)
  <2> DEFINE h == FillWhole(e).frame
             m2 == Wrote(m, LeavesOf(e.at), "Default")
  <2>1. e.at \in Nodes /\ LeavesOf(e.at) \subseteq Leaves
    BY LeavesInNodes DEF Frames
  <2>2. h = [e EXCEPT !.tracker = "Scalar", !.isInit = TRUE, !.iset = {}, !.cur = NoChild]
    BY DEF FillWhole
  <2>3. /\ h \in Frames /\ h.at = e.at /\ h.cur = NoChild /\ h.iset = {}
        /\ h.tracker = "Scalar" /\ h.isInit
    BY <2>2 DEF Frames
  <2>4. FrameOK(h) /\ ~Composite(h)
    BY <2>3 DEF FrameOK, Composite
  <2>5. Empty(e.at, m)
    <3>1. CASE Untouched(e)
      BY <3>1 DEF Untouched, Accounts
    <3>2. CASE e.tracker = "Struct" /\ e.iset = {}
      <4>1. Kind[e.at] = "struct" /\ Composite(e)
        BY <3>2 DEF FrameOK, Composite
      <4>2. \A c \in Fields[e.at] : Empty(c, m)
        BY <2>1, <3>2, <4>1, FieldInside DEF Inside, Accounts
      <4> QED
        BY <2>1, <4>1, <4>2, FullByFields
    <3> QED
      BY <1>1, <3>1, <3>2 DEF FillsWhole
  <2>6. \A l \in Leaves : m2[l] = IF l \in LeavesOf(e.at) THEN "Default" ELSE m[l]
    BY WroteFacts DEF Contents
  <2>7. Full(e.at, m2)
    BY <2>1, <2>6 DEF Full
  <2>8. Accounts(h, live, m2)
    BY <2>3, <2>4, <2>7 DEF Accounts
  <2>9. Fill(e, v).frame = h /\ Fill(e, v).leaves = LeavesOf(e.at)
    <3>1. Fill(e, v) = FillWhole(e)
      BY <1>1 DEF Fill
    <3>2. FillWhole(e).leaves = LeavesOf(e.at)
      BY DEF FillWhole
    <3> QED
      BY <3>1, <3>2
  <2> QED
    BY <2>3, <2>4, <2>5, <2>8, <2>9 DEF Filled, Empty
<1>2. CASE ~FillsWhole(e, v) /\ Kind[e.at] = "struct"
  BY <1>2, FillFieldsOK DEF Fill
<1>3. CASE ~FillsWhole(e, v) /\ Kind[e.at] # "struct"
  BY <1>3, FilledNothing DEF Fill
<1> QED
  BY <1>1, <1>2, <1>3

-----------------------------------------------------------------------------
(* The places on the stack *)

\* A stack runs down the tree: no two of its frames have the same place, and
\* none is inside the place of a later one.
LEMMA StackFacts ==
    ASSUME NEW s, StackDescends(s)
    PROVE  /\ Len(s) \in Nat
           /\ StackPlaces(s) \subseteq Nodes
           /\ \A i \in 1..Len(s) : s[i] \in Frames /\ s[i].at \in Nodes
           /\ \A i, j \in 1..Len(s) : s[i].at = s[j].at => i = j
           /\ \A i \in 1..Len(s) : s[i].at \notin Inside(s[Len(s)].at)
           /\ \A n \in Nodes : \A a \in StackPlaces(s) :
                 a \in Below[n] => n \in StackPlaces(s)
           /\ s # << >> => Root \in StackPlaces(s) /\ Len(s) \in 1..Len(s)
<1>1. Len(s) \in Nat /\ \A i \in 1..Len(s) : s[i] \in Frames
  BY DEF StackDescends
<1>2. \A i \in 1..Len(s) : s[i].at \in Nodes
  BY <1>1 DEF Frames
<1>3. \A i, j \in 1..Len(s) : s[i].at = s[j].at => i = j
  BY <1>1 DEF StackDescends
<1>4. ASSUME NEW i \in 1..Len(s) PROVE s[i].at \notin Inside(s[Len(s)].at)
  <2>1. Len(s) \in 1..Len(s)
    BY <1>1
  <2>2. s[Len(s)].at \in Below[s[i].at]
    BY <1>2, <2>1 DEF StackDescends
  <2> QED
    BY <1>2, <2>1, <2>2, TreeAssumption DEF Inside
<1>5. ASSUME NEW n \in Nodes, NEW a \in StackPlaces(s), a \in Below[n]
      PROVE  n \in StackPlaces(s)
  <2>1. PICK i \in 1..Len(s) : s[i].at = a
    BY DEF StackPlaces
  <2>2. PICK j \in 1..i : s[j].at = n
    BY <1>5, <2>1 DEF StackDescends
  <2> QED
    BY <1>1, <2>2 DEF StackPlaces
<1>6. s # << >> => Root \in StackPlaces(s) /\ Len(s) \in 1..Len(s)
  <2>1. s # << >> => Len(s) >= 1 /\ s[1].at = Root
    BY <1>1 DEF StackDescends
  <2> QED
    BY <1>1, <2>1 DEF StackPlaces
<1>7. StackPlaces(s) \subseteq Nodes
  BY <1>2 DEF StackPlaces
<1> QED
  BY <1>1, <1>2, <1>3, <1>4, <1>5, <1>6, <1>7

\* The steps of the frames below the top spell the path of the top's place.
LEMMA StepsSpellPath ==
    ASSUME NEW s, StackDescends(s), s # << >>
    PROVE  {StepOf(s[i]) : i \in {j \in 1..Len(s) : j < Len(s)}} = FullPath(s[Len(s)].at)
<1> DEFINE top == s[Len(s)].at
<1>1. /\ Len(s) \in Nat /\ Len(s) \in 1..Len(s) /\ top \in Nodes
      /\ \A i \in 1..Len(s) : s[i].at \in Nodes
  BY StackFacts
<1>2. ASSUME NEW i \in 1..Len(s), i < Len(s)
      PROVE  /\ i + 1 \in 1..Len(s)
             /\ StepOf(s[i]) = StepTo(s[i + 1].at)
             /\ s[i + 1].at \in Nodes \ {Root} /\ top \in Below[s[i + 1].at]
  <2>1. i + 1 \in 1..Len(s)
    BY <1>1, <1>2
  <2>2. FrameOK(s[i]) /\ s[i].cur = s[i + 1].at /\ s[i + 1].at \in Fields[s[i].at]
    BY <1>2 DEF StackDescends
  <2>3. s[i + 1].at # Root /\ s[i + 1].at \in Nodes
    BY <1>1, <2>2, FieldInside
  <2>4. s[i].cur # NoChild
    BY <2>2, <2>3, ConstantsAssumption
  <2>5. StepOf(s[i]) = StepTo(s[i + 1].at)
    BY <2>2, <2>4, StepOfCursor
  <2>6. top \in Below[s[i + 1].at]
    BY <1>1, <2>1, <2>3 DEF StackDescends
  <2> QED
    BY <2>1, <2>3, <2>5, <2>6
<1>3. ASSUME NEW k \in Nodes \ {Root}, top \in Below[k]
      PROVE  \E i \in 1..Len(s) : i < Len(s) /\ StepOf(s[i]) = StepTo(k)
  <2>1. PICK j \in 1..Len(s) : s[j].at = k
    BY <1>1, <1>3 DEF StackDescends
  <2>2. j # 1
    BY <1>1, <1>3, <2>1 DEF StackDescends
  <2>3. j - 1 \in 1..Len(s) /\ j - 1 < Len(s) /\ (j - 1) + 1 = j
    BY <1>1, <2>1, <2>2
  <2> QED
    BY <1>2, <2>1, <2>3
<1> HIDE DEF top
<1>4. FullPath(top) = {StepTo(k) : k \in {n \in Nodes \ {Root} : top \in Below[n]}}
  BY DEF FullPath
<1>5. {StepOf(s[i]) : i \in {j \in 1..Len(s) : j < Len(s)}} \subseteq FullPath(top)
  BY <1>2, <1>4
<1>6. FullPath(top) \subseteq {StepOf(s[i]) : i \in {j \in 1..Len(s) : j < Len(s)}}
  BY <1>3, <1>4
<1> QED
  BY <1>5, <1>6 DEF top

\* Below the top, every cursor is set.
LEMMA CursorsSet ==
    ASSUME NEW s, StackDescends(s)
    PROVE  \A i \in 1..Len(s) : i < Len(s) => s[i].cur # NoChild
<1>1. SUFFICES ASSUME NEW i \in 1..Len(s), i < Len(s) PROVE s[i].cur \in Nodes
  BY ConstantsAssumption
<1>2. s[i].cur \in Fields[s[i].at] /\ s[i].at \in Nodes
  BY <1>1, StackFacts DEF StackDescends
<1> QED
  BY <1>2, FieldInside

\* derive_path: the top frame's cursor is not set.
LEMMA DerivedPath ==
    ASSUME NEW s, StackDescends(s), s # << >>, s[Len(s)].cur = NoChild
    PROVE  PathOf(s) = FullPath(s[Len(s)].at)
<1>1. {j \in 1..Len(s) : s[j].cur # NoChild} = {j \in 1..Len(s) : j < Len(s)}
  BY StackFacts, CursorsSet
<1> QED
  BY <1>1, StepsSpellPath DEF PathOf

\* end() leaves the frame being ended out of its own path.
LEMMA PathToStore ==
    ASSUME NEW s, StackDescends(s), Len(s) > 1
    PROVE  PathOf(SubSeq(s, 1, Len(s) - 1)) = FullPath(s[Len(s)].at)
<1> DEFINE r == SubSeq(s, 1, Len(s) - 1)
<1>1. Len(s) \in Nat /\ s \in Seq(Frames) /\ s # << >>
  BY DEF StackDescends
<1>2. Len(r) = Len(s) - 1 /\ \A i \in 1..Len(s) - 1 : r[i] = s[i]
  BY <1>1
<1>3. {j \in 1..Len(r) : r[j].cur # NoChild} = {j \in 1..Len(s) : j < Len(s)}
  BY <1>1, <1>2, CursorsSet
<1>4. PathOf(r) = {StepOf(r[i]) : i \in {j \in 1..Len(s) : j < Len(s)}}
  BY <1>3 DEF PathOf
<1>5. \A i \in {j \in 1..Len(s) : j < Len(s)} : r[i] = s[i]
  BY <1>1, <1>2
<1> HIDE DEF r
<1>6. PathOf(r) = {StepOf(s[i]) : i \in {j \in 1..Len(s) : j < Len(s)}}
  BY <1>4, <1>5
<1> QED
  BY <1>1, <1>6, StepsSpellPath DEF r

-----------------------------------------------------------------------------
(* Updating, pushing and popping frames *)

\* A frame is replaced by one of the same place; below the top its cursor stays.
LEMMA StackUpdate ==
    ASSUME NEW s, StackDescends(s), NEW k \in 1..Len(s),
           NEW g, FrameOK(g), g.at = s[k].at, k = Len(s) \/ g.cur = s[k].cur
    PROVE  LET s2 == [s EXCEPT ![k] = g] IN
           /\ StackDescends(s2) /\ Len(s2) = Len(s)
           /\ \A i \in 1..Len(s) : s2[i] = IF i = k THEN g ELSE s[i]
           /\ \A i \in 1..Len(s) : s2[i].at = s[i].at
           /\ StackPlaces(s2) = StackPlaces(s)
<1> DEFINE s2 == [s EXCEPT ![k] = g]
<1>1. s \in Seq(Frames) /\ g \in Frames /\ Len(s) \in Nat
  BY DEF StackDescends, FrameOK
<1>2. s2 \in Seq(Frames) /\ Len(s2) = Len(s)
  BY <1>1
<1>3. \A i \in 1..Len(s) : s2[i] = IF i = k THEN g ELSE s[i]
  BY <1>1
<1> HIDE DEF s2
<1>4. \A i \in 1..Len(s) : s2[i].at = s[i].at /\ (i < Len(s) => s2[i].cur = s[i].cur)
  BY <1>1, <1>3
<1>5. StackPlaces(s2) = StackPlaces(s)
  BY <1>2, <1>4 DEF StackPlaces
<1>6. s2 # << >> => s2[1].at = Root
  <2>1. s2 # << >> => s # << >> /\ 1 \in 1..Len(s)
    BY <1>1, <1>2
  <2> QED
    BY <1>4, <2>1 DEF StackDescends
<1>7. \A i \in 1..Len(s2) : FrameOK(s2[i]) /\ Depth(s2[i].at) = i - 1
  BY <1>2, <1>3, <1>4 DEF StackDescends
<1>8. \A i \in 1..Len(s2) : i < Len(s2) =>
          s2[i + 1].at \in Fields[s2[i].at] /\ s2[i].cur = s2[i + 1].at
  <2>1. SUFFICES ASSUME NEW i \in 1..Len(s), i < Len(s)
                 PROVE  s2[i + 1].at \in Fields[s2[i].at] /\ s2[i].cur = s2[i + 1].at
    BY <1>2
  <2>2. s[i + 1].at \in Fields[s[i].at] /\ s[i].cur = s[i + 1].at
    BY <2>1 DEF StackDescends
  <2>3. i + 1 \in 1..Len(s)
    BY <1>1, <2>1
  <2> QED
    BY <1>4, <2>1, <2>2, <2>3
<1>9. \A i \in 1..Len(s2) : \A n \in Nodes :
          s2[i].at \in Below[n] <=> \E j \in 1..i : s2[j].at = n
  <2>1. SUFFICES ASSUME NEW i \in 1..Len(s), NEW n \in Nodes
                 PROVE  s2[i].at \in Below[n] <=> \E j \in 1..i : s2[j].at = n
    BY <1>2
  <2>2. s[i].at \in Below[n] <=> \E j \in 1..i : s[j].at = n
    BY DEF StackDescends
  <2>3. \A j \in 1..i : s2[j].at = s[j].at
    BY <1>1, <1>4
  <2> QED
    BY <1>4, <2>2, <2>3
<1>10. StackDescends(s2)
  BY <1>2, <1>6, <1>7, <1>8, <1>9 DEF StackDescends
<1> QED
  BY <1>2, <1>3, <1>4, <1>5, <1>10 DEF s2

\* A frame for a field of the top place is pushed.
LEMMA StackPush ==
    ASSUME NEW s, StackDescends(s), s # << >>,
           NEW c \in Fields[s[Len(s)].at], s[Len(s)].cur = c,
           NEW h, FrameOK(h), h.at = c
    PROVE  LET s2 == Append(s, h) IN
           /\ StackDescends(s2) /\ Len(s2) = Len(s) + 1
           /\ \A i \in 1..Len(s) : s2[i] = s[i]
           /\ s2[Len(s) + 1] = h
           /\ StackPlaces(s2) = StackPlaces(s) \cup {c}
<1> DEFINE s2 == Append(s, h)
           L == Len(s)
<1>1. L \in Nat /\ L \in 1..L /\ \A i \in 1..L : s[i].at \in Nodes
  BY StackFacts
<1>2. h \in Frames /\ s \in Seq(Frames) /\ c \in Nodes /\ c # Root
  BY <1>1, FieldInside DEF StackDescends, FrameOK
<1>3. s2 \in Seq(Frames) /\ Len(s2) = L + 1 /\ s2 # << >>
  BY <1>2
<1>4. (\A i \in 1..L : s2[i] = s[i]) /\ s2[L + 1] = h
  BY <1>2
<1> HIDE DEF s2
<1>5. StackPlaces(s2) = StackPlaces(s) \cup {c}
  <2>1. StackPlaces(s2) = {s2[i].at : i \in 1..L} \cup {s2[L + 1].at}
    BY <1>1, <1>3 DEF StackPlaces
  <2>2. \A i \in 1..L : s2[i].at = s[i].at
    BY <1>4
  <2>3. {s2[i].at : i \in 1..L} = StackPlaces(s)
    BY <2>2 DEF StackPlaces
  <2> QED
    BY <1>4, <2>1, <2>3
<1>6. s2[1].at = Root
  BY <1>1, <1>4 DEF StackDescends
<1>7. \A i \in 1..Len(s2) : FrameOK(s2[i])
  BY <1>1, <1>3, <1>4 DEF StackDescends
<1>8. \A i \in 1..Len(s2) : Depth(s2[i].at) = i - 1
  <2>1. Depth(c) = L
    <3>1. Depth(c) = Depth(s[L].at) + 1
      BY <1>1, DepthOfField
    <3>2. Depth(s[L].at) = L - 1
      BY <1>1 DEF StackDescends
    <3> QED
      BY <1>1, <3>1, <3>2
  <2> QED
    BY <1>1, <1>3, <1>4, <2>1 DEF StackDescends
<1>9. \A i \in 1..Len(s2) : i < Len(s2) =>
          s2[i + 1].at \in Fields[s2[i].at] /\ s2[i].cur = s2[i + 1].at
  <2>1. SUFFICES ASSUME NEW i \in 1..L
                 PROVE  s2[i + 1].at \in Fields[s2[i].at] /\ s2[i].cur = s2[i + 1].at
    BY <1>1, <1>3
  <2>2. CASE i = L
    BY <1>1, <1>4, <2>2
  <2>3. CASE i < L
    BY <1>1, <1>4, <2>3 DEF StackDescends
  <2> QED
    BY <1>1, <2>2, <2>3
<1>10. ASSUME NEW i \in 1..Len(s2), NEW n \in Nodes
       PROVE  s2[i].at \in Below[n] <=> \E j \in 1..i : s2[j].at = n
  <2>1. CASE i \in 1..L
    <3>1. s[i].at \in Below[n] <=> \E j \in 1..i : s[j].at = n
      BY <2>1 DEF StackDescends
    <3> QED
      BY <1>1, <1>4, <2>1, <3>1
  <2>2. CASE i = L + 1
    <3>1. c \in Below[n] <=> c = n \/ s[L].at \in Below[n]
      <4>1. c \in Below[n] /\ c # n => s[L].at \in Below[n]
        BY <1>1, ParentInside
      <4>2. s[L].at \in Below[n] => c \in Below[n]
        BY <1>1, FieldInside, TreeAssumption
      <4> QED
        BY <1>2, <4>1, <4>2, TreeAssumption
    <3>2. s[L].at \in Below[n] <=> \E j \in 1..L : s[j].at = n
      BY <1>1 DEF StackDescends
    <3>3. \A j \in 1..L : s2[j].at = s[j].at
      BY <1>4
    <3>4. (\E j \in 1..(L + 1) : s2[j].at = n) <=> (\E j \in 1..L : s[j].at = n) \/ c = n
      <4>1. \A j \in 1..(L + 1) : j \in 1..L \/ j = L + 1
        BY <1>1
      <4>2. (\A j \in 1..L : j \in 1..(L + 1)) /\ L + 1 \in 1..(L + 1)
        BY <1>1
      <4>3. s2[L + 1].at = c
        BY <1>4
      <4> QED
        BY <3>3, <4>1, <4>2, <4>3
    <3> QED
      BY <1>4, <2>2, <3>1, <3>2, <3>4
  <2> QED
    BY <1>1, <1>3, <2>1, <2>2
<1>11. StackDescends(s2)
  BY <1>3, <1>6, <1>7, <1>8, <1>9, <1>10 DEF StackDescends
<1> QED
  BY <1>3, <1>4, <1>5, <1>11 DEF s2

\* The top frame is popped and the frame below it updated.
LEMMA StackPop ==
    ASSUME NEW s, StackDescends(s), Len(s) > 1,
           NEW g, FrameOK(g), g.at = s[Len(s) - 1].at
    PROVE  LET s2 == [Pop(s) EXCEPT ![Len(s) - 1] = g] IN
           /\ StackDescends(s2) /\ Len(s2) = Len(s) - 1
           /\ \A i \in 1..(Len(s) - 1) : s2[i] = IF i = Len(s) - 1 THEN g ELSE s[i]
           /\ StackPlaces(s2) = StackPlaces(s) \ {s[Len(s)].at}
<1> DEFINE r == Pop(s)
           L == Len(s)
<1>1. s \in Seq(Frames) /\ L \in Nat /\ L > 1 /\ s # << >>
  BY DEF StackDescends
<1>2. r \in Seq(Frames) /\ Len(r) = L - 1 /\ r # << >> /\ \A i \in 1..(L - 1) : r[i] = s[i]
  <2>1. r = SubSeq(s, 1, L - 1) /\ L - 1 \in Nat /\ L - 1 >= 1
    BY <1>1 DEF Pop
  <2>2. r \in Seq(Frames) /\ Len(r) = L - 1
    BY <1>1, <2>1
  <2>3. \A i \in 1..(L - 1) : r[i] = s[i]
    BY <1>1, <2>1
  <2> HIDE DEF r
  <2>4. r # << >>
    BY <1>1, <2>2
  <2> QED
    BY <2>2, <2>3, <2>4
<1> HIDE DEF r
<1>3. StackDescends(r)
  <2>1. \A i \in 1..(L - 1) : i \in 1..L /\ i < L
    BY <1>1
  <2>2. r[1].at = Root
    BY <1>1, <1>2 DEF StackDescends
  <2>3. \A i \in 1..Len(r) : FrameOK(r[i]) /\ Depth(r[i].at) = i - 1
    BY <1>2, <2>1 DEF StackDescends
  <2>4. ASSUME NEW i \in 1..Len(r), i < Len(r)
        PROVE  r[i + 1].at \in Fields[r[i].at] /\ r[i].cur = r[i + 1].at
    <3>1. r[i] = s[i] /\ r[i + 1] = s[i + 1] /\ i \in 1..L /\ i < L
      BY <1>1, <1>2, <2>4
    <3> QED
      BY <3>1 DEF StackDescends
  <2>5. ASSUME NEW i \in 1..Len(r), NEW n \in Nodes
        PROVE  r[i].at \in Below[n] <=> \E j \in 1..i : r[j].at = n
    <3>1. i \in 1..L /\ r[i] = s[i] /\ \A j \in 1..i : r[j] = s[j]
      BY <1>1, <1>2
    <3>2. s[i].at \in Below[n] <=> \E j \in 1..i : s[j].at = n
      BY <3>1 DEF StackDescends
    <3> QED
      BY <3>1, <3>2
  <2> QED
    BY <1>2, <2>2, <2>3, <2>4, <2>5 DEF StackDescends
<1>4. StackPlaces(r) = StackPlaces(s) \ {s[L].at}
  <2>1. \A i \in 1..L : s[i].at = s[L].at => i = L
    BY <1>1, StackFacts
  <2>2. \A i \in 1..L : i # L <=> i \in 1..(L - 1)
    BY <1>1
  <2>3. StackPlaces(r) = {s[i].at : i \in 1..(L - 1)}
    BY <1>2 DEF StackPlaces
  <2>4. \A i \in 1..(L - 1) : i \in 1..L /\ i # L
    BY <1>1
  <2>5. StackPlaces(r) \subseteq StackPlaces(s) \ {s[L].at}
    BY <2>1, <2>3, <2>4 DEF StackPlaces
  <2>6. StackPlaces(s) \ {s[L].at} \subseteq StackPlaces(r)
    BY <2>2, <2>3 DEF StackPlaces
  <2> QED
    BY <2>5, <2>6
<1>5. L - 1 \in 1..Len(r) /\ g.at = r[L - 1].at
  BY <1>1, <1>2
<1>6. LET s2 == [r EXCEPT ![L - 1] = g] IN
      /\ StackDescends(s2) /\ Len(s2) = Len(r)
      /\ \A i \in 1..Len(r) : s2[i] = IF i = L - 1 THEN g ELSE r[i]
      /\ StackPlaces(s2) = StackPlaces(r)
  BY <1>2, <1>3, <1>5, StackUpdate
<1> QED
  BY <1>2, <1>4, <1>6 DEF r

-----------------------------------------------------------------------------
(* Stack, stored frames and memory that agree *)

\* Live places have one frame each; a stored place is not the root and has no
\* place of the stack inside it.
LEMMA LiveFacts ==
    ASSUME NEW s, NEW st, NEW m, Agree(s, st, m)
    PROVE  /\ Places(s, st) \in SUBSET Nodes /\ Closed(Places(s, st))
           /\ \A i \in 1..Len(s) : s[i].at \in Places(s, st)
           /\ \A p \in DOMAIN st : st[p] \in Frames /\ st[p].at \in Places(s, st)
           /\ \A p, q \in DOMAIN st : st[p].at = st[q].at => p = q
           /\ \A p \in DOMAIN st : \A i \in 1..Len(s) :
                 /\ st[p].at # s[i].at
                 /\ s[i].at \notin Below[st[p].at]
           /\ s # << >> => \A p \in DOMAIN st : st[p].at # Root
<1>1. StackDescends(s) /\ StoredFiled(s, st) /\ Closed(Places(s, st))
  BY DEF Agree
<1>2. \A p \in DOMAIN st : st[p] \in Frames /\ st[p].at \in Nodes
  BY <1>1 DEF StoredFiled, FrameOK, Frames
<1>3. Places(s, st) \in SUBSET Nodes
  BY <1>1, <1>2, StackFacts DEF Places, StoredPlaces
<1>4. \A i \in 1..Len(s) : s[i].at \in StackPlaces(s)
  BY DEF StackPlaces
<1>5. \A p \in DOMAIN st : st[p].at \in StoredPlaces(st) /\ st[p].at \notin StackPlaces(s)
  BY <1>1 DEF StoredPlaces, StoredFiled
<1>6. \A p, q \in DOMAIN st : st[p].at = st[q].at => p = q
  BY <1>1 DEF StoredFiled
<1>7. \A p \in DOMAIN st : \A i \in 1..Len(s) : s[i].at \notin Below[st[p].at]
  BY <1>1, <1>2, <1>4, <1>5, StackFacts
<1>8. s # << >> => Root \in StackPlaces(s)
  BY <1>1, StackFacts
<1> QED
  BY <1>1, <1>2, <1>3, <1>4, <1>5, <1>6, <1>7, <1>8 DEF Places

\* Which frames there are depends on the places only.
LEMMA SamePlaces ==
    ASSUME NEW s, NEW st, StoredFiled(s, st), NEW s2, StackPlaces(s2) = StackPlaces(s)
    PROVE  StoredFiled(s2, st) /\ Places(s2, st) = Places(s, st)
  BY DEF StoredFiled, Places

-----------------------------------------------------------------------------
(* One frame and the memory of its place change *)

\* The frame on top of the stack.
LEMMA TopUpdated ==
    ASSUME NEW s, NEW st, NEW m, Agree(s, st, m), s # << >>,
           Places(s, st) \cap Inside(s[Len(s)].at) = {},
           NEW g, FrameOK(g), g.at = s[Len(s)].at,
           NEW m2 \in [Leaves -> Contents],
           \A l \in Leaves \ LeavesOf(s[Len(s)].at) : m2[l] = m[l],
           Accounts(g, Places(s, st), m2)
    PROVE  LET s2 == [s EXCEPT ![Len(s)] = g] IN
           Agree(s2, st, m2) /\ Places(s2, st) = Places(s, st)
<1> DEFINE live == Places(s, st)
           s2 == [s EXCEPT ![Len(s)] = g]
           n == s[Len(s)].at
<1>1. StackDescends(s) /\ StoredFiled(s, st) /\ m \in [Leaves -> Contents]
  BY DEF Agree
<1>2. Len(s) \in Nat /\ Len(s) \in 1..Len(s)
  BY <1>1, StackFacts
<1>3. /\ StackDescends(s2) /\ Len(s2) = Len(s) /\ StackPlaces(s2) = StackPlaces(s)
      /\ \A i \in 1..Len(s) : s2[i] = IF i = Len(s) THEN g ELSE s[i]
  BY <1>1, <1>2, StackUpdate
<1> HIDE DEF s2
<1>4. StoredFiled(s2, st) /\ Places(s2, st) = live
  BY <1>1, <1>3, SamePlaces
<1>5. live \in SUBSET Nodes /\ Closed(live) /\ n \in live
  BY <1>2, LiveFacts
<1>6. ASSUME NEW i \in 1..Len(s), i # Len(s) PROVE Accounts(s2[i], live, m2)
  <2>1. s[i] \in Frames /\ FrameOK(s[i]) /\ s[i].at # n
    BY <1>1, <1>2, <1>6, StackFacts DEF StackDescends
  <2>2. s[i].at \in live /\ Accounts(s[i], live, m)
    BY LiveFacts DEF Agree
  <2>3. Accounts(s[i], live, m2)
    BY <1>1, <1>5, <2>1, <2>2, Elsewhere
  <2> QED
    BY <1>3, <1>6, <2>3
<1>7. ASSUME NEW p \in DOMAIN st PROVE Accounts(st[p], live, m2)
  <2>1. /\ st[p] \in Frames /\ FrameOK(st[p]) /\ st[p].at # n
        /\ st[p].at \in live /\ Accounts(st[p], live, m)
    BY <1>1, <1>2, LiveFacts DEF StoredFiled, Agree
  <2> QED
    BY <1>1, <1>5, <2>1, Elsewhere
<1>8. Accounts(s2[Len(s)], live, m2)
  BY <1>2, <1>3
<1> HIDE DEF live
<1>9. Agree(s2, st, m2)
  BY <1>3, <1>4, <1>5, <1>6, <1>7, <1>8 DEF Agree
<1> QED
  BY <1>4, <1>9 DEF s2, live

\* A stored frame.
LEMMA StoredUpdated ==
    ASSUME NEW s, NEW st, NEW m, Agree(s, st, m), NEW p \in DOMAIN st,
           Places(s, st) \cap Inside(st[p].at) = {},
           NEW g, FrameOK(g), g.at = st[p].at,
           NEW m2 \in [Leaves -> Contents],
           \A l \in Leaves \ LeavesOf(st[p].at) : m2[l] = m[l],
           Accounts(g, Places(s, st), m2)
    PROVE  LET st2 == [st EXCEPT ![p] = g] IN
           Agree(s, st2, m2) /\ Places(s, st2) = Places(s, st)
<1> DEFINE live == Places(s, st)
           st2 == [st EXCEPT ![p] = g]
           n == st[p].at
<1>1. StackDescends(s) /\ StoredFiled(s, st) /\ m \in [Leaves -> Contents]
  BY DEF Agree
<1>2. DOMAIN st2 = DOMAIN st
  OBVIOUS
<1>3. ASSUME NEW q \in DOMAIN st, q # p PROVE st2[q] = st[q]
  BY <1>3
<1>4. ASSUME st2[p] # g PROVE FALSE
  BY <1>4, <1>2
<1> HIDE DEF st2
<1>5. \A q \in DOMAIN st : st2[q].at = st[q].at /\ FrameOK(st2[q])
  BY <1>1, <1>3, <1>4 DEF StoredFiled
<1>6. StoredFiled(s, st2) /\ Places(s, st2) = live
  BY <1>1, <1>2, <1>5 DEF StoredFiled, Places, StoredPlaces
<1>7. live \in SUBSET Nodes /\ Closed(live) /\ n \in live
  BY LiveFacts
<1>8. ASSUME NEW i \in 1..Len(s) PROVE Accounts(s[i], live, m2)
  <2>1. s[i] \in Frames /\ FrameOK(s[i]) /\ s[i].at # n
    BY <1>1, LiveFacts, StackFacts DEF StackDescends
  <2>2. s[i].at \in live /\ Accounts(s[i], live, m)
    BY LiveFacts DEF Agree
  <2> QED
    BY <1>1, <1>7, <2>1, <2>2, Elsewhere
<1>9. ASSUME NEW q \in DOMAIN st, q # p PROVE Accounts(st2[q], live, m2)
  <2>1. /\ st[q] \in Frames /\ FrameOK(st[q]) /\ st[q].at # n
        /\ st[q].at \in live /\ Accounts(st[q], live, m)
    BY <1>1, <1>9, LiveFacts DEF StoredFiled, Agree
  <2>2. Accounts(st[q], live, m2)
    BY <1>1, <1>7, <2>1, Elsewhere
  <2> QED
    BY <1>3, <1>9, <2>2
<1>10. Accounts(st2[p], live, m2)
  BY <1>4
<1> HIDE DEF live
<1>11. Agree(s, st2, m2)
  BY <1>1, <1>2, <1>6, <1>7, <1>8, <1>9, <1>10 DEF Agree
<1> QED
  BY <1>6, <1>11 DEF st2, live

-----------------------------------------------------------------------------
(* A place loses its frame *)

\* The live places without one that has nothing live inside it.
LEMMA ClosedWithout ==
    ASSUME NEW live \in SUBSET Nodes, Closed(live), NEW n, live \cap Inside(n) = {}
    PROVE  Closed(live \ {n})
  BY DEF Closed, Inside

\* The frame on top of the stack is popped and its parent's bit updated.
LEMMA TopPopped ==
    ASSUME NEW s, NEW st, NEW m, Agree(s, st, m), Len(s) > 1,
           Places(s, st) \cap Inside(s[Len(s)].at) = {},
           NEW g, FrameOK(g), Composite(g), g.at = s[Len(s) - 1].at,
           \/ /\ g.iset = s[Len(s) - 1].iset \cup {s[Len(s)].at}
              /\ Full(s[Len(s)].at, m)
           \/ /\ g.iset = s[Len(s) - 1].iset \ {s[Len(s)].at}
              /\ Empty(s[Len(s)].at, m)
    PROVE  Agree([Pop(s) EXCEPT ![Len(s) - 1] = g], st, m)
<1> DEFINE live == Places(s, st)
           n == s[Len(s)].at
           u == s[Len(s) - 1]
           s2 == [Pop(s) EXCEPT ![Len(s) - 1] = g]
<1>1. StackDescends(s) /\ StoredFiled(s, st) /\ m \in [Leaves -> Contents]
  BY DEF Agree
<1>2. Len(s) \in Nat /\ Len(s) \in 1..Len(s) /\ Len(s) - 1 \in 1..Len(s) /\ s # << >>
  BY <1>1, StackFacts DEF StackDescends
<1>3. /\ StackDescends(s2) /\ Len(s2) = Len(s) - 1
      /\ \A i \in 1..(Len(s) - 1) : s2[i] = IF i = Len(s) - 1 THEN g ELSE s[i]
      /\ StackPlaces(s2) = StackPlaces(s) \ {n}
  BY <1>1, StackPop
<1> HIDE DEF s2
<1>4. live \in SUBSET Nodes /\ Closed(live) /\ n \in live
  BY <1>2, LiveFacts
<1>5. n \in Fields[u.at] /\ u \in Frames /\ FrameOK(u) /\ u.at \in live
  <2>1. Len(s) - 1 < Len(s) /\ (Len(s) - 1) + 1 = Len(s)
    BY <1>2
  <2> QED
    BY <1>1, <1>2, <2>1, LiveFacts, StackFacts DEF StackDescends
<1>6. \A p \in DOMAIN st : st[p].at # n
  BY <1>2, LiveFacts
<1>7. StoredFiled(s2, st) /\ Places(s2, st) = live \ {n}
  BY <1>1, <1>3, <1>6 DEF StoredFiled, Places, StoredPlaces
<1>8. Closed(live \ {n})
  BY <1>4, ClosedWithout
<1>9. g \in Frames /\ u.at \in Nodes /\ \A k \in Nodes : n \in Fields[k] => k = u.at
  <2>1. u.at \in Nodes
    BY <1>5 DEF Frames
  <2> QED
    BY <1>5, <2>1, TreeAssumption DEF FrameOK
<1>10. Accounts(u, live, m)
  BY <1>2 DEF Agree
<1>11. Composite(u)
  BY <1>4, <1>5, <1>10, AroundLive
<1>12. Accounts(g, live \ {n}, m)
  <2>1. \/ g.iset = u.iset \cup {n} /\ Full(n, m)
        \/ g.iset = u.iset \ {n} /\ Empty(n, m)
    OBVIOUS
  <2> QED
    BY <1>5, <1>9, <1>10, <1>11, <2>1, LeaveParent
<1>13. ASSUME NEW i \in 1..(Len(s) - 1), i # Len(s) - 1
       PROVE  Accounts(s2[i], live \ {n}, m)
  <2>1. i \in 1..Len(s)
    BY <1>2
  <2>2. s[i] \in Frames /\ s[i].at \in Nodes /\ s[i].at # u.at
    BY <1>1, <1>2, <1>13, <2>1, StackFacts
  <2>3. n \notin Fields[s[i].at]
    BY <1>9, <2>2
  <2>4. Accounts(s[i], live, m)
    BY <2>1 DEF Agree
  <2>5. Accounts(s[i], live \ {n}, m)
    BY <2>2, <2>3, <2>4, Leave
  <2> QED
    BY <1>3, <1>13, <2>5
<1>14. ASSUME NEW p \in DOMAIN st PROVE Accounts(st[p], live \ {n}, m)
  <2>1. st[p] \in Frames /\ st[p].at \in Nodes /\ st[p].at # u.at /\ Accounts(st[p], live, m)
    BY <1>2, <1>4, LiveFacts DEF Agree
  <2>2. n \notin Fields[st[p].at]
    BY <1>9, <2>1
  <2> QED
    BY <2>1, <2>2, Leave
<1>15. s2[Len(s) - 1] = g
  BY <1>2, <1>3
<1>16. \A i \in 1..Len(s2) : Accounts(s2[i], live \ {n}, m)
  BY <1>3, <1>12, <1>13, <1>15
<1> HIDE DEF live, n
<1>17. Agree(s2, st, m)
  BY <1>1, <1>3, <1>7, <1>8, <1>14, <1>16 DEF Agree
<1> QED
  BY <1>17 DEF s2

\* A composite frame is told what its field c holds.
Told(f, c, what) == IF what = "Full" THEN Mark(f, c) ELSE BitUnset(f, c)

\* It stays a frame of the same place, with that one bit changed.
LEMMA ToldFacts ==
    ASSUME NEW f \in Frames, FrameOK(f), Composite(f), NEW c \in Fields[f.at], NEW what
    PROVE  /\ Told(f, c, what) \in Frames /\ FrameOK(Told(f, c, what))
           /\ Composite(Told(f, c, what))
           /\ Told(f, c, what).at = f.at /\ Told(f, c, what).cur = f.cur
           /\ Told(f, c, what).iset =
                  IF what = "Full" THEN f.iset \cup {c} ELSE f.iset \ {c}
<1> DEFINE g == Told(f, c, what)
<1>1. c \in Nodes
  BY FieldInside DEF Frames
<1>2. g = [f EXCEPT !.iset = IF what = "Full" THEN f.iset \cup {c} ELSE f.iset \ {c}]
  BY DEF Told, Mark, BitSet, BitUnset
<1>3. /\ g \in Frames /\ g.at = f.at /\ g.cur = f.cur /\ g.isInit = f.isInit
      /\ g.tracker = f.tracker
      /\ g.iset = IF what = "Full" THEN f.iset \cup {c} ELSE f.iset \ {c}
  BY <1>1, <1>2 DEF Frames
<1> HIDE DEF g
<1>4. FrameOK(g) /\ Composite(g)
  BY <1>3 DEF FrameOK, Composite
<1> QED
  BY <1>3, <1>4 DEF g

\* What that does to what the frame accounts for, once the field is not live.
LEMMA ParentTold ==
    ASSUME NEW live \in SUBSET Nodes, NEW m, NEW f \in Frames, FrameOK(f),
           Closed(live), Accounts(f, live, m), NEW c \in live, c \in Fields[f.at],
           \A k \in Nodes : c \in Fields[k] => k = f.at,
           NEW what \in {"Full", "Empty"},
           what = "Full" => Full(c, m), what = "Empty" => Empty(c, m)
    PROVE  /\ Told(f, c, what) \in Frames /\ FrameOK(Told(f, c, what))
           /\ Told(f, c, what).at = f.at /\ Told(f, c, what).cur = f.cur
           /\ Accounts(Told(f, c, what), live \ {c}, m)
<1> DEFINE g == Told(f, c, what)
<1>1. Composite(f)
  BY AroundLive
<1>2. /\ g \in Frames /\ FrameOK(g) /\ Composite(g) /\ g.at = f.at /\ g.cur = f.cur
      /\ g.iset = IF what = "Full" THEN f.iset \cup {c} ELSE f.iset \ {c}
  BY <1>1, ToldFacts
<1> HIDE DEF g
<1>3. \/ g.iset = f.iset \cup {c} /\ Full(c, m)
      \/ g.iset = f.iset \ {c} /\ Empty(c, m)
  BY <1>2
<1>4. Accounts(g, live \ {c}, m)
  BY <1>1, <1>2, <1>3, LeaveParent
<1> QED
  BY <1>2, <1>4 DEF g

\* The parent of a stored frame is found where it is: by path if it is stored,
\* by depth if it is on the stack.
LEMMA ParentFound ==
    ASSUME NEW s, NEW st, NEW m, Agree(s, st, m), s # << >>, NEW p \in DOMAIN st,
           NEW a \in Nodes, st[p].at \in Fields[a]
    PROVE  /\ ParentPath(p) \in DOMAIN st =>
                  /\ st[ParentPath(p)].at = a
                  /\ \A q \in DOMAIN st : st[q].at = a => q = ParentPath(p)
                  /\ a \notin StackPlaces(s)
           /\ ParentPath(p) \notin DOMAIN st =>
                  /\ Cardinality(p) \in 1..Len(s) /\ Cardinality(p) <= Len(s)
                  /\ s[Cardinality(p)].at = a
                  /\ a \notin StoredPlaces(st)
<1> DEFINE n == st[p].at
<1>1. StackDescends(s) /\ StoredFiled(s, st) /\ Closed(Places(s, st))
  BY DEF Agree
<1>2. n \in Nodes /\ n \in Below[a] /\ n \in Places(s, st)
  BY LiveFacts, FieldInside
<1>3. a \in Places(s, st)
  BY <1>1, <1>2 DEF Closed
<1>4. p = FullPath(n) /\ ParentPath(p) = FullPath(a)
  BY <1>1, ParentOfPath DEF StoredFiled
<1>5. CASE ParentPath(p) \in DOMAIN st
  <2>1. st[ParentPath(p)].at = a
    <3>1. st[ParentPath(p)].at \in Nodes
      BY <1>5, LiveFacts
    <3>2. FullPath(st[ParentPath(p)].at) = FullPath(a)
      BY <1>1, <1>4, <1>5 DEF StoredFiled
    <3> QED
      BY <3>1, <3>2, PathInjective
  <2>2. a \notin StackPlaces(s)
    BY <1>1, <1>5, <2>1 DEF StoredFiled
  <2>3. \A q \in DOMAIN st : st[q].at = a => q = ParentPath(p)
    BY <1>5, <2>1, LiveFacts
  <2> QED
    BY <1>5, <2>1, <2>2, <2>3
<1>6. CASE ParentPath(p) \notin DOMAIN st
  <2>1. a \notin StoredPlaces(st)
    BY <1>1, <1>4, <1>6 DEF StoredFiled, StoredPlaces
  <2>2. PICK i \in 1..Len(s) : s[i].at = a
    BY <1>3, <2>1 DEF Places, StackPlaces
  <2>3. Depth(a) = i - 1 /\ Depth(n) = Depth(a) + 1
    BY <1>1, <2>2, DepthOfField DEF StackDescends
  <2>4. Cardinality(p) = Depth(n)
    BY <1>4 DEF Depth
  <2>5. Cardinality(p) = i /\ Len(s) \in Nat
    BY <1>1, <2>2, <2>3, <2>4, StackFacts
  <2> QED
    BY <1>6, <2>1, <2>2, <2>5
<1> QED
  BY <1>5, <1>6

\* The stored frames and the stack once a stored frame has been taken out and
\* its parent, wherever it is, told what the place holds.
StoredAfterTake(st, p, what) ==
    [q \in DOMAIN st \ {p} |->
        IF q = ParentPath(p) THEN Told(st[q], st[p].at, what) ELSE st[q]]
StackAfterTake(s, st, p, what) ==
    IF ParentPath(p) \notin DOMAIN st /\ Cardinality(p) <= Len(s)
    THEN [s EXCEPT ![Cardinality(p)] = Told(s[Cardinality(p)], st[p].at, what)] ELSE s

\* A stored frame is taken out.
LEMMA StoredTaken ==
    ASSUME NEW s, NEW st, NEW m, Agree(s, st, m), s # << >>, NEW p \in DOMAIN st,
           Places(s, st) \cap Inside(st[p].at) = {},
           NEW what \in {"Full", "Empty"},
           what = "Full" => Full(st[p].at, m),
           what = "Empty" => Empty(st[p].at, m)
    PROVE  /\ Agree(StackAfterTake(s, st, p, what), StoredAfterTake(st, p, what), m)
           /\ Len(StackAfterTake(s, st, p, what)) = Len(s)
           /\ \A i \in 1..Len(s) : StackAfterTake(s, st, p, what)[i].cur = s[i].cur
<1> DEFINE live == Places(s, st)
           n == st[p].at
           s2 == StackAfterTake(s, st, p, what)
           st2 == StoredAfterTake(st, p, what)
<1>0. /\ st2 = [q \in DOMAIN st \ {p} |->
                    IF q = ParentPath(p) THEN Told(st[q], n, what) ELSE st[q]]
      /\ s2 = IF ParentPath(p) \notin DOMAIN st /\ Cardinality(p) <= Len(s)
              THEN [s EXCEPT ![Cardinality(p)] = Told(s[Cardinality(p)], n, what)] ELSE s
  BY DEF StackAfterTake, StoredAfterTake
<1> HIDE DEF s2, st2
<1>1. StackDescends(s) /\ StoredFiled(s, st) /\ m \in [Leaves -> Contents]
  BY DEF Agree
<1>2. live \in SUBSET Nodes /\ Closed(live) /\ n \in live /\ n \in Nodes /\ n # Root
  BY LiveFacts
<1>3. PICK a \in Nodes : n \in Fields[a] /\ \A k \in Nodes : n \in Fields[k] => k = a
  BY <1>2, HasParent
<1>4. Closed(live \ {n})
  BY <1>2, ClosedWithout
<1>5. ASSUME NEW e \in Frames, FrameOK(e), Accounts(e, live, m)
      PROVE  /\ e.at # a => Accounts(e, live \ {n}, m)
             /\ e.at = a =>
                  LET g == Told(e, n, what) IN
                  /\ g \in Frames /\ FrameOK(g) /\ g.at = e.at /\ g.cur = e.cur
                  /\ Accounts(g, live \ {n}, m)
  <2>1. CASE e.at # a
    <3>1. e.at \in Nodes
      BY DEF Frames
    <3>2. n \notin Fields[e.at]
      BY <1>3, <2>1, <3>1
    <3> QED
      BY <1>5, <2>1, <3>2, Leave
  <2>2. CASE e.at = a
    <3>1. n \in Fields[e.at] /\ n \in live
      BY <1>2, <1>3, <2>2
    <3>2. (what = "Full" => Full(n, m)) /\ (what = "Empty" => Empty(n, m))
      OBVIOUS
    <3>3. \A k \in Nodes : n \in Fields[k] => k = e.at
      BY <1>3, <2>2
    <3>4. Closed(live) /\ live \in SUBSET Nodes /\ FrameOK(e) /\ Accounts(e, live, m)
      BY <1>2, <1>5
    <3> HIDE DEF n, live
    <3>5. /\ Told(e, n, what) \in Frames /\ FrameOK(Told(e, n, what))
          /\ Told(e, n, what).at = e.at /\ Told(e, n, what).cur = e.cur
          /\ Accounts(Told(e, n, what), live \ {n}, m)
      BY <1>2, <1>5, <2>2, <3>1, <3>2, <3>3, <3>4, ParentTold
    <3> QED
      BY <2>2, <3>5
  <2> QED
    BY <2>1, <2>2
<1>6. DOMAIN st2 = DOMAIN st \ {p}
  BY <1>0
<1>7. \A q \in DOMAIN st2 : st[q] \in Frames /\ FrameOK(st[q]) /\ Accounts(st[q], live, m)
  BY <1>1, <1>6, LiveFacts DEF StoredFiled, Agree
<1>8. \A i \in 1..Len(s) : s[i] \in Frames /\ FrameOK(s[i]) /\ Accounts(s[i], live, m)
  BY <1>1, StackFacts DEF StackDescends, Agree
<1>9. /\ StackDescends(s2) /\ Len(s2) = Len(s) /\ StackPlaces(s2) = StackPlaces(s)
      /\ \A i \in 1..Len(s) : s2[i].cur = s[i].cur /\ s2[i].at = s[i].at
      /\ \A i \in 1..Len(s) : Accounts(s2[i], live \ {n}, m)
  <2>1. CASE ParentPath(p) \in DOMAIN st
    <3>1. s2 = s /\ a \notin StackPlaces(s)
      BY <1>0, <1>3, <2>1, ParentFound
    <3>2. \A i \in 1..Len(s) : s[i].at # a
      BY <3>1 DEF StackPlaces
    <3> QED
      BY <1>1, <1>5, <1>8, <3>1, <3>2
  <2>2. CASE ParentPath(p) \notin DOMAIN st
    <3> DEFINE k == Cardinality(p)
               g == Told(s[k], n, what)
               t == [s EXCEPT ![k] = g]
    <3>1. k \in 1..Len(s) /\ k <= Len(s) /\ s[k].at = a
      BY <1>3, <2>2, ParentFound
    <3>2. s2 = t
      BY <1>0, <2>2, <3>1
    <3>3. /\ g \in Frames /\ FrameOK(g) /\ g.at = s[k].at /\ g.cur = s[k].cur
          /\ Accounts(g, live \ {n}, m)
      BY <1>5, <1>8, <3>1
    <3> HIDE DEF g, k
    <3>4. /\ StackDescends(s2) /\ Len(s2) = Len(s) /\ StackPlaces(s2) = StackPlaces(s)
          /\ \A i \in 1..Len(s) : s2[i] = IF i = k THEN g ELSE s[i]
      <4>1. /\ StackDescends(t) /\ Len(t) = Len(s) /\ StackPlaces(t) = StackPlaces(s)
            /\ \A i \in 1..Len(s) : t[i] = IF i = k THEN g ELSE s[i]
        BY <1>1, <3>1, <3>3, StackUpdate
      <4> HIDE DEF t
      <4> QED
        BY <3>2, <4>1
    <3>5. \A i \in 1..Len(s) : i # k => s[i].at # a
      BY <1>1, <3>1, StackFacts
    <3>6. ASSUME NEW i \in 1..Len(s)
          PROVE  /\ s2[i].cur = s[i].cur /\ s2[i].at = s[i].at
                 /\ Accounts(s2[i], live \ {n}, m)
      <4>1. CASE i = k
        BY <3>3, <3>4, <4>1
      <4>2. CASE i # k
        <5>1. s2[i] = s[i] /\ s[i].at # a
          BY <3>4, <3>5, <4>2
        <5>2. Accounts(s[i], live \ {n}, m)
          BY <1>5, <1>8, <5>1
        <5> QED
          BY <5>1, <5>2
      <4> QED
        BY <4>1, <4>2
    <3> QED
      BY <3>4, <3>6
  <2> QED
    BY <2>1, <2>2
<1>10. ASSUME NEW q \in DOMAIN st2
       PROVE  FrameOK(st2[q]) /\ st2[q].at = st[q].at /\ Accounts(st2[q], live \ {n}, m)
  <2>1. CASE q = ParentPath(p)
    <3>1. st2[q] = Told(st[q], n, what)
      BY <1>0, <1>6, <2>1
    <3>2. st[q].at = a
      BY <1>3, <1>6, <2>1, ParentFound
    <3> QED
      BY <1>5, <1>7, <3>1, <3>2
  <2>2. CASE q # ParentPath(p)
    <3>1. st2[q] = st[q]
      BY <1>0, <1>6, <2>2
    <3>2. st[q].at # a
      <4>1. ParentPath(p) \in DOMAIN st => \A r \in DOMAIN st : st[r].at = a => r = ParentPath(p)
        BY <1>3, ParentFound
      <4>2. ParentPath(p) \notin DOMAIN st => a \notin StoredPlaces(st)
        BY <1>3, ParentFound
      <4> QED
        BY <1>6, <2>2, <4>1, <4>2 DEF StoredPlaces
    <3> QED
      BY <1>5, <1>7, <3>1, <3>2
  <2> QED
    BY <2>1, <2>2
<1>11. StoredPlaces(st2) = StoredPlaces(st) \ {n}
  <2>1. \A q \in DOMAIN st : st[q].at = n => q = p
    BY LiveFacts
  <2> QED
    BY <1>6, <1>10, <2>1 DEF StoredPlaces
<1>12. n \notin StackPlaces(s)
  BY <1>1 DEF StoredFiled
<1>13. Places(s2, st2) = live \ {n}
  BY <1>9, <1>11, <1>12 DEF Places
<1>14. StoredFiled(s2, st2)
  BY <1>1, <1>6, <1>9, <1>10 DEF StoredFiled
<1> HIDE DEF live, n
<1>15. Agree(s2, st2, m)
  BY <1>1, <1>4, <1>9, <1>10, <1>13, <1>14 DEF Agree
<1> QED
  BY <1>9, <1>15 DEF s2, st2

-----------------------------------------------------------------------------
(* Frames are entered, stored and restored *)

\* A stored frame at the greatest depth has nothing live inside its place.
LEMMA DeepestFree ==
    ASSUME NEW s, NEW st, NEW m, Agree(s, st, m), NEW p \in DOMAIN st,
           \A q \in DOMAIN st : Cardinality(q) <= Cardinality(p)
    PROVE  Places(s, st) \cap Inside(st[p].at) = {}
<1> DEFINE n == st[p].at
<1>1. SUFFICES ASSUME NEW d \in Places(s, st), d \in Inside(n) PROVE FALSE
  OBVIOUS
<1>2. StoredFiled(s, st) /\ n \in Nodes
  BY LiveFacts DEF Agree
<1>3. CASE d \in StackPlaces(s)
  <2>1. PICK i \in 1..Len(s) : d = s[i].at
    BY <1>3 DEF StackPlaces
  <2> QED
    BY <1>1, <2>1, LiveFacts DEF Inside
<1>4. CASE d \in StoredPlaces(st)
  <2>1. PICK q \in DOMAIN st : d = st[q].at
    BY <1>4 DEF StoredPlaces
  <2>2. Cardinality(q) = Depth(d) /\ Cardinality(p) = Depth(n)
    BY <1>2, <2>1 DEF StoredFiled, Depth
  <2>3. Depth(n) < Depth(d) /\ Depth(n) \in Nat /\ Depth(d) \in Nat
    BY <1>1, <1>2, <2>1, LiveFacts, DeeperInside, DepthNat
  <2> QED
    BY <2>2, <2>3
<1> QED
  BY <1>1, <1>3, <1>4 DEF Places

\* Nor has the top of the stack, if nothing inside its place is stored.
LEMMA TopFree ==
    ASSUME NEW s, NEW st, NEW m, Agree(s, st, m), s # << >>,
           \A p \in DOMAIN st : st[p].at \notin Inside(s[Len(s)].at)
    PROVE  Places(s, st) \cap Inside(s[Len(s)].at) = {}
  BY StackFacts DEF Agree, Places, StackPlaces, StoredPlaces

\* A field of the top place that has no frame is entered: g is the top frame
\* with the field given up, h the field's own frame.
LEMMA FieldEntered ==
    ASSUME NEW s, NEW st, NEW m, Agree(s, st, m), s # << >>,
           NEW c \in Fields[s[Len(s)].at], c \notin Places(s, st),
           NEW g, FrameOK(g), g.at = s[Len(s)].at, g.cur = c,
           Accounts(g, Places(s, st) \cup {c}, m),
           NEW h, FrameOK(h), h.at = c,
           Accounts(h, Places(s, st) \cup {c}, m)
    PROVE  Agree(Append([s EXCEPT ![Len(s)] = g], h), st, m)
<1> DEFINE live == Places(s, st)
           n == s[Len(s)].at
           s1 == [s EXCEPT ![Len(s)] = g]
           s2 == Append(s1, h)
<1>1. StackDescends(s) /\ StoredFiled(s, st) /\ m \in [Leaves -> Contents]
  BY DEF Agree
<1>2. Len(s) \in Nat /\ Len(s) \in 1..Len(s)
  BY <1>1, StackFacts
<1>3. /\ StackDescends(s2) /\ Len(s2) = Len(s) + 1
      /\ \A i \in 1..Len(s) : s2[i] = IF i = Len(s) THEN g ELSE s[i]
      /\ s2[Len(s) + 1] = h
      /\ StackPlaces(s2) = StackPlaces(s) \cup {c}
  <2>1. /\ StackDescends(s1) /\ Len(s1) = Len(s) /\ StackPlaces(s1) = StackPlaces(s)
        /\ \A i \in 1..Len(s) : s1[i] = IF i = Len(s) THEN g ELSE s[i]
    BY <1>1, <1>2, StackUpdate
  <2> HIDE DEF s1
  <2>2. s1 # << >> /\ s1[Len(s1)] = g
    BY <1>2, <2>1
  <2>3. /\ StackDescends(s2) /\ Len(s2) = Len(s1) + 1
        /\ \A i \in 1..Len(s1) : s2[i] = s1[i]
        /\ s2[Len(s1) + 1] = h
        /\ StackPlaces(s2) = StackPlaces(s1) \cup {c}
    BY <1>1, <2>1, <2>2, StackPush
  <2> QED
    BY <2>1, <2>3
<1> HIDE DEF s2
<1>4. live \in SUBSET Nodes /\ Closed(live) /\ n \in live /\ n \in Nodes
  BY <1>2, LiveFacts
<1>5. \A p \in DOMAIN st : st[p].at # c
  BY LiveFacts
<1>6. StoredFiled(s2, st) /\ Places(s2, st) = live \cup {c}
  BY <1>1, <1>3, <1>5 DEF StoredFiled, Places
<1>7. Closed(live \cup {c})
  <2>1. ASSUME NEW k \in Nodes, c \in Below[k], k # c PROVE n \in Below[k]
    BY <1>4, <2>1, ParentInside
  <2> QED
    BY <1>4, <2>1 DEF Closed
<1>8. ASSUME NEW i \in 1..Len(s), i # Len(s) PROVE Accounts(s2[i], live \cup {c}, m)
  <2>1. s[i] \in Frames /\ s[i].at # n
    BY <1>1, <1>2, <1>8, StackFacts
  <2>2. s[i].at \in live /\ Accounts(s[i], live, m)
    BY LiveFacts DEF Agree
  <2>3. Accounts(s[i], live \cup {c}, m)
    BY <1>4, <2>1, <2>2, Enter
  <2> QED
    BY <1>3, <1>8, <2>3
<1>9. ASSUME NEW p \in DOMAIN st PROVE Accounts(st[p], live \cup {c}, m)
  <2>1. /\ st[p] \in Frames /\ st[p].at # n /\ st[p].at \in live
        /\ Accounts(st[p], live, m)
    BY <1>2, LiveFacts DEF Agree
  <2> QED
    BY <1>4, <2>1, Enter
<1>10. ASSUME NEW i \in 1..Len(s2) PROVE Accounts(s2[i], live \cup {c}, m)
  <2>1. i \in 1..Len(s) \/ i = Len(s) + 1
    BY <1>2, <1>3
  <2>2. CASE i = Len(s) + 1
    BY <1>3, <2>2
  <2>3. CASE i \in 1..Len(s) /\ i # Len(s)
    BY <1>8, <2>3
  <2>4. CASE i \in 1..Len(s) /\ i = Len(s)
    BY <1>3, <2>4
  <2> QED
    BY <2>1, <2>2, <2>3, <2>4
<1> HIDE DEF live, n
<1>11. Agree(s2, st, m)
  BY <1>1, <1>3, <1>6, <1>7, <1>9, <1>10 DEF Agree
<1> QED
  BY <1>11 DEF s2, s1

\* A frame stored for a field of the top place comes back.
LEMMA FrameRestored ==
    ASSUME NEW s, NEW st, NEW m, Agree(s, st, m), s # << >>, NEW p \in DOMAIN st,
           st[p].at \in Fields[s[Len(s)].at], Composite(s[Len(s)])
    PROVE  Agree(Append([s EXCEPT ![Len(s)] = SetChild(s[Len(s)], st[p].at)],
                        ClearChild(st[p])),
                 [q \in DOMAIN st \ {p} |-> st[q]], m)
<1> DEFINE live == Places(s, st)
           t == s[Len(s)]
           c == st[p].at
           g == SetChild(t, c)
           h == ClearChild(st[p])
           s1 == [s EXCEPT ![Len(s)] = g]
           s2 == Append(s1, h)
           st2 == [q \in DOMAIN st \ {p} |-> st[q]]
<1>1. StackDescends(s) /\ StoredFiled(s, st) /\ m \in [Leaves -> Contents]
  BY DEF Agree
<1>2. Len(s) \in Nat /\ Len(s) \in 1..Len(s) /\ t \in Frames /\ FrameOK(t) /\ t.at \in Nodes
  BY <1>1, StackFacts DEF StackDescends
<1>3. st[p] \in Frames /\ FrameOK(st[p]) /\ c \in Nodes /\ c \notin StackPlaces(s)
  BY <1>1, LiveFacts DEF StoredFiled
<1>4. /\ g \in Frames /\ g.at = t.at /\ g.isInit = t.isInit /\ g.tracker = t.tracker
      /\ g.iset = t.iset /\ g.cur = c
  BY <1>2, <1>3 DEF SetChild, Frames
<1>5. /\ h \in Frames /\ h.at = c /\ h.isInit = st[p].isInit /\ h.tracker = st[p].tracker
      /\ h.iset = st[p].iset /\ h.cur = NoChild
  BY <1>3 DEF ClearChild, Frames
<1> HIDE DEF g, h
<1>6. FrameOK(g) /\ (Composite(g) <=> Composite(t))
  BY <1>2, <1>4 DEF FrameOK, Composite
<1>7. FrameOK(h) /\ (Composite(h) <=> Composite(st[p]))
  BY <1>3, <1>5 DEF FrameOK, Composite
<1>8. /\ StackDescends(s2) /\ Len(s2) = Len(s) + 1
      /\ \A i \in 1..Len(s) : s2[i] = IF i = Len(s) THEN g ELSE s[i]
      /\ s2[Len(s) + 1] = h
      /\ StackPlaces(s2) = StackPlaces(s) \cup {c}
  <2>1. /\ StackDescends(s1) /\ Len(s1) = Len(s) /\ StackPlaces(s1) = StackPlaces(s)
        /\ \A i \in 1..Len(s) : s1[i] = IF i = Len(s) THEN g ELSE s[i]
    BY <1>1, <1>2, <1>4, <1>6, StackUpdate
  <2> HIDE DEF s1
  <2>2. s1 # << >> /\ s1[Len(s1)] = g
    BY <1>2, <2>1
  <2>3. /\ StackDescends(s2) /\ Len(s2) = Len(s1) + 1
        /\ \A i \in 1..Len(s1) : s2[i] = s1[i]
        /\ s2[Len(s1) + 1] = h
        /\ StackPlaces(s2) = StackPlaces(s1) \cup {c}
    BY <1>4, <1>5, <1>6, <1>7, <2>1, <2>2, StackPush
  <2> QED
    BY <2>1, <2>3
<1> HIDE DEF s2
<1>9. DOMAIN st2 = DOMAIN st \ {p} /\ \A q \in DOMAIN st2 : st2[q] = st[q]
  OBVIOUS
<1> HIDE DEF st2
<1>10. \A q \in DOMAIN st : st[q].at = c => q = p
  BY LiveFacts
<1>11. StoredPlaces(st2) = StoredPlaces(st) \ {c}
  BY <1>9, <1>10 DEF StoredPlaces
<1>12. c \in StoredPlaces(st)
  BY DEF StoredPlaces
<1>13. Places(s2, st2) = live /\ Closed(live)
  <2>1. Closed(live)
    BY LiveFacts
  <2> HIDE DEF c
  <2> QED
    BY <1>8, <1>11, <1>12, <2>1 DEF Places
<1>14. StoredFiled(s2, st2)
  BY <1>1, <1>8, <1>9, <1>10 DEF StoredFiled
<1>15. Accounts(t, live, m) /\ Accounts(st[p], live, m)
  BY <1>2 DEF Agree
<1>16. Accounts(g, live, m)
  BY <1>2, <1>4, <1>6, <1>15, BitOfLive
<1>17. Accounts(h, live, m)
  BY <1>3, <1>5, <1>7, <1>15, BitOfLive
<1>18. ASSUME NEW i \in 1..Len(s2) PROVE Accounts(s2[i], live, m)
  <2>1. \A j \in 1..Len(s) : Accounts(s[j], live, m)
    BY DEF Agree
  <2>2. i \in 1..Len(s) \/ i = Len(s) + 1
    BY <1>2, <1>8
  <2>3. CASE i = Len(s) + 1
    BY <1>8, <1>17, <2>3
  <2>4. CASE i \in 1..Len(s) /\ i # Len(s)
    BY <1>8, <2>1, <2>4
  <2>5. CASE i \in 1..Len(s) /\ i = Len(s)
    BY <1>8, <1>16, <2>5
  <2> QED
    BY <2>2, <2>3, <2>4, <2>5
<1>19. \A q \in DOMAIN st2 : Accounts(st2[q], live, m)
  BY <1>9 DEF Agree
<1> HIDE DEF live
<1>20. Agree(s2, st2, m)
  BY <1>1, <1>8, <1>13, <1>14, <1>18, <1>19 DEF Agree
<1> QED
  BY <1>20 DEF s2, s1, st2, g, h

\* The stack and the stored frames after end() in deferred mode.
StackAfterEnd(s) ==
    [Pop(s) EXCEPT ![Len(s) - 1] = ClearChild(Mark(s[Len(s) - 1], s[Len(s)].at))]
StoredAfterEnd(s, st, p) ==
    [q \in DOMAIN st \cup {p} |-> IF q = p THEN s[Len(s)] ELSE st[q]]

\* end() in deferred mode: the top frame is stored under the path of its place,
\* and its parent's bit set whatever the place holds.
LEMMA FrameStored ==
    ASSUME NEW s, NEW st, NEW m, Agree(s, st, m), Len(s) > 1,
           NEW p, p = FullPath(s[Len(s)].at)
    PROVE  Agree(StackAfterEnd(s), StoredAfterEnd(s, st, p), m)
<1> DEFINE live == Places(s, st)
           t == s[Len(s)]
           n == t.at
           u == s[Len(s) - 1]
           g == ClearChild(Mark(u, n))
           s2 == [Pop(s) EXCEPT ![Len(s) - 1] = g]
           st2 == [q \in DOMAIN st \cup {p} |-> IF q = p THEN t ELSE st[q]]
<1>1. StackDescends(s) /\ StoredFiled(s, st) /\ m \in [Leaves -> Contents]
  BY DEF Agree
<1>2. /\ Len(s) \in Nat /\ Len(s) \in 1..Len(s) /\ Len(s) - 1 \in 1..Len(s)
      /\ s # << >> /\ Len(s) - 1 < Len(s) /\ (Len(s) - 1) + 1 = Len(s)
  BY <1>1, StackFacts DEF StackDescends
<1>3. /\ t \in Frames /\ FrameOK(t) /\ n \in Nodes
      /\ u \in Frames /\ FrameOK(u) /\ u.at \in Nodes /\ n \in Fields[u.at]
  BY <1>1, <1>2, StackFacts DEF StackDescends
<1>4. Accounts(t, live, m) /\ Accounts(u, live, m) /\ n \in live
  BY <1>2, LiveFacts DEF Agree
<1>5. Composite(u)
  BY <1>3, <1>4, AroundLive
<1>6. /\ g \in Frames /\ g.at = u.at /\ g.isInit = u.isInit /\ g.tracker = u.tracker
      /\ g.iset = u.iset \cup {n} /\ g.cur = NoChild
  BY <1>3, <1>5 DEF ClearChild, Mark, BitSet, Frames
<1> HIDE DEF g
<1>7. FrameOK(g) /\ (Composite(g) <=> Composite(u))
  BY <1>3, <1>5, <1>6 DEF FrameOK, Composite
<1>8. /\ StackDescends(s2) /\ Len(s2) = Len(s) - 1
      /\ \A i \in 1..(Len(s) - 1) : s2[i] = IF i = Len(s) - 1 THEN g ELSE s[i]
      /\ StackPlaces(s2) = StackPlaces(s) \ {n}
  BY <1>1, <1>6, <1>7, StackPop
<1> HIDE DEF s2
<1>9. p \notin DOMAIN st
  <2>1. SUFFICES ASSUME p \in DOMAIN st PROVE FALSE
    OBVIOUS
  <2>2. st[p].at \in Nodes /\ FullPath(st[p].at) = FullPath(n)
    BY <1>1, <2>1, LiveFacts DEF StoredFiled
  <2>3. st[p].at = n
    BY <1>3, <2>2, PathInjective
  <2> QED
    BY <1>2, <2>1, <2>3, LiveFacts
<1>10. /\ DOMAIN st2 = DOMAIN st \cup {p} /\ st2[p] = t
       /\ \A q \in DOMAIN st : st2[q] = st[q]
  BY <1>9
<1> HIDE DEF st2
<1>11. StoredPlaces(st2) = StoredPlaces(st) \cup {n}
  BY <1>10 DEF StoredPlaces
<1>12. n \in StackPlaces(s)
  BY <1>2 DEF StackPlaces
<1>13. Places(s2, st2) = live /\ Closed(live)
  BY <1>8, <1>11, <1>12, LiveFacts DEF Places
<1>14. StoredFiled(s2, st2)
  BY <1>1, <1>3, <1>8, <1>10 DEF StoredFiled
<1>15. Accounts(g, live, m)
  <2>1. \A c \in Fields[u.at] \ live : c \in g.iset <=> c \in u.iset
    BY <1>4, <1>6
  <2> QED
    BY <1>3, <1>4, <1>6, <1>7, <2>1, BitOfLive
<1>16. ASSUME NEW i \in 1..Len(s2) PROVE Accounts(s2[i], live, m)
  <2>1. \A j \in 1..Len(s) : Accounts(s[j], live, m)
    BY DEF Agree
  <2>2. i \in 1..(Len(s) - 1) /\ i \in 1..Len(s)
    <3>1. i \in 1..(Len(s) - 1)
      BY <1>8
    <3> HIDE DEF t
    <3> QED
      BY <1>2, <3>1
  <2>3. CASE i # Len(s) - 1
    BY <1>8, <2>1, <2>2, <2>3
  <2>4. CASE i = Len(s) - 1
    BY <1>8, <1>15, <2>2, <2>4
  <2> QED
    BY <2>3, <2>4
<1>17. \A q \in DOMAIN st2 : Accounts(st2[q], live, m)
  BY <1>4, <1>10 DEF Agree
<1> HIDE DEF live
<1>18. Agree(s2, st2, m)
  BY <1>1, <1>8, <1>13, <1>14, <1>16, <1>17 DEF Agree
<1> QED
  BY <1>18 DEF s2, st2, g, StackAfterEnd, StoredAfterEnd

\* Nothing is lost by starting over with no stored frames when there are none.
LEMMA FreshStore ==
    ASSUME NEW s, NEW st, NEW m, Agree(s, st, m), DOMAIN st = {}
    PROVE  Agree(s, << >>, m)
<1>1. DOMAIN << >> = {}
  OBVIOUS
<1>2. Places(s, << >>) = Places(s, st)
  BY <1>1 DEF Places, StoredPlaces
<1> QED
  BY <1>1, <1>2 DEF Agree, StoredFiled

-----------------------------------------------------------------------------
(* What the invariant says of the current state *)

\* The frame on top of the stack.
LEMMA TopFacts ==
    ASSUME OwnershipInv, stack # << >>
    PROVE  /\ Len(stack) \in Nat /\ Len(stack) \in 1..Len(stack)
           /\ Top \in Frames /\ FrameOK(Top) /\ Top.at \in Nodes
           /\ Top.at \in Places(stack, stored)
           /\ Accounts(Top, Places(stack, stored), mem)
           /\ Len(stack) = 1 => Top.at = Root
<1>1. StackDescends(stack)
  BY DEF OwnershipInv, Agree
<1>2. Len(stack) \in Nat /\ Len(stack) \in 1..Len(stack) /\ Top \in Frames /\ Top.at \in Nodes
  BY <1>1, StackFacts DEF Top
<1>3. FrameOK(Top) /\ (Len(stack) = 1 => Top.at = Root)
  BY <1>1, <1>2 DEF StackDescends, Top
<1>4. Top.at \in Places(stack, stored) /\ Accounts(Top, Places(stack, stored), mem)
  BY <1>2, LiveFacts DEF OwnershipInv, Agree, Top
<1> QED
  BY <1>2, <1>3, <1>4

\* With no stored frame inside it, the top place has nothing live inside it.
LEMMA TopClear ==
    ASSUME OwnershipInv, stack # << >>,
           \/ DOMAIN stored = {}
           \/ \A p \in DOMAIN stored : stored[p].at \notin Inside(Top.at)
    PROVE  Places(stack, stored) \cap Inside(Top.at) = {}
  BY TopFree DEF OwnershipInv, Top

\* Where frames are stored there are no arrays: a stored frame's path ends in
\* the Field step to its place.
LEMMA StoredFacts ==
    ASSUME DocumentedUse, OwnershipInv, stack # << >>, NEW p \in DOMAIN stored
    PROVE  /\ stored[p] \in Frames /\ FrameOK(stored[p])
           /\ stored[p].at \in Nodes /\ stored[p].at # Root
           /\ p = FullPath(stored[p].at)
           /\ LastStep(p) = <<"Field", stored[p].at>>
           /\ stored[p].at \in Places(stack, stored)
           /\ Accounts(stored[p], Places(stack, stored), mem)
<1>1. Agree(stack, stored, mem) /\ \A n \in Nodes : Kind[n] # "array"
  BY DEF OwnershipInv, Phases, DocumentedUse
<1>2. /\ stored[p] \in Frames /\ stored[p].at # Root
      /\ stored[p].at \in Places(stack, stored)
  BY <1>1, LiveFacts
<1>3. /\ FrameOK(stored[p]) /\ p = FullPath(stored[p].at)
      /\ Accounts(stored[p], Places(stack, stored), mem)
  BY <1>1 DEF Agree, StoredFiled
<1>4. stored[p].at \in Nodes
  BY <1>2 DEF Frames
<1>5. LastStep(p) = StepTo(stored[p].at)
  BY <1>2, <1>3, <1>4, LastOfPath
<1>6. StepTo(stored[p].at) = <<"Field", stored[p].at>>
  BY <1>1, FieldSteps
<1> QED
  BY <1>2, <1>3, <1>4, <1>5, <1>6

\* Agreement, the phase and the outcome carry the type invariant with them.
LEMMA Reestablished ==
    ASSUME Agree(stack', stored', mem'), Phases', Outcome',
           mode' \in {"Strict", "Deferred"}, startDepth' \in Nat,
           phase' = "Active" => startDepth' <= Len(stack'),
           mode' = "Strict" => startDepth' = 0,
           phase' \in Building \cup {"Dropped", "Returning", "Built", "Moved"}
    PROVE  OwnershipInv'
<1>1. DOMAIN stored' \subseteq Paths \ {{}}
  <2>1. CASE stack' = << >>
    BY <2>1 DEF Phases
  <2>2. CASE stack' # << >>
    <3>1. SUFFICES ASSUME NEW p \in DOMAIN stored' PROVE p \in Paths \ {{}}
      OBVIOUS
    <3>2. stored'[p].at \in Nodes /\ stored'[p].at # Root
      BY <2>2, LiveFacts DEF Frames
    <3>3. p = FullPath(stored'[p].at)
      BY DEF Agree, StoredFiled
    <3> QED
      BY <3>2, <3>3, PathTyped
  <2> QED
    BY <2>1, <2>2
<1>2. /\ stack' \in Seq(Frames) /\ \A i \in 1..Len(stack') : FrameOK(stack'[i])
      /\ \A p \in DOMAIN stored' : FrameOK(stored'[p])
      /\ mem' \in [Leaves -> Contents]
  BY DEF Agree, StackDescends, StoredFiled
<1>3. /\ faults' = {} /\ buffer' \in {"Live", "Freed"}
      /\ phase' = "Active" => stack' # << >>
  BY DEF Outcome, Phases, Building
<1>4. phase' \in {"Active", "Walking", "Cleaning", "Dropping", "Dropped",
                  "Returning", "Built", "Moved"}
  BY DEF Building
<1>5. TypeOK'
  BY <1>1, <1>2, <1>3, <1>4 DEF TypeOK, Active
<1> QED
  BY <1>5 DEF OwnershipInv

-----------------------------------------------------------------------------
(* Memory written and dropped *)

\* Dropping what a frame owns is always of values, and leaves its place empty.
LEMMA DropOwned ==
    ASSUME NEW live, NEW e \in Frames, FrameOK(e), live \cap Inside(e.at) = {},
           NEW m \in [Leaves -> Contents], Accounts(e, live, m)
    PROVE  /\ DropFaults(m, Owned(e)) = {}
           /\ Wrote(m, Owned(e), "Uninit") \in [Leaves -> Contents]
           /\ \A l \in Leaves \ LeavesOf(e.at) : Wrote(m, Owned(e), "Uninit")[l] = m[l]
           /\ Empty(e.at, Wrote(m, Owned(e), "Uninit"))
<1> DEFINE m2 == Wrote(m, Owned(e), "Uninit")
<1>1. /\ Owned(e) \subseteq LeavesOf(e.at)
      /\ \A l \in LeavesOf(e.at) : l \in Owned(e) <=> m[l] # "Uninit"
  BY OwnedExact
<1>2. DropFaults(m, Owned(e)) = {}
  BY <1>1 DEF DropFaults
<1>3. /\ m2 \in [Leaves -> Contents]
      /\ \A l \in Leaves : m2[l] = IF l \in Owned(e) THEN "Uninit" ELSE m[l]
  BY WroteFacts DEF Contents
<1> HIDE DEF m2
<1>4. LeavesOf(e.at) \subseteq Leaves
  BY LeavesInNodes DEF Frames
<1> QED
  BY <1>1, <1>2, <1>3, <1>4 DEF Empty, m2

\* Filling writes only where there is nothing.
LEMMA FilledFacts ==
    ASSUME NEW live, NEW e \in Frames, NEW g, NEW W, NEW m \in [Leaves -> Contents],
           Filled(e, g, W, live, m)
    PROVE  /\ WriteFaults(m, W) = {}
           /\ Wrote(m, W, "Default") \in [Leaves -> Contents]
           /\ \A l \in Leaves \ LeavesOf(e.at) : Wrote(m, W, "Default")[l] = m[l]
<1>1. /\ Wrote(m, W, "Default") \in [Leaves -> Contents]
      /\ \A l \in Leaves : Wrote(m, W, "Default")[l] = IF l \in W THEN "Default" ELSE m[l]
  BY WroteFacts DEF Contents
<1> QED
  BY <1>1 DEF Filled, WriteFaults

\* A fresh frame for a place.
LEMMA NewFrameFacts ==
    ASSUME NEW n \in Nodes, NEW init \in BOOLEAN
    PROVE  /\ NewFrame(n, init) \in Frames /\ FrameOK(NewFrame(n, init))
           /\ NewFrame(n, init).at = n /\ NewFrame(n, init).cur = NoChild
           /\ (NewFrame(n, init).isInit <=> init) /\ ~Composite(NewFrame(n, init))
  BY DEF NewFrame, Frames, FrameOK, Composite

\* Once the last frame is gone there is nothing left to agree on.
LEMMA AgreeGone ==
    ASSUME NEW st, DOMAIN st = {}, NEW m \in [Leaves -> Contents]
    PROVE  Agree(<< >>, st, m)
<1>1. StackDescends(<< >>) /\ StackPlaces(<< >>) = {}
  BY DEF StackDescends, StackPlaces
<1>2. StoredFiled(<< >>, st) /\ Places(<< >>, st) = {}
  BY <1>1 DEF StoredFiled, Places, StoredPlaces
<1> QED
  BY <1>1, <1>2 DEF Agree, Closed

-----------------------------------------------------------------------------
(* The frame on top of the stack *)

\* The frame and the memory of the top place change; nothing is live inside it.
LEMMA TopChanges ==
    ASSUME OwnershipInv, stack # << >>,
           \/ DOMAIN stored = {}
           \/ \A p \in DOMAIN stored : stored[p].at \notin Inside(Top.at),
           NEW g, FrameOK(g), g.at = Top.at,
           NEW m2 \in [Leaves -> Contents],
           \A l \in Leaves \ LeavesOf(Top.at) : m2[l] = mem[l],
           Accounts(g, Places(stack, stored), m2)
    PROVE  /\ Agree(SetTop(g), stored, m2)
           /\ SetTop(g) # << >> /\ Len(SetTop(g)) = Len(stack)
           /\ SetTop(g)[Len(stack)] = g
<1> DEFINE s2 == [stack EXCEPT ![Len(stack)] = g]
<1>1. Agree(stack, stored, mem) /\ Top = stack[Len(stack)]
  BY DEF OwnershipInv, Top
<1>2. Places(stack, stored) \cap Inside(Top.at) = {}
  BY TopClear
<1>3. Agree(s2, stored, m2)
  BY <1>1, <1>2, TopUpdated
<1>4. stack \in Seq(Frames) /\ Len(stack) \in Nat /\ Len(stack) \in 1..Len(stack)
  BY TopFacts DEF OwnershipInv, TypeOK
<1>5. Len(s2) = Len(stack) /\ s2[Len(stack)] = g /\ s2 # << >>
  BY <1>4
<1> QED
  BY <1>3, <1>5 DEF SetTop

\* What the top frame owns is dropped.
LEMMA TopDropped ==
    ASSUME OwnershipInv, stack # << >>,
           \/ DOMAIN stored = {}
           \/ \A p \in DOMAIN stored : stored[p].at \notin Inside(Top.at)
    PROVE  /\ DropFaults(mem, Owned(Top)) = {}
           /\ Wrote(mem, Owned(Top), "Uninit") \in [Leaves -> Contents]
           /\ \A l \in Leaves \ LeavesOf(Top.at) :
                 Wrote(mem, Owned(Top), "Uninit")[l] = mem[l]
           /\ Empty(Top.at, Wrote(mem, Owned(Top), "Uninit"))
<1>1. mem \in [Leaves -> Contents]
  BY DEF OwnershipInv, TypeOK
<1>2. Places(stack, stored) \cap Inside(Top.at) = {}
  BY TopClear
<1>3. Top \in Frames /\ FrameOK(Top) /\ Accounts(Top, Places(stack, stored), mem)
  BY TopFacts
<1> QED
  BY <1>1, <1>2, <1>3, DropOwned

\* set and its kin.
LEMMA SetToStep ==
    ASSUME DocumentedUse, OwnershipInv, NEW v \in {"Set", "Default"}, SetTo(v)
    PROVE  OwnershipInv'
<1> DEFINE n == Top.at
           live == Places(stack, stored)
           m1 == Wrote(mem, Owned(Top), "Uninit")
           m2 == Wrote(m1, LeavesOf(n), v)
           g == NewFrame(n, TRUE)
<1>1. /\ Active /\ stack # << >> /\ MayReplace /\ mem \in [Leaves -> Contents]
      /\ faults = {}
  BY DEF SetTo, OwnershipInv, TypeOK, Phases, Outcome, Active, Building
<1>2. \A p \in DOMAIN stored : stored[p].at \notin Inside(Top.at)
  BY <1>1 DEF MayReplace, DocumentedUse, Inside
<1>3. live \cap Inside(n) = {}
  BY <1>1, <1>2, TopClear
<1>4. Top \in Frames /\ FrameOK(Top) /\ n \in Nodes /\ Accounts(Top, live, mem)
  BY <1>1, TopFacts
<1>5. /\ DropFaults(mem, Owned(Top)) = {} /\ m1 \in [Leaves -> Contents]
      /\ \A l \in Leaves \ LeavesOf(n) : m1[l] = mem[l]
      /\ Empty(n, m1)
  BY <1>1, <1>2, TopDropped
<1>6. mem' = m2 /\ faults' = faults \cup DropFaults(mem, Owned(Top)) \cup WriteFaults(m1, LeavesOf(n))
  BY DEF SetTo, ReplaceLeaves
<1> HIDE DEF m1
<1>7. m2 \in [Leaves -> Contents] /\ \A l \in Leaves : m2[l] = IF l \in LeavesOf(n) THEN v ELSE m1[l]
  BY <1>5, WroteFacts DEF Contents
<1> HIDE DEF m2
<1>8. LeavesOf(n) \subseteq Leaves
  BY <1>4, LeavesInNodes
<1>9. Full(n, m2)
  BY <1>7, <1>8 DEF Full
<1>10. \A l \in Leaves \ LeavesOf(n) : m2[l] = mem[l]
  BY <1>5, <1>7
<1>11. WriteFaults(m1, LeavesOf(n)) = {}
  BY <1>5 DEF WriteFaults, Empty
<1>12. g \in Frames /\ FrameOK(g) /\ g.at = n /\ g.cur = NoChild /\ g.isInit /\ ~Composite(g)
  BY <1>4, NewFrameFacts
<1> HIDE DEF g
<1>13. Accounts(g, live, m2)
  BY <1>3, <1>9, <1>12 DEF Accounts
<1>14. stack' = SetTop(g) /\ UNCHANGED <<mode, startDepth, stored, phase, buffer>>
  BY DEF SetTo, g
<1>15. /\ Agree(stack', stored', mem') /\ stack' # << >> /\ Len(stack') = Len(stack)
       /\ Top'.cur = NoChild
  BY <1>1, <1>2, <1>6, <1>7, <1>10, <1>12, <1>13, <1>14, TopChanges DEF Top
<1>16. faults' = {}
  BY <1>1, <1>5, <1>6, <1>11
<1>17. Phases' /\ Outcome'
  BY <1>1, <1>14, <1>15, <1>16 DEF OwnershipInv, Phases, Outcome, Active, Building
<1> QED
  BY <1>1, <1>14, <1>15, <1>17, Reestablished DEF OwnershipInv, TypeOK, Active, Building

\* A set that fails drops the old value first.
LEMMA SetFailsStep ==
    ASSUME DocumentedUse, OwnershipInv, SetFails
    PROVE  OwnershipInv'
<1> DEFINE n == Top.at
           live == Places(stack, stored)
           m2 == Wrote(mem, Owned(Top), "Uninit")
           g == NewFrame(n, FALSE)
<1>1. /\ Active /\ stack # << >> /\ MayReplace /\ mem \in [Leaves -> Contents]
      /\ faults = {}
  BY DEF SetFails, OwnershipInv, TypeOK, Phases, Outcome, Active, Building
<1>2. \A p \in DOMAIN stored : stored[p].at \notin Inside(Top.at)
  BY <1>1 DEF MayReplace, DocumentedUse, Inside
<1>3. live \cap Inside(n) = {}
  BY <1>1, <1>2, TopClear
<1>4. Top \in Frames /\ FrameOK(Top) /\ n \in Nodes /\ Accounts(Top, live, mem)
  BY <1>1, TopFacts
<1>5. /\ DropFaults(mem, Owned(Top)) = {} /\ m2 \in [Leaves -> Contents]
      /\ \A l \in Leaves \ LeavesOf(n) : m2[l] = mem[l]
      /\ Empty(n, m2)
  BY <1>1, <1>2, TopDropped
<1>6. mem' = m2 /\ faults' = faults \cup DropFaults(mem, Owned(Top))
  BY DEF SetFails, DropLeaves
<1> HIDE DEF m2
<1>7. g \in Frames /\ FrameOK(g) /\ g.at = n /\ ~g.isInit /\ ~Composite(g)
  BY <1>4, NewFrameFacts
<1>8. stack' = SetTop(g) /\ phase' = "Dropping" /\ UNCHANGED <<mode, startDepth, stored, buffer>>
  BY DEF SetFails, Deinited
<1> HIDE DEF g
<1>9. Accounts(g, live, m2)
  BY <1>3, <1>5, <1>7 DEF Accounts
<1>10. Agree(stack', stored', mem') /\ stack' # << >>
  BY <1>1, <1>2, <1>5, <1>6, <1>7, <1>8, <1>9, TopChanges
<1>11. faults' = {}
  BY <1>1, <1>5, <1>6
<1>12. Phases' /\ Outcome'
  BY <1>1, <1>8, <1>10, <1>11 DEF OwnershipInv, Phases, Outcome, Active, Building
<1> QED
  BY <1>8, <1>10, <1>12, Reestablished DEF OwnershipInv, TypeOK, Building

\* The top frame is filled from defaults while no frame is stored.
LEMMA TopFilled ==
    ASSUME OwnershipInv, stack # << >>, DOMAIN stored = {},
           NEW g, NEW W, Filled(Top, g, W, Places(stack, stored), mem)
    PROVE  /\ Agree(SetTop(g), stored, Wrote(mem, W, "Default"))
           /\ SetTop(g) # << >> /\ Len(SetTop(g)) = Len(stack)
           /\ SetTop(g)[Len(stack)] = g /\ g.cur \in {Top.cur, NoChild}
           /\ WriteFaults(mem, W) = {}
           /\ Wrote(mem, W, "Default") \in [Leaves -> Contents]
           /\ Complete(g) => Full(Top.at, Wrote(mem, W, "Default"))
<1> DEFINE m2 == Wrote(mem, W, "Default")
           live == Places(stack, stored)
<1>1. mem \in [Leaves -> Contents] /\ Top \in Frames
  BY TopFacts DEF OwnershipInv, TypeOK
<1>2. /\ WriteFaults(mem, W) = {} /\ m2 \in [Leaves -> Contents]
      /\ \A l \in Leaves \ LeavesOf(Top.at) : m2[l] = mem[l]
  BY <1>1, FilledFacts
<1>3. /\ g \in Frames /\ FrameOK(g) /\ g.at = Top.at /\ g.cur \in {Top.cur, NoChild}
      /\ Accounts(g, live, m2)
  BY DEF Filled
<1>4. live \cap Inside(g.at) = {}
  BY <1>3, TopClear
<1> HIDE DEF m2
<1>5. Complete(g) => Full(g.at, m2)
  BY <1>3, <1>4, CompleteFull
<1>6. /\ Agree(SetTop(g), stored, m2) /\ SetTop(g) # << >> /\ Len(SetTop(g)) = Len(stack)
      /\ SetTop(g)[Len(stack)] = g
  BY <1>2, <1>3, TopChanges
<1> QED
  BY <1>2, <1>3, <1>5, <1>6 DEF m2

\* fill_defaults and fill_and_require_fields on the top frame.
LEMMA TopFill ==
    ASSUME OwnershipInv, stack # << >>, DOMAIN stored = {}, NEW v \in BOOLEAN
    PROVE  Filled(Top, Fill(Top, v).frame, Fill(Top, v).leaves, Places(stack, stored), mem)
<1>1. /\ mem \in [Leaves -> Contents] /\ Top \in Frames /\ FrameOK(Top)
      /\ Accounts(Top, Places(stack, stored), mem)
  BY TopFacts DEF OwnershipInv, TypeOK
<1>2. Places(stack, stored) \cap Inside(Top.at) = {}
  BY TopClear
<1> QED
  BY <1>1, <1>2, FillOK

-----------------------------------------------------------------------------
(* Frames leave the stack *)

\* The frame below the top one is around it.
LEMMA BelowTop ==
    ASSUME OwnershipInv, Len(stack) > 1
    PROVE  LET u == stack[Len(stack) - 1] IN
           /\ u \in Frames /\ FrameOK(u) /\ Composite(u) /\ Top.at \in Fields[u.at]
<1> DEFINE u == stack[Len(stack) - 1]
<1>1. Agree(stack, stored, mem) /\ StackDescends(stack)
  BY DEF OwnershipInv, Agree
<1>2. /\ Len(stack) \in Nat /\ Len(stack) \in 1..Len(stack)
      /\ Len(stack) - 1 \in 1..Len(stack)
      /\ Len(stack) - 1 < Len(stack) /\ (Len(stack) - 1) + 1 = Len(stack)
  BY <1>1 DEF StackDescends
<1>3. u \in Frames /\ FrameOK(u) /\ Top.at \in Fields[u.at]
  BY <1>1, <1>2, StackFacts DEF StackDescends, Top
<1>4. Accounts(u, Places(stack, stored), mem) /\ Top.at \in Places(stack, stored)
  BY <1>1, <1>2, LiveFacts DEF Agree, Top
<1> QED
  BY <1>3, <1>4, AroundLive

\* A frame that is told about a field is one of the same place.
LEMMA FieldTold ==
    ASSUME NEW u \in Frames, FrameOK(u), Composite(u), NEW c \in Fields[u.at]
    PROVE  /\ FrameOK(ClearChild(BitSet(u, c))) /\ Composite(ClearChild(BitSet(u, c)))
           /\ ClearChild(BitSet(u, c)).at = u.at
           /\ ClearChild(BitSet(u, c)).iset = u.iset \cup {c}
           /\ ClearChild(BitSet(u, c)).cur = NoChild
           /\ FrameOK(BitUnset(u, c)) /\ Composite(BitUnset(u, c))
           /\ BitUnset(u, c).at = u.at
           /\ BitUnset(u, c).iset = u.iset \ {c}
<1> DEFINE g == ClearChild(BitSet(u, c))
           h == BitUnset(u, c)
<1>1. c \in Nodes
  BY FieldInside DEF Frames
<1>2. /\ g \in Frames /\ g.at = u.at /\ g.iset = u.iset \cup {c} /\ g.cur = NoChild
      /\ g.tracker = u.tracker
  BY <1>1 DEF ClearChild, BitSet, Frames
<1>3. /\ h \in Frames /\ h.at = u.at /\ h.iset = u.iset \ {c} /\ h.cur = u.cur
      /\ h.tracker = u.tracker
  BY DEF BitUnset, Frames
<1> HIDE DEF g, h
<1>4. FrameOK(g) /\ Composite(g)
  BY <1>2 DEF FrameOK, Composite
<1>5. FrameOK(h) /\ Composite(h)
  BY <1>3 DEF FrameOK, Composite
<1> QED
  BY <1>2, <1>3, <1>4, <1>5 DEF g, h

\* The top frame becomes g, then is popped; h is the frame below it, told what
\* the place holds.
LEMMA TopLeaves ==
    ASSUME OwnershipInv, Len(stack) > 1, DOMAIN stored = {},
           NEW g, FrameOK(g), g.at = Top.at,
           NEW m2 \in [Leaves -> Contents],
           \A l \in Leaves \ LeavesOf(Top.at) : m2[l] = mem[l],
           Accounts(g, Places(stack, stored), m2),
           NEW h, FrameOK(h), Composite(h), h.at = stack[Len(stack) - 1].at,
           \/ h.iset = stack[Len(stack) - 1].iset \cup {Top.at} /\ Full(Top.at, m2)
           \/ h.iset = stack[Len(stack) - 1].iset \ {Top.at} /\ Empty(Top.at, m2)
    PROVE  LET s2 == [Pop(stack) EXCEPT ![Len(stack) - 1] = h] IN
           /\ Agree(s2, stored, m2)
           /\ Len(s2) = Len(stack) - 1 /\ s2 # << >> /\ s2[Len(stack) - 1] = h
<1> DEFINE L == Len(stack)
           s1 == SetTop(g)
           s2 == [Pop(stack) EXCEPT ![L - 1] = h]
<1>1. stack # << >> /\ stack \in Seq(Frames) /\ L \in Nat /\ g \in Frames
  <2>1. stack \in Seq(Frames) /\ g \in Frames
    BY DEF OwnershipInv, TypeOK, FrameOK
  <2> QED
    BY <2>1
<1>2. Agree(s1, stored, m2) /\ Len(s1) = L /\ s1[L] = g
  BY <1>1, TopChanges
<1>3. s1[L - 1] = stack[L - 1]
  BY <1>1 DEF SetTop
<1>4. Pop(s1) = Pop(stack)
  <2>1. s1 \in Seq(Frames)
    BY <1>1 DEF SetTop
  <2>2. \A i \in 1..(L - 1) : s1[i] = stack[i]
    BY <1>1 DEF SetTop
  <2> HIDE DEF s1
  <2>3. /\ Pop(s1) \in Seq(Frames) /\ Len(Pop(s1)) = L - 1
        /\ \A i \in 1..(L - 1) : Pop(s1)[i] = s1[i]
    BY <1>1, <1>2, <2>1 DEF Pop
  <2>4. /\ Pop(stack) \in Seq(Frames) /\ Len(Pop(stack)) = L - 1
        /\ \A i \in 1..(L - 1) : Pop(stack)[i] = stack[i]
    BY <1>1 DEF Pop
  <2> QED
    BY <2>2, <2>3, <2>4
<1> HIDE DEF s1
<1>5. Places(s1, stored) \cap Inside(s1[L].at) = {}
  BY <1>1, <1>2, TopFree
<1>6. Agree([Pop(s1) EXCEPT ![Len(s1) - 1] = h], stored, m2)
  BY <1>1, <1>2, <1>3, <1>5, TopPopped
<1>7. Agree(s2, stored, m2)
  BY <1>2, <1>4, <1>6
<1>8. Len(s2) = L - 1 /\ s2 # << >> /\ s2[L - 1] = h
  <2>1. Pop(stack) \in Seq(Frames) /\ Len(Pop(stack)) = L - 1
    BY <1>1 DEF Pop
  <2>2. h \in Frames
    BY DEF FrameOK
  <2> QED
    BY <1>1, <2>1, <2>2
<1> QED
  BY <1>7, <1>8

-----------------------------------------------------------------------------
(* Strict mode *)

\* end().
LEMMA EndStrictStep ==
    ASSUME OwnershipInv, EndStrict
    PROVE  OwnershipInv'
<1> DEFINE full == Fill(Top, ViaPlan)
           m2 == Wrote(mem, full.leaves, "Default")
           u == stack[Len(stack) - 1]
           h == ClearChild(BitSet(u, Top.at))
<1>1. /\ stack # << >> /\ DOMAIN stored = {} /\ Len(stack) > 1
      /\ mem \in [Leaves -> Contents] /\ faults = {} /\ phase = "Active" /\ startDepth = 0
  BY DEF EndStrict, OwnershipInv, TypeOK, Phases, Outcome, Active, Building
<1>2. Filled(Top, full.frame, full.leaves, Places(stack, stored), mem)
  BY <1>1, TopFill DEF ViaPlan
<1>3. /\ Complete(full.frame) /\ mem' = m2 /\ faults' = faults \cup WriteFaults(mem, full.leaves)
      /\ stack' = [Pop(stack) EXCEPT ![Len(stack) - 1] = h]
      /\ UNCHANGED <<mode, startDepth, stored, phase, buffer>>
  <2>1. stack' = [Pop(stack) EXCEPT ![Len(stack) - 1] = ClearChild(BitSet(@, Top.at))]
    BY DEF EndStrict
  <2>2. Pop(stack)[Len(stack) - 1] = u
    <3>1. stack \in Seq(Frames)
      BY DEF OwnershipInv, TypeOK
    <3> QED
      BY <1>1, <3>1 DEF Pop
  <2>3. stack' = [Pop(stack) EXCEPT ![Len(stack) - 1] = h]
    BY <2>1, <2>2
  <2> QED
    BY <2>3 DEF EndStrict, WriteLeaves
<1> HIDE DEF full
<1>4. /\ WriteFaults(mem, full.leaves) = {} /\ m2 \in [Leaves -> Contents]
      /\ Full(Top.at, m2)
  BY <1>1, <1>2, <1>3, TopFilled
<1>5. \A l \in Leaves \ LeavesOf(Top.at) : m2[l] = mem[l]
  BY <1>1, <1>2, TopFacts, FilledFacts
<1>6. /\ FrameOK(full.frame) /\ full.frame.at = Top.at
      /\ Accounts(full.frame, Places(stack, stored), m2)
  BY <1>2 DEF Filled
<1> HIDE DEF m2
<1>7. /\ FrameOK(h) /\ Composite(h) /\ h.at = u.at /\ h.iset = u.iset \cup {Top.at}
      /\ h.cur = NoChild
  BY <1>1, BelowTop, FieldTold
<1> HIDE DEF h
<1>8. /\ Agree(stack', stored, m2)
      /\ Len(stack') = Len(stack) - 1 /\ stack' # << >> /\ stack'[Len(stack) - 1] = h
  BY <1>1, <1>3, <1>4, <1>5, <1>6, <1>7, TopLeaves
<1>9. Agree(stack', stored', mem') /\ stack' # << >> /\ Top'.cur = NoChild
  BY <1>3, <1>7, <1>8 DEF Top
<1>10. faults' = {}
  BY <1>1, <1>3, <1>4
<1>11. Phases' /\ Outcome'
  BY <1>1, <1>3, <1>9, <1>10 DEF OwnershipInv, Phases, Outcome, Active, Building
<1>12. startDepth' <= Len(stack')
  BY <1>1, <1>3, <1>8, TopFacts
<1> QED
  BY <1>1, <1>3, <1>9, <1>11, <1>12, Reestablished DEF OwnershipInv, TypeOK, Building

\* Filling some fields, then failing.
LEMMA FillFailsStep ==
    ASSUME OwnershipInv, Active, mode = "Strict", FillFails
    PROVE  OwnershipInv'
<1>1. /\ stack # << >> /\ DOMAIN stored = {}
      /\ mem \in [Leaves -> Contents] /\ faults = {}
  BY DEF OwnershipInv, TypeOK, Phases, Outcome, Active, Building
<1>2. PICK D \in SUBSET Defaultable(Top) :
         /\ WriteLeaves(FillFields(Top, D).leaves, "Default")
         /\ stack' = SetTop(IF Kind[Top.at] = "struct" THEN FillFields(Top, D).frame ELSE Top)
  BY DEF FillFails
<1>3. /\ Top \in Frames /\ FrameOK(Top) /\ Accounts(Top, Places(stack, stored), mem)
      /\ Places(stack, stored) \cap Inside(Top.at) = {}
  BY <1>1, TopFacts, TopClear
<1>4. PICK g, W : /\ Filled(Top, g, W, Places(stack, stored), mem)
                  /\ WriteLeaves(W, "Default") /\ stack' = SetTop(g)
  <2>1. CASE Kind[Top.at] = "struct"
    <3>1. Filled(Top, FillFields(Top, D).frame, FillFields(Top, D).leaves,
                 Places(stack, stored), mem)
      BY <1>1, <1>3, <2>1, FillFieldsOK
    <3> QED
      BY <1>2, <2>1, <3>1
  <2>2. CASE Kind[Top.at] # "struct"
    <3>1. D = {}
      BY <2>2 DEF Defaultable
    <3>2. FillFields(Top, D).leaves = {}
      BY <3>1 DEF FillFields
    <3>3. Filled(Top, Top, {}, Places(stack, stored), mem)
      BY <1>1, <1>3, FilledNothing
    <3> QED
      BY <1>2, <2>2, <3>2, <3>3
  <2> QED
    BY <2>1, <2>2
<1>5. /\ mem' = Wrote(mem, W, "Default") /\ faults' = faults \cup WriteFaults(mem, W)
      /\ phase' = "Dropping" /\ UNCHANGED <<mode, startDepth, stored, buffer>>
  BY <1>4 DEF WriteLeaves, FillFails
<1>6. Agree(stack', stored', mem') /\ stack' # << >> /\ faults' = {}
  BY <1>1, <1>4, <1>5, TopFilled
<1>7. Phases' /\ Outcome'
  BY <1>1, <1>5, <1>6 DEF OwnershipInv, Phases, Outcome, Active, Building
<1> QED
  BY <1>5, <1>6, <1>7, Reestablished DEF OwnershipInv, TypeOK, Building

\* The top frame is filled and the caller, or Drop, goes on with it.
LEMMA FillTopStep ==
    ASSUME OwnershipInv, stack # << >>, DOMAIN stored = {}, mode = "Strict", Top.cur = NoChild,
           NEW v \in BOOLEAN, WriteLeaves(Fill(Top, v).leaves, "Default"),
           stack' = SetTop(Fill(Top, v).frame), phase' \in {"Active", "Dropping"},
           phase \in Building, UNCHANGED <<mode, startDepth, stored, buffer>>
    PROVE  OwnershipInv'
<1> DEFINE g == Fill(Top, v).frame
           W == Fill(Top, v).leaves
<1>1. Filled(Top, g, W, Places(stack, stored), mem)
  BY TopFill
<1>2. /\ mem' = Wrote(mem, W, "Default") /\ faults' = faults \cup WriteFaults(mem, W)
      /\ stack' = SetTop(g)
  BY DEF WriteLeaves
<1> HIDE DEF g, W
<1>3. /\ Agree(stack', stored', mem') /\ stack' # << >> /\ Len(stack') = Len(stack)
      /\ WriteFaults(mem, W) = {} /\ stack'[Len(stack)] = g /\ g.cur = NoChild
  BY <1>1, <1>2, TopFilled
<1>4. Top'.cur = NoChild
  BY <1>3 DEF Top
<1>5. Phases' /\ Outcome'
  BY <1>2, <1>3, <1>4 DEF OwnershipInv, Phases, Outcome, Active, Building
<1>6. /\ mode' = "Strict" /\ startDepth' = 0 /\ startDepth' <= Len(stack')
      /\ phase' \in Building
  <2>1. startDepth = 0 /\ Len(stack) \in Nat
    BY TopFacts DEF OwnershipInv, TypeOK
  <2> QED
    BY <1>3, <2>1 DEF Building
<1> QED
  BY <1>3, <1>5, <1>6, Reestablished

\* The frame on top of the stack at the end of finish_deferred's walk.
LEMMA WalkTopStep ==
    ASSUME OwnershipInv, WalkTop
    PROVE  OwnershipInv'
<1>1. /\ stack # << >> /\ DOMAIN stored = {} /\ mode = "Strict" /\ Top.cur = NoChild
      /\ phase \in Building
  BY DEF WalkTop, OwnershipInv, Phases, Building
<1>2. /\ WriteLeaves(Fill(Top, FALSE).leaves, "Default")
      /\ stack' = SetTop(Fill(Top, FALSE).frame)
      /\ phase' \in {"Active", "Dropping"} /\ UNCHANGED <<mode, startDepth, stored, buffer>>
  BY DEF WalkTop
<1> QED
  BY <1>1, <1>2, FillTopStep

\* build(), when a type invariant does not hold.
LEMMA BuildRejectsStep ==
    ASSUME DocumentedUse, OwnershipInv, BuildRejects
    PROVE  OwnershipInv'
<1>1. /\ stack # << >> /\ DOMAIN stored = {} /\ mode = "Strict" /\ Top.cur = NoChild
      /\ phase \in Building
  BY DEF BuildRejects, MayBuild, DocumentedUse, OwnershipInv, Phases, Building, Active
<1>2. /\ WriteLeaves(Fill(Top, ViaPlan).leaves, "Default")
      /\ stack' = SetTop(Fill(Top, ViaPlan).frame)
      /\ phase' \in {"Active", "Dropping"} /\ UNCHANGED <<mode, startDepth, stored, buffer>>
  BY DEF BuildRejects
<1>3. ViaPlan \in BOOLEAN
  BY DEF ViaPlan
<1> QED
  BY <1>1, <1>2, <1>3, FillTopStep

\* build().
LEMMA BuildStep ==
    ASSUME DocumentedUse, OwnershipInv, Build
    PROVE  OwnershipInv'
<1> DEFINE full == Fill(Top, ViaPlan)
           m2 == Wrote(mem, full.leaves, "Default")
<1>1. /\ stack # << >> /\ DOMAIN stored = {} /\ mode = "Strict" /\ Len(stack) = 1
      /\ faults = {} /\ phase = "Active"
  BY DEF Build, MayBuild, DocumentedUse, OwnershipInv, Phases, Outcome, Building, Active
<1>2. Filled(Top, full.frame, full.leaves, Places(stack, stored), mem)
  BY <1>1, TopFill DEF ViaPlan
<1>3. /\ Complete(full.frame) /\ mem' = m2 /\ faults' = faults \cup WriteFaults(mem, full.leaves)
      /\ stack' = << >> /\ phase' = "Returning"
      /\ UNCHANGED <<mode, startDepth, stored, buffer>>
  BY DEF Build, WriteLeaves
<1> HIDE DEF full
<1>4. /\ WriteFaults(mem, full.leaves) = {} /\ m2 \in [Leaves -> Contents]
      /\ Full(Root, m2)
  BY <1>1, <1>2, <1>3, TopFilled, TopFacts
<1> HIDE DEF m2
<1>5. Agree(stack', stored', mem')
  BY <1>1, <1>3, <1>4, AgreeGone
<1>6. Phases' /\ Outcome'
  BY <1>1, <1>3, <1>4 DEF OwnershipInv, Phases, Outcome, Active, Building
<1> QED
  BY <1>3, <1>5, <1>6, Reestablished DEF OwnershipInv, TypeOK, Building

-----------------------------------------------------------------------------
(* Deferred mode *)

\* begin_deferred() and enter_deferred().
LEMMA EnterDeferredStep ==
    ASSUME DocumentedUse, OwnershipInv, BeginDeferred \/ EnterDeferred
    PROVE  OwnershipInv'
<1>1. /\ mode = "Strict" /\ phase = "Active" /\ DOMAIN stored = {} /\ stack # << >>
      /\ "defer" \in Usage
  BY DEF BeginDeferred, EnterDeferred, MayEnter, DocumentedUse, OwnershipInv, Phases,
         Active, Building
<1>2. /\ stored' = stored \/ stored' = << >>
      /\ mode' = "Deferred" /\ startDepth' = Len(stack)
      /\ UNCHANGED <<stack, phase, mem, buffer, faults>>
  BY DEF BeginDeferred, EnterDeferred
<1>3. Agree(stack', stored', mem')
  BY <1>1, <1>2, FreshStore DEF OwnershipInv
<1>4. Phases' /\ Outcome'
  BY <1>1, <1>2 DEF OwnershipInv, Phases, Outcome, Active, Top
<1>5. Len(stack) \in Nat
  BY <1>1, TopFacts
<1> QED
  BY <1>1, <1>2, <1>3, <1>4, <1>5, Reestablished DEF Building

\* finish_deferred(), up to its walk.
LEMMA FinishDeferredStep ==
    ASSUME OwnershipInv, FinishDeferred
    PROVE  OwnershipInv'
<1>1. /\ phase = "Active" /\ phase' = "Walking" /\ mode = "Deferred" /\ mode' = "Strict"
      /\ startDepth' = 0 /\ UNCHANGED <<stack, stored, mem, buffer, faults>>
  BY DEF FinishDeferred, Active
<1>2. Agree(stack', stored', mem')
  BY <1>1 DEF OwnershipInv
<1>3. Phases' /\ Outcome'
  BY <1>1 DEF OwnershipInv, Phases, Outcome, Active, Top, Building
<1> QED
  BY <1>1, <1>2, <1>3, Reestablished DEF Building

\* end() in deferred mode.
LEMMA EndDeferredStep ==
    ASSUME OwnershipInv, EndDeferred
    PROVE  OwnershipInv'
<1> DEFINE L == Len(stack)
           u == stack[L - 1]
           h == ClearChild(Mark(u, Top.at))
<1>1. /\ phase = "Active" /\ mode = "Deferred" /\ L > 1 /\ L > startDepth
      /\ Agree(stack, stored, mem) /\ stack \in Seq(Frames) /\ startDepth \in Nat
  BY DEF EndDeferred, OwnershipInv, TypeOK, Active
<1>2. StoragePath = FullPath(Top.at)
  BY <1>1, PathToStore DEF StoragePath, Top, Agree
<1>3. L \in Nat /\ Len(Pop(stack)) = L - 1 /\ Pop(stack) \in Seq(Frames) /\ Pop(stack)[L - 1] = u
  BY <1>1 DEF Pop
<1>4. /\ stored' = [q \in DOMAIN stored \cup {StoragePath} |->
                      IF q = StoragePath THEN Top ELSE stored[q]]
      /\ UNCHANGED <<mode, startDepth, phase, mem, buffer, faults>>
  BY DEF EndDeferred
<1>5. stack' = [Pop(stack) EXCEPT ![L - 1] = h]
  <2>1. stack' = [Pop(stack) EXCEPT ![L - 1] = ClearChild(Mark(@, Top.at))]
    BY DEF EndDeferred
  <2> QED
    BY <1>3, <2>1
<1>6. Agree(stack', stored', mem')
  <2>1. Agree(StackAfterEnd(stack), StoredAfterEnd(stack, stored, StoragePath), mem)
    BY <1>1, <1>2, FrameStored DEF Top
  <2>2. /\ stack' = StackAfterEnd(stack) /\ stored' = StoredAfterEnd(stack, stored, StoragePath)
        /\ mem' = mem
    BY <1>4, <1>5 DEF StackAfterEnd, StoredAfterEnd, Top
  <2> QED
    BY <2>1, <2>2
<1>7. h.cur = NoChild /\ h \in Frames
  <2>1. Mark(u, Top.at) \in Frames
    <3>1. Composite(u) /\ u \in Frames /\ Top.at \in Fields[u.at]
      BY <1>1, BelowTop
    <3>2. Top.at \in Nodes
      BY <3>1, FieldInside DEF Frames
    <3> QED
      BY <3>1, <3>2 DEF Mark, BitSet, Frames
  <2> QED
    BY <2>1 DEF ClearChild, Frames
<1> HIDE DEF h
<1>8. Len(stack') = L - 1 /\ stack' # << >> /\ stack'[L - 1] = h
  BY <1>1, <1>3, <1>5, <1>7
<1>9. Top'.cur = NoChild
  BY <1>7, <1>8 DEF Top
<1>10. Phases' /\ Outcome'
  BY <1>1, <1>4, <1>8, <1>9 DEF OwnershipInv, Phases, Outcome, Active, Building
<1>11. startDepth' <= Len(stack')
  BY <1>1, <1>3, <1>4, <1>8
<1> QED
  BY <1>1, <1>4, <1>6, <1>10, <1>11, Reestablished DEF Building

\* The place of a field of the top frame, while the caller builds: looking for
\* its frame among the stored ones finds it if it is there.
LEMMA LookupFinds ==
    ASSUME DocumentedUse, OwnershipInv, Active, mode = "Deferred", NEW c \in Fields[Top.at]
    PROVE  /\ DerivePath \cup {<<"Field", c>>} = FullPath(c)
           /\ \A q \in DOMAIN stored : stored[q].at = c <=> q = FullPath(c)
<1>1. /\ stack # << >> /\ Top.cur = NoChild /\ StackDescends(stack)
      /\ \A n \in Nodes : Kind[n] # "array"
  BY DEF OwnershipInv, Phases, Active, Building, Agree, DocumentedUse
<1>2. DerivePath = FullPath(Top.at)
  BY <1>1, DerivedPath DEF DerivePath, Top
<1>3. Top.at \in Nodes /\ c \in Nodes /\ c # Root
  BY <1>1, TopFacts, FieldInside
<1>4. StepTo(c) = <<"Field", c>>
  BY <1>1, FieldSteps
<1>5. FullPath(c) = FullPath(Top.at) \cup {StepTo(c)}
  BY <1>3, PathOfField
<1>6. ASSUME NEW q \in DOMAIN stored PROVE stored[q].at = c <=> q = FullPath(c)
  <2>1. q = FullPath(stored[q].at) /\ stored[q].at \in Nodes
    BY <1>1, StoredFacts
  <2> QED
    BY <1>3, <2>1, PathInjective
<1> QED
  BY <1>2, <1>4, <1>5, <1>6

\* begin_field(), when the field's frame is stored.
LEMMA RestoreFieldStep ==
    ASSUME DocumentedUse, OwnershipInv, NEW c \in Nodes, RestoreField(c)
    PROVE  OwnershipInv'
<1> DEFINE p == DerivePath \cup {<<"Field", c>>}
           g == SetChild(Top, c)
           h == ClearChild(stored[p])
<1>1. /\ phase = "Active" /\ mode = "Deferred" /\ stack # << >> /\ Agree(stack, stored, mem)
      /\ c \in Fields[Top.at] /\ p \in DOMAIN stored /\ Composite(Top)
      /\ stack \in Seq(Frames) /\ startDepth \in Nat /\ startDepth <= Len(stack)
  BY DEF RestoreField, MayReenter, OwnershipInv, TypeOK, Phases, Active, Building
<1>2. stored[p].at = c
  BY <1>1, LookupFinds DEF Active
<1>3. /\ stack' = Append(SetTop(g), h) /\ stored' = [q \in DOMAIN stored \ {p} |-> stored[q]]
      /\ UNCHANGED <<mode, startDepth, phase, mem, buffer, faults>>
  BY DEF RestoreField, Removed
<1>4. SetTop(g) = [stack EXCEPT ![Len(stack)] = SetChild(stack[Len(stack)], stored[p].at)]
  BY <1>2 DEF SetTop, Top
<1> HIDE DEF p
<1>5. Agree(stack', stored', mem')
  BY <1>1, <1>2, <1>3, <1>4, FrameRestored DEF Top
<1>6. Top \in Frames /\ stored[p] \in Frames
  BY <1>1, TopFacts, StoredFacts
<1>7. g \in Frames /\ h \in Frames /\ h.cur = NoChild
  BY <1>6 DEF SetChild, ClearChild, Frames
<1> HIDE DEF g, h
<1>8. SetTop(g) \in Seq(Frames) /\ Len(SetTop(g)) = Len(stack) /\ Len(stack) \in Nat
  BY <1>1, <1>7 DEF SetTop
<1>9. Len(stack') = Len(stack) + 1 /\ stack' # << >> /\ stack'[Len(stack) + 1] = h
  BY <1>3, <1>7, <1>8
<1>10. Top'.cur = NoChild
  BY <1>7, <1>9 DEF Top
<1>11. Phases' /\ Outcome'
  BY <1>1, <1>3, <1>9, <1>10 DEF OwnershipInv, Phases, Outcome, Active, Building
<1>12. startDepth' <= Len(stack')
  BY <1>1, <1>3, <1>8, <1>9
<1> QED
  BY <1>1, <1>3, <1>5, <1>11, <1>12, Reestablished DEF Building

\* begin_field(), when the field has no frame.
LEMMA EnterFieldStep ==
    ASSUME DocumentedUse, OwnershipInv, NEW c \in Nodes, EnterField(c)
    PROVE  OwnershipInv'
<1> DEFINE live == Places(stack, stored)
           t == AsComposite(Top)
           g == SetChild(BitUnset(t, c), c)
           h == NewFrame(c, c \in t.iset)
<1>1. /\ phase = "Active" /\ stack # << >> /\ Agree(stack, stored, mem)
      /\ c \in Fields[Top.at] /\ stack \in Seq(Frames)
      /\ startDepth \in Nat /\ startDepth <= Len(stack)
      /\ mode \in {"Strict", "Deferred"} /\ (mode = "Strict" => DOMAIN stored = {})
  BY DEF EnterField, OwnershipInv, TypeOK, Phases, Active, Building
<1>2. /\ Top \in Frames /\ FrameOK(Top) /\ Top.at \in Nodes /\ Top.at \in live
      /\ Accounts(Top, live, mem) /\ Len(stack) \in Nat /\ Len(stack) \in 1..Len(stack)
  BY <1>1, TopFacts
<1>3. c \notin live
  <2>1. c \notin StackPlaces(stack)
    <3>1. c \in Inside(Top.at)
      BY <1>1, <1>2, FieldInside DEF Inside
    <3>2. \A i \in 1..Len(stack) : stack[i].at \notin Inside(Top.at)
      BY <1>1, StackFacts DEF Agree, Top
    <3> QED
      BY <3>1, <3>2 DEF StackPlaces
  <2>2. c \notin StoredPlaces(stored)
    <3>1. CASE mode = "Strict"
      BY <1>1, <3>1 DEF StoredPlaces
    <3>2. CASE mode = "Deferred"
      <4>1. FullPath(c) \notin DOMAIN stored
        BY <1>1, <3>2, LookupFinds DEF EnterField, Active
      <4>2. \A q \in DOMAIN stored : stored[q].at = c => q = FullPath(c)
        BY <1>1, <3>2, LookupFinds DEF Active
      <4> QED
        BY <4>1, <4>2 DEF StoredPlaces
    <3> QED
      BY <1>1, <3>1, <3>2
  <2> QED
    BY <2>1, <2>2 DEF Places
<1>4. live \in SUBSET Nodes /\ Closed(live)
  BY <1>1, LiveFacts
<1>5. Kind[Top.at] # "leaf"
  BY <1>1, <1>2, FieldInside
<1>6. /\ t \in Frames /\ FrameOK(t) /\ t.at = Top.at /\ Composite(t) /\ Accounts(t, live, mem)
  BY <1>2, <1>5, AsCompositeOK
<1>7. /\ stack' = Append(SetTop(g), h)
      /\ UNCHANGED <<mode, startDepth, stored, phase, mem, buffer, faults>>
  BY DEF EnterField
<1> HIDE DEF t, live
<1>8. /\ g \in Frames /\ g.at = Top.at /\ g.tracker = t.tracker /\ g.iset = t.iset \ {c}
      /\ g.cur = c
  BY <1>6 DEF SetChild, BitUnset, Frames
<1>9. FrameOK(g) /\ Composite(g)
  <2> HIDE DEF g
  <2> QED
    BY <1>1, <1>6, <1>8 DEF FrameOK, Composite
<1>10. /\ h \in Frames /\ FrameOK(h) /\ h.at = c /\ h.cur = NoChild /\ ~Composite(h)
       /\ h.isInit <=> c \in t.iset
  <2>1. CASE c \in t.iset
    <3>1. h = NewFrame(c, TRUE)
      BY <2>1
    <3> HIDE DEF h
    <3> QED
      BY <2>1, <3>1, NewFrameFacts
  <2>2. CASE c \notin t.iset
    <3>1. h = NewFrame(c, FALSE)
      <4>1. (c \in t.iset) = FALSE
        BY <2>2
      <4> QED
        BY <4>1, Zenon
    <3> HIDE DEF h
    <3> QED
      BY <2>2, <3>1, NewFrameFacts
  <2> QED
    BY <2>1, <2>2
<1> HIDE DEF g, h
<1>11. Accounts(g, live \cup {c}, mem)
  BY <1>6, <1>8, <1>9 DEF Accounts
<1>12. Accounts(h, live \cup {c}, mem)
  <2>1. live \cap Inside(c) = {}
    BY <1>3, <1>4 DEF Closed, Inside
  <2>2. IF c \in t.iset THEN Full(c, mem) ELSE Empty(c, mem)
    BY <1>1, <1>3, <1>6 DEF Accounts
  <2> QED
    BY <1>10, <2>1, <2>2 DEF Accounts, Inside
<1>13. Agree(stack', stored', mem')
  <2>1. Agree(Append([stack EXCEPT ![Len(stack)] = g], h), stored, mem)
    BY <1>1, <1>3, <1>8, <1>9, <1>10, <1>11, <1>12, FieldEntered DEF Top, live
  <2> QED
    BY <1>7, <2>1 DEF SetTop
<1>14. SetTop(g) \in Seq(Frames) /\ Len(SetTop(g)) = Len(stack)
  BY <1>1, <1>8 DEF SetTop
<1>15. Len(stack') = Len(stack) + 1 /\ stack' # << >> /\ stack'[Len(stack) + 1] = h
  BY <1>2, <1>7, <1>10, <1>14
<1>16. Top'.cur = NoChild
  BY <1>10, <1>15 DEF Top
<1>17. Phases' /\ Outcome'
  BY <1>1, <1>7, <1>15, <1>16 DEF OwnershipInv, Phases, Outcome, Active, Building
<1>18. startDepth' <= Len(stack')
  BY <1>1, <1>2, <1>7, <1>15
<1>19. mode' \in {"Strict", "Deferred"} /\ startDepth' \in Nat /\ (mode' = "Strict" => startDepth' = 0)
  BY <1>7 DEF OwnershipInv, TypeOK
<1> QED
  BY <1>1, <1>7, <1>13, <1>17, <1>18, <1>19, Reestablished DEF Building

-----------------------------------------------------------------------------
(* The loops over the stored frames *)

\* A deepest stored frame becomes g, then is taken out; its parent is told what
\* the place holds.
LEMMA StoredLeaves ==
    ASSUME DocumentedUse, OwnershipInv, stack # << >>, NEW p \in Deepest,
           NEW g, FrameOK(g), g.at = stored[p].at,
           NEW m2 \in [Leaves -> Contents],
           \A l \in Leaves \ LeavesOf(stored[p].at) : m2[l] = mem[l],
           Accounts(g, Places(stack, stored), m2),
           NEW what \in {"Full", "Empty"},
           what = "Full" => Full(stored[p].at, m2),
           what = "Empty" => Empty(stored[p].at, m2),
           IF what = "Full" THEN TakeMarking(p, stored[p].at)
                            ELSE TakeReleasing(p, stored[p].at)
    PROVE  /\ Agree(stack', stored', m2) /\ Len(stack') = Len(stack)
           /\ stack' # << >> /\ Top'.cur = Top.cur
           /\ DOMAIN stored' \subseteq DOMAIN stored
<1> DEFINE n == stored[p].at
           st1 == [stored EXCEPT ![p] = g]
           st2 == StoredAfterTake(st1, p, what)
           s2 == StackAfterTake(stack, st1, p, what)
<1>1. /\ Agree(stack, stored, mem) /\ p \in DOMAIN stored
      /\ \A q \in DOMAIN stored : Cardinality(q) <= Cardinality(p)
  BY DEF OwnershipInv, Deepest
<1>2. Places(stack, stored) \cap Inside(n) = {}
  BY <1>1, DeepestFree
<1>3. Agree(stack, st1, m2) /\ Places(stack, st1) = Places(stack, stored)
  BY <1>1, <1>2, StoredUpdated
<1>4. /\ DOMAIN st1 = DOMAIN stored /\ st1[p].at = n
      /\ \A q \in DOMAIN stored : q # p => st1[q] = stored[q]
  BY <1>1
<1> HIDE DEF st1
<1>5. /\ Agree(s2, st2, m2) /\ Len(s2) = Len(stack)
      /\ \A i \in 1..Len(stack) : s2[i].cur = stack[i].cur
  BY <1>1, <1>2, <1>3, <1>4, StoredTaken
<1>6. stored' = st2 /\ stack' = s2
  <2>1. /\ st2 = [q \in DOMAIN stored \ {p} |->
                     IF q = ParentPath(p) THEN Told(stored[q], n, what) ELSE stored[q]]
        /\ s2 = IF ParentPath(p) \notin DOMAIN stored /\ Cardinality(p) <= Len(stack)
                THEN [stack EXCEPT ![Cardinality(p)] = Told(stack[Cardinality(p)], n, what)]
                ELSE stack
    BY <1>4 DEF StoredAfterTake, StackAfterTake
  <2>2. CASE what = "Full"
    BY <2>1, <2>2 DEF TakeMarking, ParentOnStack, ParentIsStored, Told
  <2>3. CASE what = "Empty"
    BY <2>1, <2>3 DEF TakeReleasing, ParentOnStack, ParentIsStored, Told
  <2> QED
    BY <2>2, <2>3
<1>7. Len(stack) \in Nat /\ Len(stack) \in 1..Len(stack)
  BY TopFacts
<1>8. DOMAIN st2 \subseteq DOMAIN stored
  BY <1>4 DEF StoredAfterTake
<1>9. s2[Len(stack)].cur = Top.cur /\ s2 # << >>
  BY <1>5, <1>7 DEF Top
<1> QED
  BY <1>5, <1>6, <1>8, <1>9 DEF Top

\* A deepest stored frame is filled from defaults.
LEMMA StoredFilled ==
    ASSUME DocumentedUse, OwnershipInv, stack # << >>, NEW p \in Deepest,
           NEW g, NEW W, Filled(stored[p], g, W, Places(stack, stored), mem)
    PROVE  /\ g \in Frames /\ FrameOK(g) /\ g.at = stored[p].at
           /\ Places(stack, stored) \cap Inside(stored[p].at) = {}
           /\ Accounts(g, Places(stack, stored), Wrote(mem, W, "Default"))
           /\ WriteFaults(mem, W) = {}
           /\ Wrote(mem, W, "Default") \in [Leaves -> Contents]
           /\ \A l \in Leaves \ LeavesOf(stored[p].at) : Wrote(mem, W, "Default")[l] = mem[l]
           /\ Complete(g) => Full(stored[p].at, Wrote(mem, W, "Default"))
<1> DEFINE m2 == Wrote(mem, W, "Default")
           live == Places(stack, stored)
<1>1. p \in DOMAIN stored /\ Agree(stack, stored, mem) /\ mem \in [Leaves -> Contents]
  BY DEF Deepest, OwnershipInv, TypeOK
<1>2. stored[p] \in Frames
  BY <1>1, StoredFacts
<1>3. live \cap Inside(stored[p].at) = {}
  BY <1>1, DeepestFree DEF Deepest
<1>4. /\ WriteFaults(mem, W) = {} /\ m2 \in [Leaves -> Contents]
      /\ \A l \in Leaves \ LeavesOf(stored[p].at) : m2[l] = mem[l]
  <2>1. W \subseteq LeavesOf(stored[p].at) /\ \A l \in W : mem[l] = "Uninit"
    BY DEF Filled
  <2>2. /\ m2 \in [Leaves -> Contents]
        /\ \A l \in Leaves : m2[l] = IF l \in W THEN "Default" ELSE mem[l]
    BY <1>1, WroteFacts DEF Contents
  <2> QED
    BY <2>1, <2>2 DEF WriteFaults
<1>5. g \in Frames /\ FrameOK(g) /\ g.at = stored[p].at /\ Accounts(g, live, m2)
  BY DEF Filled
<1> HIDE DEF m2
<1>6. Complete(g) => Full(g.at, m2)
  BY <1>3, <1>5, CompleteFull
<1> QED
  BY <1>3, <1>4, <1>5, <1>6 DEF m2

\* fill_defaults on it.
LEMMA StoredFill ==
    ASSUME DocumentedUse, OwnershipInv, stack # << >>, NEW p \in Deepest
    PROVE  Filled(stored[p], Fill(stored[p], FALSE).frame, Fill(stored[p], FALSE).leaves,
                  Places(stack, stored), mem)
<1>1. p \in DOMAIN stored /\ Agree(stack, stored, mem) /\ mem \in [Leaves -> Contents]
  BY DEF Deepest, OwnershipInv, TypeOK
<1>2. /\ stored[p] \in Frames /\ FrameOK(stored[p])
      /\ Accounts(stored[p], Places(stack, stored), mem)
  BY <1>1, StoredFacts
<1>3. Places(stack, stored) \cap Inside(stored[p].at) = {}
  BY <1>1, DeepestFree DEF Deepest
<1> QED
  BY <1>1, <1>2, <1>3, FillOK

\* finish_deferred's walk: a stored frame that passes.
LEMMA WalkFrameStep ==
    ASSUME DocumentedUse, OwnershipInv, NEW p \in DOMAIN stored, WalkFrame(p)
    PROVE  OwnershipInv'
<1> DEFINE n == stored[p].at
           live == Places(stack, stored)
           full == Fill(stored[p], FALSE)
           m2 == Wrote(mem, full.leaves, "Default")
<1>1. /\ phase = "Walking" /\ stack # << >> /\ p \in Deepest /\ mode = "Strict"
      /\ Agree(stack, stored, mem) /\ mem \in [Leaves -> Contents] /\ faults = {}
      /\ Top.cur = NoChild /\ startDepth = 0
  BY DEF WalkFrame, OwnershipInv, TypeOK, Phases, Outcome, Building
<1>2. LastStep(p) = <<"Field", n>>
  BY <1>1, StoredFacts
<1>3. Filled(stored[p], full.frame, full.leaves, live, mem)
  BY <1>1, StoredFill
<1>4. /\ Complete(full.frame) /\ mem' = m2 /\ faults' = faults \cup WriteFaults(mem, full.leaves)
      /\ TakeMarking(p, n) /\ UNCHANGED <<mode, startDepth, phase, buffer>>
  <2>1. LastStep(p)[1] = "Field" /\ LastStep(p)[2] = n
    BY <1>2
  <2>2. TakeMarking(p, LastStep(p)[2])
    BY <2>1 DEF WalkFrame
  <2> QED
    BY <2>1, <2>2 DEF WalkFrame, WriteLeaves
<1> HIDE DEF full
<1>5. /\ full.frame \in Frames /\ FrameOK(full.frame) /\ full.frame.at = n
      /\ Accounts(full.frame, live, m2)
      /\ WriteFaults(mem, full.leaves) = {} /\ m2 \in [Leaves -> Contents]
      /\ \A l \in Leaves \ LeavesOf(n) : m2[l] = mem[l]
      /\ Full(n, m2)
  BY <1>1, <1>3, <1>4, StoredFilled
<1> HIDE DEF m2
<1>6. /\ Agree(stack', stored', m2) /\ stack' # << >> /\ Top'.cur = Top.cur
      /\ DOMAIN stored' \subseteq DOMAIN stored
  BY <1>1, <1>4, <1>5, StoredLeaves
<1>7. Agree(stack', stored', mem') /\ faults' = {}
  BY <1>1, <1>4, <1>5, <1>6
<1>8. Phases' /\ Outcome'
  BY <1>1, <1>4, <1>6, <1>7 DEF OwnershipInv, Phases, Outcome, Active, Building
<1> QED
  BY <1>1, <1>4, <1>7, <1>8, Reestablished DEF Building

\* A stored frame is dropped, with what it owns.
LEMMA StoredDropped ==
    ASSUME DocumentedUse, OwnershipInv, stack # << >>, NEW p \in Deepest,
           phase \in Building, phase # "Active", phase' \in {"Cleaning", "Dropping"},
           UNCHANGED <<mode, startDepth, buffer>>, faults' = {},
           TakeReleasing(p, stored[p].at),
           mem' \in [Leaves -> Contents], Empty(stored[p].at, mem'),
           \A l \in Leaves \ LeavesOf(stored[p].at) : mem'[l] = mem[l]
    PROVE  OwnershipInv'
<1> DEFINE n == stored[p].at
           live == Places(stack, stored)
           g == NewFrame(n, FALSE)
<1>1. p \in DOMAIN stored /\ Agree(stack, stored, mem)
  BY DEF Deepest, OwnershipInv
<1>2. n \in Nodes /\ live \cap Inside(n) = {}
  BY <1>1, StoredFacts, DeepestFree DEF Deepest
<1>3. g \in Frames /\ FrameOK(g) /\ g.at = n /\ ~g.isInit /\ ~Composite(g)
  BY <1>2, NewFrameFacts
<1> HIDE DEF g
<1>4. Accounts(g, live, mem')
  BY <1>2, <1>3 DEF Accounts
<1>5. /\ Agree(stack', stored', mem') /\ stack' # << >>
      /\ DOMAIN stored' \subseteq DOMAIN stored
  BY <1>3, <1>4, StoredLeaves
<1>6. Phases' /\ Outcome'
  BY <1>1, <1>5 DEF OwnershipInv, Phases, Outcome, Active, Building
<1> QED
  BY <1>5, <1>6, Reestablished DEF OwnershipInv, TypeOK, Building

\* finish_deferred's walk: a stored frame that is incomplete.
LEMMA WalkFailsStep ==
    ASSUME DocumentedUse, OwnershipInv, NEW p \in DOMAIN stored, WalkFails(p)
    PROVE  OwnershipInv'
<1> DEFINE n == stored[p].at
           live == Places(stack, stored)
           full == Fill(stored[p], FALSE)
           m1 == Wrote(mem, full.leaves, "Default")
           m2 == Wrote(m1, Owned(full.frame), "Uninit")
<1>1. /\ phase = "Walking" /\ stack # << >> /\ p \in Deepest
      /\ Agree(stack, stored, mem) /\ mem \in [Leaves -> Contents] /\ faults = {}
  BY DEF WalkFails, OwnershipInv, TypeOK, Phases, Outcome, Building
<1>2. LastStep(p) = <<"Field", n>>
  BY <1>1, StoredFacts
<1>3. Filled(stored[p], full.frame, full.leaves, live, mem)
  BY <1>1, StoredFill
<1>4. /\ mem' = m2
      /\ faults' = faults \cup WriteFaults(mem, full.leaves) \cup DropFaults(m1, Owned(full.frame))
      /\ TakeReleasing(p, n) /\ phase' = "Cleaning"
      /\ UNCHANGED <<mode, startDepth, buffer>>
  BY <1>2 DEF WalkFails
<1> HIDE DEF full
<1>5. /\ full.frame \in Frames /\ FrameOK(full.frame) /\ full.frame.at = n
      /\ live \cap Inside(n) = {} /\ Accounts(full.frame, live, m1)
      /\ WriteFaults(mem, full.leaves) = {} /\ m1 \in [Leaves -> Contents]
      /\ \A l \in Leaves \ LeavesOf(n) : m1[l] = mem[l]
  BY <1>1, <1>3, StoredFilled
<1> HIDE DEF m1
<1>6. live \cap Inside(full.frame.at) = {}
  BY <1>5
<1>7. /\ DropFaults(m1, Owned(full.frame)) = {}
      /\ m2 \in [Leaves -> Contents]
      /\ \A l \in Leaves \ LeavesOf(full.frame.at) : m2[l] = m1[l]
      /\ Empty(full.frame.at, m2)
  BY <1>5, <1>6, DropOwned
<1> HIDE DEF m2
<1>8. \A l \in Leaves \ LeavesOf(n) : m2[l] = mem[l]
  BY <1>5, <1>7
<1>9. faults' = {} /\ Empty(n, m2)
  BY <1>1, <1>4, <1>5, <1>7
<1> QED
  BY <1>1, <1>4, <1>7, <1>8, <1>9, StoredDropped DEF Building

\* Cleaning up a stored frame, in Drop or after finish_deferred failed.
LEMMA CleanStoredStep ==
    ASSUME DocumentedUse, OwnershipInv, NEW p \in DOMAIN stored, CleanStored(p)
    PROVE  OwnershipInv'
<1> DEFINE n == stored[p].at
           live == Places(stack, stored)
           m2 == Wrote(mem, Owned(stored[p]), "Uninit")
<1>1. /\ phase \in {"Cleaning", "Dropping"} /\ stack # << >> /\ p \in Deepest
      /\ Agree(stack, stored, mem) /\ mem \in [Leaves -> Contents] /\ faults = {}
  BY DEF CleanStored, OwnershipInv, TypeOK, Phases, Outcome, Building
<1>2. /\ stored[p] \in Frames /\ FrameOK(stored[p]) /\ Accounts(stored[p], live, mem)
      /\ LastStep(p) = <<"Field", n>>
  BY <1>1, StoredFacts
<1>3. live \cap Inside(n) = {}
  BY <1>1, DeepestFree DEF Deepest
<1>4. /\ DropFaults(mem, Owned(stored[p])) = {}
      /\ m2 \in [Leaves -> Contents]
      /\ \A l \in Leaves \ LeavesOf(n) : m2[l] = mem[l]
      /\ Empty(n, m2)
  BY <1>1, <1>2, <1>3, DropOwned
<1>5. /\ mem' = m2 /\ faults' = faults \cup DropFaults(mem, Owned(stored[p]))
      /\ TakeReleasing(p, n) /\ UNCHANGED <<mode, startDepth, phase, buffer>>
  BY <1>2 DEF CleanStored, DropLeaves
<1> HIDE DEF m2
<1>6. faults' = {}
  BY <1>1, <1>4, <1>5
<1> QED
  BY <1>1, <1>4, <1>5, <1>6, StoredDropped DEF Building

-----------------------------------------------------------------------------
(* Drop, and the value once it is built *)

\* Drop's loop over the stack.
LEMMA DropFrameStep ==
    ASSUME OwnershipInv, DropFrame
    PROVE  OwnershipInv'
<1> DEFINE n == Top.at
           m2 == Wrote(mem, Owned(Top), "Uninit")
           u == stack[Len(stack) - 1]
           h == BitUnset(u, n)
           g == NewFrame(n, FALSE)
<1>1. /\ phase = "Dropping" /\ stack # << >> /\ DOMAIN stored = {} /\ faults = {}
      /\ mem \in [Leaves -> Contents] /\ buffer = "Live"
      /\ mode \in {"Strict", "Deferred"} /\ startDepth \in Nat
      /\ (mode = "Strict" => startDepth = 0)
  BY DEF DropFrame, OwnershipInv, TypeOK, Phases, Outcome, Building
<1>2. /\ DropFaults(mem, Owned(Top)) = {} /\ m2 \in [Leaves -> Contents]
      /\ \A l \in Leaves \ LeavesOf(n) : m2[l] = mem[l]
      /\ Empty(n, m2)
  BY <1>1, TopDropped
<1>3. /\ mem' = m2 /\ faults' = faults \cup DropFaults(mem, Owned(Top))
      /\ UNCHANGED <<mode, startDepth, stored>>
  BY DEF DropFrame, DropLeaves
<1> HIDE DEF m2
<1>4. n \in Nodes /\ Len(stack) \in Nat /\ (Len(stack) = 1 => n = Root)
  BY <1>1, TopFacts
<1>5. faults' = {}
  BY <1>1, <1>2, <1>3
<1>6. CASE Len(stack) > 1
  <2>1. stack' = [Pop(stack) EXCEPT ![Len(stack) - 1] = h] /\ UNCHANGED <<phase, buffer>>
    <3>1. /\ stack' = [Pop(stack) EXCEPT ![Len(stack) - 1] = BitUnset(@, Top.at)]
          /\ UNCHANGED <<phase, buffer>>
      BY <1>6 DEF DropFrame
    <3>2. Pop(stack)[Len(stack) - 1] = u
      <4>1. stack \in Seq(Frames)
        BY DEF OwnershipInv, TypeOK
      <4> QED
        BY <1>6, <4>1 DEF Pop
    <3> QED
      BY <3>1, <3>2
  <2>2. g \in Frames /\ FrameOK(g) /\ g.at = n /\ ~g.isInit /\ ~Composite(g)
    BY <1>4, NewFrameFacts
  <2> HIDE DEF g
  <2>3. Accounts(g, Places(stack, stored), m2)
    BY <1>1, <1>2, <2>2, TopClear DEF Accounts
  <2>4. FrameOK(h) /\ Composite(h) /\ h.at = u.at /\ h.iset = u.iset \ {n}
    BY <1>6, BelowTop, FieldTold
  <2> HIDE DEF h
  <2>5. Agree(stack', stored, m2) /\ stack' # << >>
    BY <1>1, <1>2, <1>6, <2>1, <2>2, <2>3, <2>4, TopLeaves
  <2>6. Agree(stack', stored', mem')
    BY <1>3, <2>5
  <2>7. Phases' /\ Outcome'
    BY <1>1, <1>3, <1>5, <2>1, <2>5 DEF OwnershipInv, Phases, Outcome, Active, Building
  <2> QED
    BY <1>1, <1>3, <2>1, <2>6, <2>7, Reestablished DEF Building
<1>7. CASE ~(Len(stack) > 1)
  <2>1. stack' = << >> /\ phase' = "Dropped" /\ FreeBuffer
    BY <1>7 DEF DropFrame
  <2>2. Len(stack) = 1
    <3>1. Len(stack) >= 1
      <4>1. Len(stack) \in 1..Len(stack)
        BY <1>1, TopFacts
      <4> HIDE DEF n, u, h, g
      <4> QED
        BY <1>4, <4>1
    <3>2. PICK k : k = Len(stack)
      OBVIOUS
    <3>3. k \in Nat /\ k >= 1 /\ ~(k > 1)
      BY <1>4, <1>7, <3>1, <3>2
    <3>4. k = 1
      BY <3>3
    <3> QED
      BY <3>2, <3>4
  <2>3. Empty(Root, mem')
    BY <1>2, <1>3, <1>4, <2>2
  <2>4. Agree(stack', stored', mem')
    BY <1>1, <1>2, <1>3, <2>1, AgreeGone
  <2>5. Phases' /\ Outcome'
    BY <1>1, <1>3, <1>5, <2>1, <2>3
       DEF OwnershipInv, Phases, Outcome, Active, Building, FreeBuffer
  <2> QED
    BY <1>1, <1>3, <2>1, <2>4, <2>5, Reestablished DEF Building
<1> QED
  BY <1>6, <1>7

\* The value is moved out of its allocation, or dropped in it.
LEMMA HeapValueStep ==
    ASSUME OwnershipInv, Materialize \/ DropHeapValue
    PROVE  OwnershipInv'
<1>1. /\ phase = "Built" /\ stack = << >> /\ DOMAIN stored = {} /\ faults = {}
      /\ mem \in [Leaves -> Contents] /\ Full(Root, mem) /\ buffer = "Live"
  BY DEF Materialize, DropHeapValue, OwnershipInv, TypeOK, Phases, Outcome, Building
<1>2. /\ FreeBuffer /\ UNCHANGED <<mode, startDepth, stack, stored>>
      /\ phase' \in {"Moved", "Dropped"}
  BY DEF Materialize, DropHeapValue
<1>3. CASE Materialize
  <2>1. phase' = "Moved" /\ mem' = mem /\ faults' = faults
    BY <1>3 DEF Materialize
  <2>2. Agree(stack', stored', mem')
    BY <1>1, <1>2, <2>1, AgreeGone
  <2>3. Phases' /\ Outcome'
    BY <1>1, <1>2, <2>1 DEF OwnershipInv, Phases, Outcome, Active, Building, FreeBuffer
  <2> QED
    BY <1>1, <1>2, <2>1, <2>2, <2>3, Reestablished DEF OwnershipInv, TypeOK
<1>4. CASE DropHeapValue
  <2>1. /\ phase' = "Dropped" /\ mem' = Wrote(mem, Leaves, "Uninit")
        /\ faults' = faults \cup DropFaults(mem, Leaves)
    BY <1>4 DEF DropHeapValue, DropLeaves
  <2>2. DropFaults(mem, Leaves) = {}
    BY <1>1, LeavesOfRoot DEF DropFaults, Full
  <2>3. mem' \in [Leaves -> Contents] /\ \A l \in Leaves : mem'[l] = "Uninit"
    BY <1>1, <2>1, WroteFacts DEF Contents
  <2>4. Empty(Root, mem')
    BY <2>3, LeavesOfRoot DEF Empty
  <2>5. Agree(stack', stored', mem')
    BY <1>1, <1>2, <2>3, AgreeGone
  <2>6. Phases' /\ Outcome'
    BY <1>1, <1>2, <2>1, <2>2, <2>4
       DEF OwnershipInv, Phases, Outcome, Active, Building, FreeBuffer
  <2> QED
    BY <1>1, <1>2, <2>1, <2>5, <2>6, Reestablished DEF OwnershipInv, TypeOK
<1> QED
  BY <1>3, <1>4

\* Steps that only move on to the next phase.
LEMMA PhaseStep ==
    ASSUME OwnershipInv, Cancel \/ CleanedUp \/ Returned
    PROVE  OwnershipInv'
<1>1. /\ UNCHANGED <<mode, startDepth, stack, stored, mem, buffer, faults>>
      /\ \/ phase \in {"Active", "Cleaning"} /\ phase' = "Dropping"
         \/ phase = "Returning" /\ phase' = "Built"
  BY DEF Cancel, CleanedUp, Returned, Active
<1>2. Agree(stack', stored', mem')
  BY <1>1 DEF OwnershipInv
<1>3. Phases' /\ Outcome'
  BY <1>1 DEF OwnershipInv, Phases, Outcome, Active, Building
<1> QED
  BY <1>1, <1>2, <1>3, Reestablished DEF OwnershipInv, TypeOK, Building

-----------------------------------------------------------------------------
(* The invariant and what follows from it *)

\* One frame for the root, that holds nothing.
LEMMA InvInit ==
    ASSUME Init
    PROVE  OwnershipInv
<1> DEFINE f == NewFrame(Root, FALSE)
<1>1. /\ f \in Frames /\ FrameOK(f) /\ f.at = Root /\ f.cur = NoChild
      /\ ~f.isInit /\ ~Composite(f)
  BY RootIsTop, NewFrameFacts
<1>2. stack = <<f>> /\ DOMAIN stored = {} /\ mem = [l \in Leaves |-> "Uninit"]
  BY DEF Init
<1> HIDE DEF f
<1>3. Len(stack) = 1 /\ stack[1] = f /\ stack \in Seq(Frames) /\ stack # << >>
  BY <1>1, <1>2
<1>4. StackPlaces(stack) = {Root}
  BY <1>1, <1>3 DEF StackPlaces
<1>5. StackDescends(stack)
  <2>1. \A n \in Nodes : Root \in Below[n] <=> n = Root
    BY RootIsTop
  <2>2. Depth(Root) = 0
    BY DepthOfRoot
  <2> QED
    BY <1>1, <1>3, <2>1, <2>2 DEF StackDescends
<1>6. StoredFiled(stack, stored) /\ Places(stack, stored) = {Root}
  BY <1>2, <1>4 DEF StoredFiled, Places, StoredPlaces
<1>7. Closed({Root})
  BY RootIsTop DEF Closed
<1>8. mem \in [Leaves -> Contents] /\ Empty(Root, mem)
  BY <1>2, LeavesOfRoot DEF Contents, Empty
<1>9. Accounts(f, {Root}, mem)
  BY <1>1, <1>8 DEF Accounts, Inside
<1>10. Agree(stack, stored, mem)
  <2>1. \A i \in 1..Len(stack) : Accounts(stack[i], Places(stack, stored), mem)
    BY <1>3, <1>6, <1>9
  <2> QED
    BY <1>2, <1>5, <1>6, <1>7, <1>8, <2>1 DEF Agree
<1>11. Phases /\ Outcome
  BY <1>1, <1>2, <1>3 DEF Init, Phases, Outcome, Building, Active, Top
<1>12. TypeOK
  <2>1. \A i \in 1..Len(stack) : FrameOK(stack[i])
    BY <1>1, <1>3
  <2>2. DOMAIN stored \subseteq Paths \ {{}} /\ \A p \in DOMAIN stored : FrameOK(stored[p])
    BY <1>2
  <2>3. startDepth = 0 /\ mode = "Strict" /\ phase = "Active" /\ buffer = "Live" /\ faults = {}
    BY DEF Init
  <2>4. startDepth \in Nat /\ startDepth <= Len(stack)
    BY <1>3, <2>3
  <2> QED
    BY <1>3, <1>8, <2>1, <2>2, <2>3, <2>4 DEF TypeOK, Active
<1> QED
  BY <1>10, <1>11, <1>12 DEF OwnershipInv

\* Every step, of the caller or of a loop, preserves the invariant.
LEMMA InvStep ==
    ASSUME DocumentedUse, OwnershipInv, [Next]_vars
    PROVE  OwnershipInv'
<1>1. CASE Call
  <2>1. ASSUME NEW c \in Nodes, BeginNthField(c) PROVE OwnershipInv'
    BY <2>1, RestoreFieldStep, EnterFieldStep DEF BeginNthField
  <2>2. CASE Set \/ SetDefault
    BY <2>2, SetToStep DEF Set, SetDefault
  <2>3. CASE SetFails
    BY <2>3, SetFailsStep
  <2>4. CASE EndStrict
    BY <2>4, EndStrictStep
  <2>5. CASE EndFails
    BY <2>5, FillFailsStep DEF EndFails
  <2>6. CASE EndDeferred
    BY <2>6, EndDeferredStep
  <2>7. CASE BeginDeferred \/ EnterDeferred
    BY <2>7, EnterDeferredStep
  <2>8. CASE FinishDeferred
    BY <2>8, FinishDeferredStep
  <2>9. CASE Build
    BY <2>9, BuildStep
  <2>10. CASE BuildFails
    <3>1. mode = "Strict"
      BY <2>10 DEF BuildFails, MayBuild, DocumentedUse
    <3> QED
      BY <2>10, <3>1, FillFailsStep DEF BuildFails
  <2>11. CASE BuildRejects
    BY <2>11, BuildRejectsStep
  <2>12. CASE Cancel
    BY <2>12, PhaseStep
  <2>13. CASE Materialize \/ DropHeapValue
    BY <2>13, HeapValueStep
  <2> QED
    BY <1>1, <2>1, <2>2, <2>3, <2>4, <2>5, <2>6, <2>7, <2>8, <2>9, <2>10, <2>11, <2>12,
       <2>13 DEF Call
<1>2. CASE Loop
  <2>1. ASSUME NEW p \in DOMAIN stored, WalkFrame(p) PROVE OwnershipInv'
    BY <2>1, WalkFrameStep
  <2>2. ASSUME NEW p \in DOMAIN stored, WalkFails(p) PROVE OwnershipInv'
    BY <2>2, WalkFailsStep
  <2>3. ASSUME NEW p \in DOMAIN stored, CleanStored(p) PROVE OwnershipInv'
    BY <2>3, CleanStoredStep
  <2>4. CASE WalkTop
    BY <2>4, WalkTopStep
  <2>5. CASE CleanedUp \/ Returned
    BY <2>5, PhaseStep
  <2>6. CASE DropFrame
    BY <2>6, DropFrameStep
  <2> QED
    BY <1>2, <2>1, <2>2, <2>3, <2>4, <2>5, <2>6 DEF Loop
<1>3. CASE UNCHANGED vars
  BY <1>3 DEF vars, OwnershipInv, TypeOK, Agree, Phases, Outcome, Active, Top
<1> QED
  BY <1>1, <1>2, <1>3 DEF Next

(***************************************************************************)
(* The frames, the paths they are filed under and the memory agree at      *)
(* every step of every documented use of a Partial (the drop-ownership     *)
(* comment of partial/mod.rs), whatever the type being built.              *)
(***************************************************************************)
THEOREM OwnershipInvariant ==
    ASSUME DocumentedUse
    PROVE  Spec => []OwnershipInv
<1>1. Init => OwnershipInv
  BY InvInit
<1>2. OwnershipInv /\ [Next]_vars => OwnershipInv'
  BY InvStep
<1> QED
  BY <1>1, <1>2, PTL DEF Spec

(***************************************************************************)
(* The trackers, the stack and the stored paths are well formed at every   *)
(* step (Frame, Tracker and FrameMode in partial/mod.rs).                  *)
(***************************************************************************)
THEOREM TypeCorrect ==
    ASSUME DocumentedUse
    PROVE  Spec => []TypeOK
<1>1. OwnershipInv => TypeOK
  BY DEF OwnershipInv
<1> QED
  BY <1>1, OwnershipInvariant, PTL

(***************************************************************************)
(* No destructor runs on memory that holds no value: Frame::deinit, the    *)
(* two loops of Drop and the error path of finish_deferred never drop a    *)
(* place twice, or one that was never written.                             *)
(***************************************************************************)
THEOREM InvalidDropsImpossible ==
    ASSUME DocumentedUse
    PROVE  Spec => []NoInvalidDrop
<1>1. OwnershipInv => NoInvalidDrop
  BY DEF OwnershipInv, Outcome, NoInvalidDrop
<1> QED
  BY <1>1, OwnershipInvariant, PTL

(***************************************************************************)
(* Nothing is written over a value, and a Partial that is gone leaves its  *)
(* memory empty and the allocation it owned freed (Drop for Partial, Drop  *)
(* for HeapValue).                                                         *)
(***************************************************************************)
THEOREM LeaksImpossible ==
    ASSUME DocumentedUse
    PROVE  Spec => []NoLeak
<1>1. OwnershipInv => NoLeak
  BY LeavesOfRoot DEF OwnershipInv, Outcome, NoLeak, Empty
<1> QED
  BY <1>1, OwnershipInvariant, PTL

(***************************************************************************)
(* What build and finish_in_place hand over has every field, and still has *)
(* when HeapValue::materialize moves it out.                               *)
(***************************************************************************)
THEOREM BuiltValuesComplete ==
    ASSUME DocumentedUse
    PROVE  Spec => []BuiltComplete
<1>1. OwnershipInv => BuiltComplete
  BY LeavesOfRoot DEF OwnershipInv, Outcome, BuiltComplete, Full
<1> QED
  BY <1>1, OwnershipInvariant, PTL

=============================================================================
