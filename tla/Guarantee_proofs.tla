-------------------------- MODULE Guarantee_proofs --------------------------
(***************************************************************************)
(* What follows from OwnershipInv for those who use a Partial.             *)
(*                                                                         *)
(* Sole authority: the frame that answers for a leaf is that of the        *)
(* innermost live place around it.  The promise: the invariant says what   *)
(* the memory holds when a value is handed over or given up, so what is    *)
(* left is how calls lead from phase to phase.  What no step does:         *)
(* defaults only go where there is nothing, and an incomplete frame has a  *)
(* gap.                                                                    *)
(***************************************************************************)
EXTENDS Ownership_proofs, WellFoundedInduction

\* The leaves a place answers for: those with no live place in between.
Answers(n) ==
    {l \in LeavesOf(n) :
        \A a \in Places(stack, stored) \cap Inside(n) : l \notin LeavesOf(a)}

-----------------------------------------------------------------------------
(* Frames and live places correspond *)

\* Every frame has a live place, no two have the same, and every live place
\* has a frame.
LEMMA LiveFrames ==
    ASSUME OwnershipInv
    PROVE  /\ \A h \in Live : /\ FrameAt(h) \in Frames /\ FrameOK(FrameAt(h))
                              /\ FrameAt(h).at \in Nodes
                              /\ FrameAt(h).at \in Places(stack, stored)
                              /\ Accounts(FrameAt(h), Places(stack, stored), mem)
           /\ \A g, h \in Live : FrameAt(g).at = FrameAt(h).at => g = h
           /\ \A n \in Places(stack, stored) : \E h \in Live : FrameAt(h).at = n
<1>1. Agree(stack, stored, mem)
  BY DEF OwnershipInv
<1>2. StackDescends(stack) /\ StoredFiled(stack, stored)
  BY <1>1 DEF Agree
<1>3. ASSUME NEW h \in Live
      PROVE  \/ \E i \in 1..Len(stack) : h = <<"stack", i>> /\ FrameAt(h) = stack[i]
             \/ \E p \in DOMAIN stored : h = <<"stored", p>> /\ FrameAt(h) = stored[p]
  BY DEF Live, FrameAt
<1>4. \A i \in 1..Len(stack) : /\ stack[i] \in Frames /\ FrameOK(stack[i])
                               /\ stack[i].at \in Nodes
                               /\ stack[i].at \in Places(stack, stored)
                               /\ Accounts(stack[i], Places(stack, stored), mem)
  BY <1>1, <1>2, StackFacts, LiveFacts DEF StackDescends, Agree
<1>5. \A p \in DOMAIN stored : /\ stored[p] \in Frames /\ FrameOK(stored[p])
                               /\ stored[p].at \in Places(stack, stored)
                               /\ Accounts(stored[p], Places(stack, stored), mem)
  BY <1>1, <1>2, LiveFacts DEF StoredFiled, Agree
<1>6. \A p \in DOMAIN stored : stored[p].at \in Nodes
  BY <1>5 DEF Frames
<1>7. ASSUME NEW g \in Live, NEW h \in Live, FrameAt(g).at = FrameAt(h).at PROVE g = h
  <2>1. \A i, j \in 1..Len(stack) : stack[i].at = stack[j].at => i = j
    BY <1>2, StackFacts
  <2>2. /\ \A p, q \in DOMAIN stored : stored[p].at = stored[q].at => p = q
        /\ \A p \in DOMAIN stored : \A i \in 1..Len(stack) : stored[p].at # stack[i].at
    BY <1>1, LiveFacts
  <2> QED
    BY <1>3, <1>7, <2>1, <2>2
<1>8. ASSUME NEW n \in Places(stack, stored) PROVE \E h \in Live : FrameAt(h).at = n
  <2>1. CASE n \in StackPlaces(stack)
    <3>1. PICK i \in 1..Len(stack) : stack[i].at = n
      BY <2>1 DEF StackPlaces
    <3>2. <<"stack", i>> \in Live /\ FrameAt(<<"stack", i>>) = stack[i]
      BY DEF Live, FrameAt
    <3> QED
      BY <3>1, <3>2
  <2>2. CASE n \in StoredPlaces(stored)
    <3>1. PICK p \in DOMAIN stored : stored[p].at = n
      BY <2>2 DEF StoredPlaces
    <3>2. <<"stored", p>> \in Live /\ FrameAt(<<"stored", p>>) = stored[p]
      BY DEF Live, FrameAt
    <3> QED
      BY <3>1, <3>2
  <2> QED
    BY <2>1, <2>2 DEF Places
<1> QED
  BY <1>3, <1>4, <1>5, <1>6, <1>7, <1>8

\* What a frame claims, said of places instead of frames.
LEMMA ClaimsByPlace ==
    ASSUME OwnershipInv, NEW h \in Live
    PROVE  \A l : l \in Claims(h) <=>
              /\ l \in Owned(FrameAt(h))
              /\ \A a \in Places(stack, stored) \cap Inside(FrameAt(h).at) : l \notin LeavesOf(a)
<1>1. /\ \A g \in Live : FrameAt(g).at \in Places(stack, stored)
      /\ \A n \in Places(stack, stored) : \E g \in Live : FrameAt(g).at = n
  BY LiveFrames
<1> QED
  BY <1>1 DEF Claims, Inside

-----------------------------------------------------------------------------
(* What a frame claims *)

\* A frame claims the values among the leaves its place answers for, and
\* nothing else.
LEMMA ClaimsExact ==
    ASSUME OwnershipInv, NEW h \in Live
    PROVE  \A l : l \in Claims(h) <=>
              l \in Answers(FrameAt(h).at) /\ mem[l] # "Uninit"
<1> DEFINE f == FrameAt(h)
           live == Places(stack, stored)
<1>1. f \in Frames /\ FrameOK(f) /\ f.at \in Nodes /\ Accounts(f, live, mem)
  BY LiveFrames
<1>2. \A l : l \in Claims(h) <=>
          l \in Owned(f) /\ \A a \in live \cap Inside(f.at) : l \notin LeavesOf(a)
  BY ClaimsByPlace
<1>3. \A l : l \in Answers(f.at) <=>
          l \in LeavesOf(f.at) /\ \A a \in live \cap Inside(f.at) : l \notin LeavesOf(a)
  BY DEF Answers
<1>4. CASE ~Composite(f)
  <2>1. live \cap Inside(f.at) = {}
    BY <1>1, <1>4 DEF Accounts
  <2>2. \A l : l \in Owned(f) <=> l \in LeavesOf(f.at) /\ mem[l] # "Uninit"
    BY <1>1, <2>1, OwnedExact
  <2> QED
    BY <1>2, <1>3, <2>2
<1>5. CASE Composite(f)
  <2>1. /\ Kind[f.at] # "leaf" /\ f.iset \subseteq Fields[f.at]
        /\ Owned(f) = UNION {LeavesOf(c) : c \in f.iset}
    BY <1>1, <1>5 DEF FrameOK, Frames, Composite, Owned
  <2>2. LeavesOf(f.at) = UNION {LeavesOf(c) : c \in Fields[f.at]}
    BY <1>1, <2>1, LeavesSplit
  <2>3. \A c \in Fields[f.at] : c \in Inside(f.at)
    BY <1>1, FieldInside DEF Inside
  <2>4. ASSUME NEW l \in Owned(f), \A a \in live \cap Inside(f.at) : l \notin LeavesOf(a)
        PROVE  l \in LeavesOf(f.at) /\ mem[l] # "Uninit"
    <3>1. PICK c \in f.iset : l \in LeavesOf(c)
      BY <2>1, <2>4
    <3>2. c \in Fields[f.at] \ live
      BY <2>1, <2>3, <2>4, <3>1
    <3>3. Full(c, mem)
      BY <1>1, <1>5, <3>1, <3>2 DEF Accounts
    <3> QED
      BY <2>2, <3>1, <3>2, <3>3 DEF Full
  <2>5. ASSUME NEW l \in LeavesOf(f.at), mem[l] # "Uninit",
               \A a \in live \cap Inside(f.at) : l \notin LeavesOf(a)
        PROVE  l \in Owned(f)
    <3>1. PICK c \in Fields[f.at] : l \in LeavesOf(c)
      BY <2>2, <2>5
    <3>2. c \notin live
      BY <2>3, <2>5, <3>1
    <3>3. ~Empty(c, mem)
      BY <2>5, <3>1 DEF Empty
    <3>4. c \in f.iset
      BY <1>1, <1>5, <3>1, <3>2, <3>3 DEF Accounts
    <3> QED
      BY <2>1, <3>1, <3>4
  <2> QED
    BY <1>2, <1>3, <2>4, <2>5
<1> QED
  BY <1>4, <1>5 DEF f

-----------------------------------------------------------------------------
(* Who answers for a leaf *)

\* A place strictly inside another has fewer places below it.
LEMMA FewerBelow ==
    ASSUME NEW n \in Nodes, NEW m \in Inside(n)
    PROVE  /\ m \in Nodes
           /\ Cardinality(Below[m]) \in Nat /\ Cardinality(Below[n]) \in Nat
           /\ Cardinality(Below[m]) < Cardinality(Below[n])
<1>1. m \in Nodes /\ m \in Below[n] /\ m # n
  BY NodesAssumption DEF Inside
<1>2. Below[m] \subseteq Below[n] /\ Below[n] \subseteq Nodes
  BY <1>1, NodesAssumption, TreeAssumption
<1>3. Below[m] # Below[n]
  BY <1>1, TreeAssumption
<1>4. IsFiniteSet(Below[n])
  BY <1>2, NodesAssumption, FS_Subset
<1>5. /\ IsFiniteSet(Below[m]) /\ Cardinality(Below[m]) <= Cardinality(Below[n])
      /\ Cardinality(Below[n]) = Cardinality(Below[m]) => Below[n] = Below[m]
  BY <1>2, <1>4, FS_Subset
<1>6. Cardinality(Below[m]) \in Nat /\ Cardinality(Below[n]) \in Nat
  BY <1>4, <1>5, FS_CardinalityType
<1> QED
  BY <1>1, <1>3, <1>5, <1>6

\* Among the live places around a leaf there is an innermost one.
LEMMA Innermost ==
    ASSUME OwnershipInv, stack # << >>, NEW l \in Leaves
    PROVE  \E n \in Places(stack, stored) : l \in Answers(n)
<1> DEFINE around == {n \in Places(stack, stored) : l \in LeavesOf(n)}
           size(n) == Cardinality(Below[n])
           sizes == {size(n) : n \in around}
<1>1. Places(stack, stored) \in SUBSET Nodes /\ Root \in Places(stack, stored)
  BY LiveFacts, StackFacts DEF OwnershipInv, Agree, Places
<1>2. Root \in around
  BY <1>1, LeavesOfRoot
<1>3. sizes \subseteq Nat /\ sizes # {}
  <2>1. ASSUME NEW n \in Nodes PROVE size(n) \in Nat
    BY NodesAssumption, FS_Subset, FS_CardinalityType
  <2> QED
    BY <1>1, <1>2, <2>1
<1>4. PICK k \in sizes : \A j \in sizes : <<j, k>> \notin OpToRel(<, Nat)
  <2> HIDE DEF sizes
  <2> QED
    BY <1>3, NatLessThanWellFounded, WFMin
<1>5. PICK n \in around : k = size(n)
  BY <1>4
<1>6. ASSUME NEW a \in Places(stack, stored) \cap Inside(n) PROVE l \notin LeavesOf(a)
  <2>1. n \in Nodes /\ size(a) \in Nat /\ size(n) \in Nat /\ size(a) < size(n)
    BY <1>1, <1>5, <1>6, FewerBelow
  <2>2. <<size(a), k>> \in OpToRel(<, Nat)
    BY <1>5, <2>1 DEF OpToRel
  <2>3. size(a) \notin sizes
    BY <1>4, <2>2
  <2> QED
    BY <1>6, <2>3
<1> QED
  BY <1>5, <1>6 DEF Answers

\* No leaf has two places that answer for it.
LEMMA AnswersApart ==
    ASSUME NEW m \in Places(stack, stored), NEW n \in Places(stack, stored),
           m \in Nodes, n \in Nodes, m # n
    PROVE  Answers(m) \cap Answers(n) = {}
<1> SUFFICES ASSUME NEW l \in Answers(m), l \in Answers(n)
             PROVE  FALSE
  OBVIOUS
<1>1. l \in Below[m] /\ l \in Below[n]
  BY DEF Answers, LeavesOf
<1>2. m \in Below[n] \/ n \in Below[m]
  BY <1>1, TreeAssumption
<1>3. m \in Inside(n) \/ n \in Inside(m)
  BY <1>2 DEF Inside
<1> QED
  BY <1>3 DEF Answers

\* The agreement of frames and memory gives every value one authority.
LEMMA AuthorityIsSole ==
    ASSUME OwnershipInv
    PROVE  SoleAuthority
<1> SUFFICES ASSUME Active PROVE
        /\ \A l \in Leaves : (mem[l] # "Uninit") <=> (\E h \in Live : l \in Claims(h))
        /\ \A g, h \in Live : g # h => Claims(g) \cap Claims(h) = {}
  BY DEF SoleAuthority
<1>1. stack # << >>
  BY DEF OwnershipInv, Phases, Building, Active
<1>2. ASSUME NEW l \in Leaves, mem[l] # "Uninit" PROVE \E h \in Live : l \in Claims(h)
  <2>1. PICK n \in Places(stack, stored) : l \in Answers(n)
    BY <1>1, Innermost
  <2>2. PICK h \in Live : FrameAt(h).at = n
    BY LiveFrames
  <2> QED
    BY <1>2, <2>1, <2>2, ClaimsExact
<1>3. ASSUME NEW l \in Leaves, NEW h \in Live, l \in Claims(h) PROVE mem[l] # "Uninit"
  BY <1>3, ClaimsExact
<1>4. ASSUME NEW g \in Live, NEW h \in Live, g # h PROVE Claims(g) \cap Claims(h) = {}
  <2>1. Answers(FrameAt(g).at) \cap Answers(FrameAt(h).at) = {}
    BY <1>4, LiveFrames, AnswersApart
  <2> QED
    BY <2>1, ClaimsExact
<1> QED
  BY <1>2, <1>3, <1>4

(***************************************************************************)
(* "Exactly one drop-and-dealloc authority at all times" (partial/mod.rs): *)
(* while the caller builds, every leaf that holds a value is claimed by    *)
(* exactly one frame on the stack or in stored_frames, and none claims a   *)
(* leaf that holds nothing.                                                *)
(***************************************************************************)
THEOREM AuthorityUnique ==
    ASSUME DocumentedUse
    PROVE  Spec => []SoleAuthority
<1>1. OwnershipInv => SoleAuthority
  BY AuthorityIsSole
<1> QED
  BY <1>1, OwnershipInvariant, PTL

-----------------------------------------------------------------------------
(* The promise *)

\* Promise's outcome "Building" covers every phase before the value is handed
\* over or gone.
Unfinished == Building \cup {"Returning"}

-----------------------------------------------------------------------------
(* From phase to phase *)

\* The caller's turn ends in the caller's turn, in a loop, or in build's.
LEMMA CallFromActive ==
    ASSUME Active, Call
    PROVE  phase \in Unfinished /\ phase' \in Unfinished
<1>1. phase \in Unfinished
  BY DEF Active, Unfinished, Building
<1>2. CASE \E c \in Nodes : BeginNthField(c)
  BY <1>1, <1>2 DEF BeginNthField, RestoreField, EnterField
<1>3. CASE Set \/ SetDefault \/ SetFails
  BY <1>1, <1>3 DEF Set, SetDefault, SetTo, SetFails, Unfinished, Building
<1>4. CASE EndStrict \/ EndFails \/ EndDeferred
  BY <1>1, <1>4 DEF EndStrict, EndFails, FillFails, EndDeferred, Unfinished, Building
<1>5. CASE BeginDeferred \/ EnterDeferred \/ FinishDeferred
  BY <1>1, <1>5 DEF BeginDeferred, EnterDeferred, FinishDeferred, Unfinished, Building
<1>6. CASE Build \/ BuildFails \/ BuildRejects \/ Cancel
  BY <1>1, <1>6 DEF Build, BuildFails, FillFails, BuildRejects, Cancel, Unfinished, Building
<1>7. CASE Materialize \/ DropHeapValue
  BY <1>7 DEF Materialize, DropHeapValue, Active
<1> QED
  BY <1>2, <1>3, <1>4, <1>5, <1>6, <1>7 DEF Call

\* Out of turn, only the receiver of a built value calls.
LEMMA CallNotActive ==
    ASSUME ~Active, Call
    PROVE  Materialize \/ DropHeapValue
  BY DEF Call, BeginNthField, RestoreField, EnterField, Set, SetDefault, SetTo,
         SetFails, EndStrict, EndFails, EndDeferred, BeginDeferred, EnterDeferred,
         FinishDeferred, Build, BuildFails, BuildRejects, Cancel

\* A loop goes on, ends in the caller's turn or with the Partial gone; or it is
\* the Drop that runs as build returns, and the value is handed over.
LEMMA LoopPhases ==
    ASSUME Loop
    PROVE  \/ phase \in Unfinished /\ phase' \in Unfinished \cup {"Dropped"}
           \/ Returned
<1>1. CASE \E p \in DOMAIN stored : WalkFrame(p) \/ WalkFails(p) \/ CleanStored(p)
  BY <1>1 DEF WalkFrame, WalkFails, CleanStored, Unfinished, Building
<1>2. CASE WalkTop
  BY <1>2 DEF WalkTop, Unfinished, Building
<1>3. CASE CleanedUp \/ DropFrame
  BY <1>3 DEF CleanedUp, DropFrame, Unfinished, Building
<1> QED
  BY <1>1, <1>2, <1>3 DEF Loop

-----------------------------------------------------------------------------
(* Steps of Promise *)

\* Whatever happens before the value is handed over is work on its parts.
LEMMA WorkStep ==
    ASSUME OwnershipInv', phase \in Unfinished, phase' \in Unfinished \cup {"Dropped"}
    PROVE  P!Work
<1>1. mem' \in [Leaves -> {"Uninit", "Set", "Default"}]
  BY DEF OwnershipInv, TypeOK, Contents
<1>2. phase' = "Dropped" => mem' = [l \in Leaves |-> "Uninit"]
  BY <1>1, LeavesOfRoot DEF OwnershipInv, Outcome, Empty
<1>3. phase \notin {"Built", "Moved", "Dropped"}
  BY DEF Unfinished, Building
<1>4. phase' \in {"Built", "Moved", "Dropped"} <=> phase' = "Dropped"
  BY DEF Unfinished, Building
<1> QED
  BY <1>1, <1>2, <1>3, <1>4 DEF P!Work, P!Empty

\* The Partial is gone and a HeapValue remains.
LEMMA HandOverStep ==
    ASSUME OwnershipInv, Returned
    PROVE  P!HandOver
<1>1. phase = "Returning" /\ phase' = "Built" /\ mem' = mem
  BY DEF Returned
<1>2. \A l \in Leaves : mem[l] # "Uninit"
  BY <1>1, LeavesOfRoot DEF OwnershipInv, Outcome, Full
<1> QED
  BY <1>1, <1>2 DEF P!HandOver, P!Full

\* HeapValue's materialize and Drop.
LEMMA ReceiveStep ==
    ASSUME OwnershipInv', Materialize \/ DropHeapValue
    PROVE  P!Receive
<1>1. CASE Materialize
  BY <1>1 DEF Materialize, P!Receive
<1>2. CASE DropHeapValue
  <2>1. phase = "Built" /\ phase' = "Dropped"
    BY <1>2 DEF DropHeapValue
  <2>2. mem' = [l \in Leaves |-> "Uninit"]
    BY <2>1, LeavesOfRoot DEF OwnershipInv, TypeOK, Outcome, Empty
  <2> QED
    BY <2>1, <2>2 DEF P!Receive, P!Empty
<1> QED
  BY <1>1, <1>2

\* Every step is a step of Promise or changes nothing it speaks of.
LEMMA PromiseStep ==
    ASSUME OwnershipInv, OwnershipInv', [Next]_vars
    PROVE  [P!Next]_P!vars
<1>1. CASE UNCHANGED vars
  BY <1>1 DEF vars, P!vars
<1>2. CASE Active /\ Call
  BY <1>2, CallFromActive, WorkStep DEF P!Next
<1>3. CASE ~Active /\ Call
  BY <1>3, CallNotActive, ReceiveStep DEF P!Next
<1>4. CASE Loop
  BY <1>4, LoopPhases, WorkStep, HandOverStep DEF P!Next
<1> QED
  BY <1>1, <1>2, <1>3, <1>4 DEF Next

(***************************************************************************)
(* The frames, paths and trackers of a Partial implement the promise: only *)
(* a complete value is handed over (build, finish_in_place), and nothing   *)
(* is left behind when one is given up (Drop for Partial and HeapValue).   *)
(***************************************************************************)
THEOREM PromiseKept ==
    ASSUME DocumentedUse
    PROVE  Spec => KeepsPromise
<1>1. Init => P!Init
  BY DEF Init, P!Init, P!Empty
<1>2. OwnershipInv /\ OwnershipInv' /\ [Next]_vars => [P!Next]_P!vars
  BY PromiseStep
<1> QED
  BY <1>1, <1>2, OwnershipInvariant, PTL DEF Spec, KeepsPromise, P!Spec

-----------------------------------------------------------------------------
(* What no step does to a value the caller set *)

\* Filling that leaves no fault behind only writes where there is nothing.
LEMMA FillKeeps ==
    ASSUME NEW W, WriteLeaves(W, "Default"), faults' = {},
           NEW l \in Leaves, mem[l] # "Uninit"
    PROVE  mem'[l] = mem[l]
<1>1. mem' = Wrote(mem, W, "Default") /\ WriteFaults(mem, W) = {}
  BY DEF WriteLeaves
<1>2. l \notin W
  BY <1>1 DEF WriteFaults
<1> QED
  BY <1>1, <1>2 DEF Wrote

\* Replacing the top place touches nothing outside it.
LEMMA SetKeepsOthers ==
    ASSUME DocumentedUse, OwnershipInv, NEW v, SetTo(v),
           NEW l \in Leaves, l \notin LeavesOf(Top.at)
    PROVE  mem'[l] = mem[l]
<1>1. stack # << >>
  BY DEF OwnershipInv, Phases, Building, SetTo, Active
<1>2. \A p \in DOMAIN stored : stored[p].at \notin Inside(Top.at)
  BY DEF SetTo, MayReplace, DocumentedUse, Inside
<1>3. Wrote(mem, Owned(Top), "Uninit")[l] = mem[l]
  BY <1>1, <1>2, TopDropped
<1>4. mem' = Wrote(Wrote(mem, Owned(Top), "Uninit"), LeavesOf(Top.at), v)
  BY DEF SetTo, ReplaceLeaves
<1> QED
  BY <1>3, <1>4 DEF Wrote

\* A call keeps what was set, replaces the top place, or gives up.
LEMMA CallKeepsSet ==
    ASSUME DocumentedUse, OwnershipInv, OwnershipInv', Call,
           NEW l \in Leaves, mem[l] = "Set", mem'[l] # "Set"
    PROVE  \/ phase' \in CleaningUp
           \/ /\ phase = "Active" /\ phase' = "Active"
              /\ Len(stack') = Len(stack)
              /\ l \in LeavesOf(Top.at)
<1>1. mem[l] # "Uninit" /\ mem' # mem /\ faults' = {}
  BY DEF OwnershipInv, Outcome
<1>2. CASE \E c \in Nodes : BeginNthField(c)
  BY <1>1, <1>2 DEF BeginNthField, RestoreField, EnterField
<1>3. ASSUME NEW v, SetTo(v)
      PROVE  /\ phase = "Active" /\ phase' = "Active"
             /\ Len(stack') = Len(stack) /\ l \in LeavesOf(Top.at)
  <2>1. l \in LeavesOf(Top.at)
    BY <1>3, SetKeepsOthers
  <2>2. stack \in Seq(Frames)
    BY DEF OwnershipInv, TypeOK
  <2>3. Len(stack') = Len(stack)
    BY <1>3, <2>2 DEF SetTo, SetTop
  <2> QED
    BY <1>3, <2>1, <2>3 DEF SetTo, Active
<1>4. CASE SetFails \/ EndFails \/ BuildFails \/ BuildRejects \/ Cancel \/ DropHeapValue
  BY <1>4 DEF SetFails, EndFails, BuildFails, FillFails, BuildRejects, Cancel,
              DropHeapValue, CleaningUp
<1>5. CASE EndDeferred \/ BeginDeferred \/ EnterDeferred \/ FinishDeferred \/ Materialize
  BY <1>1, <1>5 DEF EndDeferred, BeginDeferred, EnterDeferred, FinishDeferred, Materialize
<1>6. CASE EndStrict \/ Build
  BY <1>1, <1>6, FillKeeps DEF EndStrict, Build
<1> QED
  BY <1>2, <1>3, <1>4, <1>5, <1>6 DEF Call, Set, SetDefault

\* A loop keeps what was set, unless it cleans up.
LEMMA LoopKeepsSet ==
    ASSUME OwnershipInv, OwnershipInv', Loop,
           NEW l \in Leaves, mem[l] = "Set", mem'[l] # "Set"
    PROVE  phase' \in CleaningUp
<1>1. mem[l] # "Uninit" /\ mem' # mem /\ faults' = {}
  BY DEF OwnershipInv, Outcome
<1>2. ASSUME NEW p \in DOMAIN stored, WalkFrame(p) PROVE FALSE
  BY <1>1, <1>2, FillKeeps DEF WalkFrame
<1>3. ASSUME NEW p \in DOMAIN stored, WalkFails(p) PROVE phase' \in CleaningUp
  BY <1>3 DEF WalkFails, CleaningUp
<1>4. ASSUME NEW p \in DOMAIN stored, CleanStored(p) PROVE phase' \in CleaningUp
  <2>1. phase # "Returning"
    BY DEF OwnershipInv, Phases, Building
  <2> QED
    BY <1>4, <2>1 DEF CleanStored, CleaningUp
<1>5. CASE WalkTop
  BY <1>1, <1>5, FillKeeps DEF WalkTop
<1>6. CASE CleanedUp \/ DropFrame
  BY <1>6 DEF CleanedUp, DropFrame, CleaningUp
<1>7. CASE Returned
  BY <1>1, <1>7 DEF Returned
<1> QED
  BY <1>2, <1>3, <1>4, <1>5, <1>6, <1>7 DEF Loop

(***************************************************************************)
(* A leaf the caller set stays set until the caller replaces a place       *)
(* around it or the Partial cleans up: end, storing and restoring frames,  *)
(* fill_defaults and the walk of finish_deferred leave it alone.           *)
(***************************************************************************)
THEOREM SetIsKept ==
    ASSUME DocumentedUse
    PROVE  Spec => SetSurvives
<1> DEFINE Keeps == \A l \in Leaves :
              mem[l] = "Set" /\ mem'[l] # "Set" =>
                 \/ phase' \in CleaningUp
                 \/ /\ phase = "Active" /\ phase' = "Active"
                    /\ Len(stack') = Len(stack)
                    /\ l \in LeavesOf(Top.at)
<1>1. OwnershipInv /\ OwnershipInv' /\ [Next]_vars => [Keeps]_vars
  <2> SUFFICES ASSUME OwnershipInv, OwnershipInv', Next PROVE Keeps
    OBVIOUS
  <2> QED
    BY CallKeepsSet, LoopKeepsSet DEF Next
<1> QED
  BY <1>1, OwnershipInvariant, PTL DEF Spec, SetSurvives

-----------------------------------------------------------------------------
(* What finish_deferred refuses *)

\* Every place has a leaf: the smallest place in it.
LEMMA HasLeaf ==
    ASSUME NEW n \in Nodes
    PROVE  LeavesOf(n) # {}
<1> DEFINE size(m) == Cardinality(Below[m])
           sizes == {size(m) : m \in Below[n]}
<1>1. Below[n] \subseteq Nodes /\ n \in Below[n]
  BY NodesAssumption, TreeAssumption
<1>2. sizes \subseteq Nat /\ sizes # {}
  <2>1. ASSUME NEW m \in Nodes PROVE size(m) \in Nat
    BY NodesAssumption, FS_Subset, FS_CardinalityType
  <2> QED
    BY <1>1, <2>1
<1>3. PICK k \in sizes : \A j \in sizes : <<j, k>> \notin OpToRel(<, Nat)
  <2> HIDE DEF sizes
  <2> QED
    BY <1>2, NatLessThanWellFounded, WFMin
<1>4. PICK m \in Below[n] : k = size(m)
  BY <1>3
<1>5. ASSUME NEW c \in Fields[m] PROVE FALSE
  <2>1. m \in Nodes /\ c \in Inside(m) /\ c \in Below[n]
    BY <1>1, <1>4, FieldInside, TreeAssumption DEF Inside
  <2>2. size(c) \in Nat /\ size(m) \in Nat /\ size(c) < size(m)
    BY <2>1, FewerBelow
  <2>3. <<size(c), k>> \in OpToRel(<, Nat)
    BY <1>4, <2>2 DEF OpToRel
  <2> QED
    BY <1>3, <2>1, <2>3
<1>6. Kind[m] = "leaf"
  BY <1>1, <1>4, <1>5, TreeAssumption
<1> QED
  BY <1>4, <1>6 DEF LeavesOf

\* An incomplete frame that is right about its place has a gap.
LEMMA IncompleteGap ==
    ASSUME NEW live, NEW e \in Frames, FrameOK(e), live \cap Inside(e.at) = {},
           NEW m, Accounts(e, live, m), ~Complete(e)
    PROVE  \E l \in Leaves : m[l] = "Uninit"
<1>1. e.at \in Nodes
  BY DEF Frames
<1>2. CASE Composite(e)
  <2>1. PICK c \in Fields[e.at] : c \notin e.iset
    BY <1>2 DEF Complete, FrameOK
  <2>2. c \in Nodes /\ c \notin live
    BY <1>1, FieldInside DEF Inside
  <2>3. Empty(c, m)
    BY <1>2, <2>1, <2>2 DEF Accounts
  <2> QED
    BY <2>2, <2>3, HasLeaf, LeavesInNodes DEF Empty
<1>3. CASE ~Composite(e)
  <2>1. Empty(e.at, m)
    BY <1>3 DEF Accounts, Complete
  <2> QED
    BY <1>1, <2>1, HasLeaf, LeavesInNodes DEF Empty
<1> QED
  BY <1>2, <1>3

\* A gap that filling leaves was there before.
LEMMA GapBeforeFill ==
    ASSUME NEW W, NEW l \in Leaves, Wrote(mem, W, "Default")[l] = "Uninit"
    PROVE  mem[l] = "Uninit"
  BY DEF Wrote

\* The walk fails on a stored frame.
LEMMA StoredRefused ==
    ASSUME DocumentedUse, OwnershipInv, NEW p \in DOMAIN stored, WalkFails(p)
    PROVE  \E l \in Leaves : mem[l] = "Uninit"
<1> DEFINE full == Fill(stored[p], FALSE)
           live == Places(stack, stored)
           m1 == Wrote(mem, full.leaves, "Default")
<1>1. stack # << >> /\ p \in Deepest /\ ~Complete(full.frame)
  BY DEF WalkFails, OwnershipInv, Phases, Building
<1>2. Filled(stored[p], full.frame, full.leaves, live, mem)
  BY <1>1, StoredFill
<1> HIDE DEF full
<1>3. /\ full.frame \in Frames /\ FrameOK(full.frame) /\ full.frame.at = stored[p].at
      /\ live \cap Inside(stored[p].at) = {} /\ Accounts(full.frame, live, m1)
  BY <1>1, <1>2, StoredFilled
<1> HIDE DEF m1, live
<1>4. PICK l \in Leaves : m1[l] = "Uninit"
  BY <1>1, <1>3, IncompleteGap
<1> QED
  BY <1>4, GapBeforeFill DEF m1

\* The walk fails on the frame on top of the stack.
LEMMA TopRefused ==
    ASSUME OwnershipInv, WalkTop, phase' # "Active"
    PROVE  \E l \in Leaves : mem[l] = "Uninit"
<1> DEFINE full == Fill(Top, FALSE)
           live == Places(stack, stored)
           m1 == Wrote(mem, full.leaves, "Default")
<1>1. stack # << >> /\ DOMAIN stored = {} /\ ~Complete(full.frame)
  BY DEF WalkTop, OwnershipInv, Phases, Building
<1>2. Filled(Top, full.frame, full.leaves, live, mem)
  BY <1>1, TopFill
<1>3. live \cap Inside(Top.at) = {}
  BY <1>1, TopClear
<1> HIDE DEF full, live
<1>4. /\ full.frame \in Frames /\ FrameOK(full.frame) /\ full.frame.at = Top.at
      /\ Accounts(full.frame, live, m1)
  BY <1>2 DEF Filled, FrameOK
<1> HIDE DEF m1
<1>5. PICK l \in Leaves : m1[l] = "Uninit"
  BY <1>1, <1>3, <1>4, IncompleteGap
<1> QED
  BY <1>5, GapBeforeFill DEF m1

\* Nothing else ends the walk in an error.
LEMMA RefusalSteps ==
    ASSUME Next, phase = "Walking", phase' \in CleaningUp
    PROVE  \/ \E p \in DOMAIN stored : WalkFails(p)
           \/ WalkTop /\ phase' # "Active"
<1>1. phase' # "Active" /\ phase' # "Walking"
  BY DEF CleaningUp
<1>2. ~Call
  BY CallNotActive DEF Active, Materialize, DropHeapValue
<1>3. \A p \in DOMAIN stored : ~WalkFrame(p) /\ ~CleanStored(p)
  BY <1>1 DEF WalkFrame, CleanStored
<1>4. ~CleanedUp /\ ~DropFrame /\ ~Returned
  BY DEF CleanedUp, DropFrame, Returned
<1> QED
  BY <1>1, <1>2, <1>3, <1>4 DEF Next, Loop

(***************************************************************************)
(* finish_deferred never refuses a complete value: when its walk, or the   *)
(* check of the top frame after it, reports a frame as incomplete, some    *)
(* leaf holds nothing.                                                     *)
(***************************************************************************)
THEOREM CompleteIsAccepted ==
    ASSUME DocumentedUse
    PROVE  Spec => FinishRefusesOnlyGaps
<1> DEFINE Justified == phase = "Walking" /\ phase' \in CleaningUp =>
                            \E l \in Leaves : mem[l] = "Uninit"
<1>1. OwnershipInv /\ [Next]_vars => [Justified]_vars
  <2> SUFFICES ASSUME OwnershipInv, Next PROVE Justified
    OBVIOUS
  <2> QED
    BY RefusalSteps, StoredRefused, TopRefused
<1> QED
  BY <1>1, OwnershipInvariant, PTL DEF Spec, FinishRefusesOnlyGaps

=============================================================================
