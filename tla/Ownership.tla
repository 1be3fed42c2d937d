----------------------------- MODULE Ownership -----------------------------
(***************************************************************************)
(* Why the frames of a Partial and the memory agree: the inductive         *)
(* invariant behind the safety properties of Partial.                      *)
(*                                                                         *)
(* A place is live when it has a frame, on the stack or stored.  Live      *)
(* places form a connected part of the tree around the root, a frame is    *)
(* filed under the path of its place, and every frame accounts for the     *)
(* part of its place that lies outside the live places inside it.          *)
(*                                                                         *)
(* Most of it is said of any stack s, stored frames st and memory m, so    *)
(* that what one change does to them can be proved once and used for every *)
(* action that makes it.                                                   *)
(***************************************************************************)
EXTENDS Partial

\* The memory of a place: every leaf holds a value, or none does.
Full(n, m) == \A l \in LeavesOf(n) : m[l] # "Uninit"
Empty(n, m) == \A l \in LeavesOf(n) : m[l] = "Uninit"

Inside(n) == Below[n] \ {n}

\* The path of a place in the tree.
StepTo(n) == <<IF \E m \in Nodes : n \in Fields[m] /\ Kind[m] = "array"
               THEN "Index" ELSE "Field", n>>
FullPath(n) == {StepTo(m) : m \in {k \in Nodes \ {Root} : n \in Below[k]}}

Depth(n) == Cardinality(FullPath(n))

StackPlaces(s) == {s[i].at : i \in 1..Len(s)}
StoredPlaces(st) == {st[p].at : p \in DOMAIN st}
Places(s, st) == StackPlaces(s) \cup StoredPlaces(st)

\* The stack runs down the tree from the root: each frame's cursor is at the
\* next frame's place, and the places up to a frame are all that contain it.
StackDescends(s) ==
    /\ s \in Seq(Frames)
    /\ \A i \in 1..Len(s) : FrameOK(s[i])
    /\ s # << >> => s[1].at = Root
    /\ \A i \in 1..Len(s) : Depth(s[i].at) = i - 1
    /\ \A i \in 1..Len(s) : i < Len(s) =>
          s[i + 1].at \in Fields[s[i].at] /\ s[i].cur = s[i + 1].at
    /\ \A i \in 1..Len(s) : \A n \in Nodes :
          s[i].at \in Below[n] <=> \E j \in 1..i : s[j].at = n

\* A stored frame is filed under the path of its place, which is not on the
\* stack as well.
StoredFiled(s, st) ==
    \A p \in DOMAIN st :
        /\ FrameOK(st[p])
        /\ p = FullPath(st[p].at)
        /\ st[p].at \notin StackPlaces(s)

\* Whatever contains a live place is live.
Closed(live) == \A n \in live : \A m \in Nodes : n \in Below[m] => m \in live

(***************************************************************************)
(* What the drop-ownership comment of partial/mod.rs asks of one frame: a  *)
(* composite frame is right about every field without a frame of its own,  *)
(* a Scalar frame is right about its whole place and has nothing live in   *)
(* it.                                                                     *)
(***************************************************************************)
Accounts(f, live, m) ==
    IF Composite(f)
    THEN \A c \in Fields[f.at] \ live :
            IF c \in f.iset THEN Full(c, m) ELSE Empty(c, m)
    ELSE /\ live \cap Inside(f.at) = {}
         /\ IF f.isInit THEN Full(f.at, m) ELSE Empty(f.at, m)

Agree(s, st, m) ==
    /\ m \in [Leaves -> Contents]
    /\ StackDescends(s)
    /\ StoredFiled(s, st)
    /\ Closed(Places(s, st))
    /\ \A i \in 1..Len(s) : Accounts(s[i], Places(s, st), m)
    /\ \A p \in DOMAIN st : Accounts(st[p], Places(s, st), m)

Building == {"Active", "Walking", "Cleaning", "Dropping"}

\* What the caller is assumed to do: it finishes deferred mode before it builds
\* or enters it again, replaces no place as a whole around stored frames, and
\* uses no arrays in deferred mode.
DocumentedUse ==
    /\ Usage \subseteq {"defer"}
    /\ "defer" \in Usage => \A n \in Nodes : Kind[n] # "array"

\* The phase of a call says whether there are frames, and where the cursor of
\* the top frame is.
Phases ==
    /\ phase \in Building <=> stack # << >>
    /\ phase \in {"Active", "Walking"} => Top.cur = NoChild
    /\ phase = "Walking" => mode = "Strict"
    /\ mode = "Deferred" \/ DOMAIN stored # {} => "defer" \in Usage
    /\ (Active /\ mode = "Strict") \/ phase \notin Building => DOMAIN stored = {}

Outcome ==
    /\ faults = {}
    /\ phase \in {"Returning", "Built", "Moved"} => Full(Root, mem)
    /\ phase = "Dropped" => Empty(Root, mem)
    /\ buffer = IF phase \in {"Dropped", "Moved"} /\ RootOwnership = "Owned"
                THEN "Freed" ELSE "Live"

(***************************************************************************)
(* The frames, the paths they are filed under and the memory agree at      *)
(* every step, in the middle of the loops of finish_deferred and of Drop   *)
(* too (partial/mod.rs, "Drop-ownership invariant").                       *)
(***************************************************************************)
OwnershipInv == TypeOK /\ Agree(stack, stored, mem) /\ Phases /\ Outcome

=============================================================================
