------------------------------- MODULE Shapes -------------------------------
(***************************************************************************)
(* The type a Partial builds, as the tree of the places of one value.      *)
(*                                                                         *)
(* facet describes a type by a Shape; what the incremental builder needs   *)
(* of it is which places a value has, which of them are composite (struct  *)
(* fields and array elements live inline in their parent's memory), and    *)
(* which of them can be filled from a default.  A leaf is a place that is  *)
(* only ever written as a whole.                                           *)
(***************************************************************************)
EXTENDS Naturals, FiniteSets

CONSTANTS
    Nodes,          \* the places of the value, Root included
    Root,           \* the value itself
    Kind,           \* Kind[n] \in {"leaf", "struct", "array"}
    Fields,         \* Fields[n]: the fields, or elements, of n
    Below,          \* Below[n]: n and everything inside it
    FieldDefault,   \* fields with a usable default (#[facet(default)], Option)
    SelfDefault     \* places an untouched frame fills by itself: structs that
                    \* implement Default, and Options (None)

(***************************************************************************)
(* The places form a finite tree rooted at Root.  Composite places have at *)
(* least one field: Frame::new starts a field-less struct initialised, so  *)
(* it behaves as a leaf that is written at birth and is not modelled.      *)
(***************************************************************************)
ASSUME NodesAssumption ==
    /\ IsFiniteSet(Nodes)
    /\ Root \in Nodes
    /\ Kind \in [Nodes -> {"leaf", "struct", "array"}]
    /\ Fields \in [Nodes -> SUBSET Nodes]
    /\ Below \in [Nodes -> SUBSET Nodes]
    /\ FieldDefault \subseteq Nodes
    /\ SelfDefault \subseteq Nodes

ASSUME TreeAssumption ==
    /\ Below[Root] = Nodes
    /\ \A n \in Nodes : (Kind[n] = "leaf") <=> (Fields[n] = {})
    /\ \A n \in Nodes : n \in Below[n]
    /\ \A n \in Nodes : Below[n] = {n} \cup UNION {Below[c] : c \in Fields[n]}
    /\ \A n \in Nodes : \A c \in Fields[n] : n \notin Below[c]
    /\ \A n \in Nodes : \A c, d \in Fields[n] :
            c # d => Below[c] \cap Below[d] = {}
    /\ \A m, n \in Nodes : \A c \in Fields[m] : c \in Fields[n] => m = n
    /\ \A m, n \in Nodes : n \in Below[m] => Below[n] \subseteq Below[m]
    /\ \A m, n \in Nodes : Below[m] \cap Below[n] # {} => m \in Below[n] \/ n \in Below[m]
    /\ \A n \in Nodes \ {Root} : \E m \in Nodes : n \in Fields[m]
    /\ \A m, n \in Nodes : n \in Below[m] /\ m \in Below[n] => m = n

\* Container defaults exist for structs, frame-level defaults for leaves
\* (Option); an array frame never fills itself.
ASSUME DefaultAssumption ==
    \A n \in SelfDefault : Kind[n] # "array"

Leaves == {n \in Nodes : Kind[n] = "leaf"}

\* The leaves whose memory lies inside n.
LeavesOf(n) == {l \in Below[n] : Kind[l] = "leaf"}

=============================================================================
