-------------------------------- MODULE Plans --------------------------------
(***************************************************************************)
(* TypePlan: the plan of a type is made once, by a walk over the graph of  *)
(* types that ends at the types it is in the middle of (BackRef) and does  *)
(* not repeat the ones it has finished; every frame of a Partial carries   *)
(* the node of the plan that belongs to its type, and every begin_* finds  *)
(* the node of the child from it.                                          *)
(*                                                                         *)
(* A shape has a kind, the types it is made of, and its proxies: the types *)
(* it is deserialized through, for one format or for any.  A field can     *)
(* have proxies of its own, and then its node is its own too.  A container *)
(* is any type whose children are known by its definition, not as fields:  *)
(* Option, Result, List, Map, Set, Array, Slice and smart pointers.        *)
(***************************************************************************)
EXTENDS Naturals, Sequences, SequencesExt, FiniteSets

CONSTANTS
    Shape,       \* the types there are, and what each of them is
    Roots,       \* the types Partials are allocated for
    Formats,     \* format namespaces that have proxies
    Usage,       \* which disputed uses the callers make, see below
    MaxCalls,    \* bound: calls of build_node inside each other
    MaxFrames,   \* bound: frames of a Partial
    MaxPartials  \* bound: Partials allocated one after the other

AnyFormat == "any"    \* proxy = .. without a format

(***************************************************************************)
(* Usage:                                                                  *)
(*   "bypass"    what is inside a container is begun although its field    *)
(*               has proxies (none of them for the format at hand): its    *)
(*               strategy is FieldProxy and no begin_* finds a child node, *)
(*               so that NeverPanics fails                                 *)
(***************************************************************************)
ASSUME UsageAssumption == Usage \subseteq {"bypass"}

\* A wrapper, like NonZero, has an inner type and is made from it by try_from.
Containers == {"option", "list", "map", "pointer"}

VARIABLES
    nodes,      \* TypePlanBuilder::nodes, an arena
    building,   \* types that were begun
    finished,   \* types that are done, and their nodes
    calls,      \* the calls of build_node that are not done, innermost last
    cache,      \* the process's plans
    plan,       \* Partial::root_plan, or NoPlan
    frames,     \* Partial's frames: their shape and node
    status,     \* "idle", "planning", "active" or "panicked"
    partials    \* how many Partials were allocated

builderVars == <<nodes, building, finished, calls>>
partialVars == <<plan, frames>>
vars == <<builderVars, cache, partialVars, status, partials>>

-----------------------------------------------------------------------------
(* What a call of build_node has to build *)

Plain(shape) == [shape |-> shape, proxies |-> << >>]

\* Slip: a field's proxies are not looked at.
IsAnyCall(call) == TRUE
IsPlain(call) == call.proxies = << >>

\* The proxies' own types: those of the field, or those of the shape.
ProxiesOf(call) == IF IsPlain(call) THEN Shape[call.shape].proxies ELSE call.proxies

\* Fields bring their proxies, everything else is plain.
PartsOf(shape) ==
    LET s == Shape[shape] IN
    CASE s.kind = "struct" -> s.fields
      [] s.kind = "enum" -> FlattenSeq(s.variants)
      [] OTHER -> [i \in DOMAIN s.args |-> Plain(s.args[i])]

WorkOf(call) ==
    [i \in DOMAIN ProxiesOf(call) |-> Plain(ProxiesOf(call)[i].shape)] \o PartsOf(call.shape)

(***************************************************************************)
(* Shapes as facet-core and the derive macro make them.  A part is a type  *)
(* there is; proxies are attributes of derived structs and enums (or of    *)
(* opaque ones, scalars here) and of fields, never of containers, which    *)
(* are library types; a wrapper is around a scalar that is made of         *)
(* nothing (NonZero's integer, Url's String).                              *)
(***************************************************************************)
Types == DOMAIN Shape
ProxySet == [format : Formats \cup {AnyFormat}, shape : Types]
CallSet == [shape : Types, proxies : Seq(ProxySet)]
ShapeKinds == Containers \cup {"struct", "enum", "wrapper", "scalar", "unsupported"}

ASSUME ShapesAssumption ==
    /\ Roots \subseteq Types
    /\ \A t \in Types :
        /\ Shape[t].kind \in ShapeKinds
        /\ Shape[t].proxies \in Seq(ProxySet)
        /\ PartsOf(t) \in Seq(CallSet)
        /\ Shape[t].kind \in Containers \cup {"wrapper"} => Shape[t].proxies = << >>
        /\ Shape[t].kind = "wrapper" =>
            /\ DOMAIN Shape[t].args = {1}
            /\ WorkOf(Plain(Shape[t].args[1])) = << >>

Call(call) == [shape |-> call.shape, proxies |-> call.proxies, done |-> << >>]

Top == Last(calls)
Complete == Len(Top.done) = Len(WorkOf(Top))
Next1 == WorkOf(Top)[Len(Top.done) + 1]

\* The innermost call gets the node it asked for.
Answer(stack, id) == [stack EXCEPT ![Len(stack)].done = Append(@, id)]

-----------------------------------------------------------------------------
(* The node of a call *)

\* A proxy comes first; a wrapper with an inner type is converted from it.
StrategyOf(call) ==
    LET s == Shape[call.shape] IN
    IF ~IsPlain(call) THEN "FieldProxy"
    ELSE IF s.proxies # << >> THEN "ContainerProxy"
    ELSE IF s.kind = "wrapper" THEN "TransparentConvert"
    ELSE s.kind

\* Slip: the proxies' nodes are not told from the parts'.
PartNodesFromStart(call) == SubSeq(call.done, 1, Len(PartsOf(call.shape)))

PartNodes(call) == SubSeq(call.done, Len(ProxiesOf(call)) + 1, Len(call.done))

NodeOf(call) ==
    [shape |-> call.shape, kind |-> Shape[call.shape].kind, strategy |-> StrategyOf(call),
     parts |-> PartNodes(call),
     proxies |-> [i \in DOMAIN ProxiesOf(call) |->
                    [format |-> ProxiesOf(call)[i].format, node |-> call.done[i]]]]

BackRef(shape) ==
    [shape |-> shape, kind |-> "BackRef", strategy |-> "BackRef", parts |-> << >>, proxies |-> << >>]

\* A node for this type is there already.
\* Slip: a finished type is built again.
KnownNever(call) == FALSE
Known(call) == IsPlain(call) /\ call.shape \in DOMAIN finished

\* Slip: the types that are being built are not remembered.
InProgressNever(call) == FALSE
InProgress(call) == IsPlain(call) /\ call.shape \in building

Reuse ==
    /\ status = "planning" /\ calls # << >> /\ ~Complete
    /\ Known(Next1)
    /\ calls' = Answer(calls, finished[Next1.shape])
    /\ UNCHANGED <<nodes, building, finished, cache, partialVars, status, partials>>

ReferBack ==
    /\ status = "planning" /\ calls # << >> /\ ~Complete
    /\ ~Known(Next1)
    /\ InProgress(Next1)
    /\ nodes' = Append(nodes, BackRef(Next1.shape))
    /\ calls' = Answer(calls, Len(nodes'))
    /\ UNCHANGED <<building, finished, cache, partialVars, status, partials>>

BuildNode ==
    /\ status = "planning" /\ calls # << >> /\ ~Complete
    /\ ~Known(Next1) /\ ~InProgress(Next1)
    /\ Len(calls) < MaxCalls
    /\ calls' = Append(calls, Call(Next1))
    /\ building' = IF IsPlain(Next1) THEN building \cup {Next1.shape} ELSE building
    /\ UNCHANGED <<nodes, finished, cache, partialVars, status, partials>>

\* A type that cannot be deserialized: the error goes all the way up, and
\* nothing is kept.
Unsupported ==
    /\ status = "planning" /\ calls # << >> /\ Complete
    /\ Shape[Top.shape].kind = "unsupported"
    /\ status' = "idle" /\ calls' = << >> /\ nodes' = << >> /\ building' = {} /\ finished' = << >>
    /\ UNCHANGED <<cache, partialVars, partials>>

\* Slip: a finished type is still taken to be in progress.
LeaveBuildingNot(call) == building
LeaveBuilding(call) == IF IsPlain(call) THEN building \ {call.shape} ELSE building

Alloc ==
    /\ status = "planning" /\ calls # << >> /\ Complete
    /\ Shape[Top.shape].kind # "unsupported"
    /\ LET id == Len(nodes) + 1 IN
        /\ nodes' = Append(nodes, NodeOf(Top))
        /\ finished' = IF IsPlain(Top)
                       THEN [t \in DOMAIN finished \cup {Top.shape} |->
                               IF t = Top.shape THEN id ELSE finished[t]]
                       ELSE finished
        /\ calls' = IF Len(calls) = 1 THEN << >> ELSE Answer(Front(calls), id)
    /\ building' = LeaveBuilding(Top)
    /\ UNCHANGED <<cache, partialVars, status, partials>>

-----------------------------------------------------------------------------
(* A Partial and its plan *)

NoPlan == [root |-> 0, nodes |-> << >>, lookup |-> << >>]

Frame(shape, node, proxies) ==
    [shape |-> shape, node |-> node, proxies |-> proxies]

Activate(shape, p) ==
    /\ plan' = p
    /\ frames' = <<Frame(shape, p.root, << >>)>>
    /\ status' = "active"

\* TypePlanCore::from_shape, under the lock of the cache.
FromCache(shape) ==
    /\ status = "idle" /\ partials < MaxPartials
    /\ shape \in DOMAIN cache
    /\ Activate(shape, cache[shape])
    /\ partials' = partials + 1
    /\ UNCHANGED <<builderVars, cache>>

FromShape(shape) ==
    /\ status = "idle" /\ partials < MaxPartials
    /\ shape \notin DOMAIN cache
    /\ status' = "planning"
    /\ calls' = <<Call(Plain(shape))>>
    /\ building' = {shape} /\ finished' = << >> /\ nodes' = << >>
    /\ partials' = partials + 1
    /\ UNCHANGED <<cache, partialVars>>

Finish ==
    /\ status = "planning" /\ calls = << >>
    /\ LET root == Len(nodes)
           shape == nodes[root].shape
           p == [root |-> root, nodes |-> nodes, lookup |-> finished] IN
        /\ cache' = [t \in DOMAIN cache \cup {shape} |-> IF t = shape THEN p ELSE cache[t]]
        /\ Activate(shape, p)
    /\ nodes' = << >> /\ finished' = << >>
    /\ UNCHANGED <<building, calls, partials>>

-----------------------------------------------------------------------------
(* From a node to the nodes of its parts *)

Node(id) == plan.nodes[id]

ResolveBackRef(id) ==
    IF Node(id).kind = "BackRef" THEN plan.lookup[Node(id).shape] ELSE id

\* By kind, so a struct's proxies do not matter.
FieldNode(id, i) == Node(ResolveBackRef(id)).parts[i]

\* By strategy, so a container's proxies do; 0 is none.
\* Slip: the reference back is not followed.
PartNodeHere(id, i) == IF Node(id).strategy \in Containers THEN Node(id).parts[i] ELSE 0

PartNode(id, i) ==
    LET n == Node(ResolveBackRef(id)) IN
    IF n.strategy \in Containers THEN n.parts[i] ELSE 0

InnerNode(id) ==
    IF Node(id).strategy = "TransparentConvert" THEN Node(id).parts[1] ELSE 0

\* The proxy for a format: its own, or the one for any.
For(format, proxies) ==
    LET own == {i \in DOMAIN proxies : proxies[i].format = format}
        any == {i \in DOMAIN proxies : proxies[i].format = AnyFormat}
        found == IF own # {} THEN own ELSE any IN
    proxies[CHOOSE i \in found : \A j \in found : i <= j]

Offers(format, proxies) == \E i \in DOMAIN proxies : proxies[i].format \in {format, AnyFormat}

Current == Last(frames)
KindOf(f) == Shape[f.shape].kind

Push(f) ==
    /\ Len(frames) < MaxFrames
    /\ frames' = Append(frames, f)
    /\ UNCHANGED <<builderVars, cache, plan, status, partials>>

\* Option::expect on a child node that is not there.
Panic ==
    /\ status' = "panicked"
    /\ UNCHANGED <<builderVars, cache, partialVars, partials>>

\* Fields of an enum are those of any variant: it is selected before.
BeginField(i) ==
    /\ status = "active"
    /\ KindOf(Current) \in {"struct", "enum"}
    /\ i \in DOMAIN PartsOf(Current.shape)
    /\ LET part == PartsOf(Current.shape)[i] IN
        Push(Frame(part.shape, FieldNode(Current.node, i), part.proxies))

\* begin_list_item, begin_some, begin_key, begin_value, begin_smart_ptr
BeginPart(i) ==
    /\ status = "active"
    /\ KindOf(Current) \in Containers
    /\ i \in DOMAIN Shape[Current.shape].args
    /\ Current.proxies = << >> \/ "bypass" \in Usage
    /\ LET node == PartNode(Current.node, i) IN
        IF node = 0 THEN Panic
        ELSE Push(Frame(Shape[Current.shape].args[i], node, << >>))

\* Without a node for the inner type the wrapper's own is taken.
BeginInner ==
    /\ status = "active"
    /\ KindOf(Current) = "wrapper"
    /\ Current.proxies = << >> \/ "bypass" \in Usage
    /\ LET node == InnerNode(Current.node) IN
        Push(Frame(Shape[Current.shape].args[1], IF node = 0 THEN Current.node ELSE node, << >>))

\* begin_custom_deserialization_with_format, and .._from_shape_with_format
BeginProxy(format) ==
    /\ status = "active"
    /\ LET n == Node(ResolveBackRef(Current.node))
           proxies == IF n.strategy = "FieldProxy" THEN Current.proxies
                      ELSE Shape[Current.shape].proxies IN
        /\ n.strategy \in {"FieldProxy", "ContainerProxy"}
        /\ Offers(format, n.proxies) /\ Offers(format, proxies)
        /\ Push(Frame(For(format, proxies).shape, For(format, n.proxies).node, << >>))

\* The frame is complete by now; how it gets there is not told here.
End ==
    /\ status = "active" /\ Len(frames) > 1
    /\ frames' = Front(frames)
    /\ UNCHANGED <<builderVars, cache, plan, status, partials>>

\* build() and drop()
Leave ==
    /\ status = "active"
    /\ status' = "idle" /\ plan' = NoPlan /\ frames' = << >>
    /\ UNCHANGED <<builderVars, cache, partials>>

Init ==
    /\ nodes = << >> /\ building = {} /\ finished = << >> /\ calls = << >>
    /\ cache = << >> /\ plan = NoPlan /\ frames = << >>
    /\ status = "idle" /\ partials = 0

BuilderNext == Reuse \/ ReferBack \/ BuildNode \/ Unsupported \/ Alloc \/ Finish

PlansNext ==
    \/ BuilderNext
    \/ \E shape \in Roots : FromCache(shape) \/ FromShape(shape)
    \/ \E i \in Nat : BeginField(i) \/ BeginPart(i)
    \/ BeginInner
    \/ \E format \in Formats : BeginProxy(format)
    \/ End \/ Leave

\* The builder and the frames by themselves; what a build() validates is in
\* Validation, whose steps are steps of this.
PlansSpec == Init /\ [][PlansNext]_vars

-----------------------------------------------------------------------------
(***************************************************************************)
(* A type is in `building` exactly while a call for it runs, and never in  *)
(* `finished` then.  So the two together decide every call, and the cycle  *)
(* is cut at the call that closes it.                                      *)
(***************************************************************************)
TypeOK ==
    /\ status \in {"idle", "planning", "active", "panicked"}
    /\ building = {calls[i].shape : i \in {j \in DOMAIN calls : IsPlain(calls[j])}}
    /\ building \cap DOMAIN finished = {}
    /\ \A t \in DOMAIN finished : nodes[finished[t]].shape = t
    /\ DOMAIN cache \subseteq Roots
    /\ status = "active" => frames # << >> /\ plan # NoPlan

(***************************************************************************)
(* Each type has one node, however many paths lead to it: the plan is as   *)
(* big as the types, not as the paths.  Only a field's proxies make a node *)
(* of its own.                                                             *)
(***************************************************************************)
OnePerType ==
    \A p \in {plan.nodes, nodes} : \A i, j \in DOMAIN p :
        /\ p[i].shape = p[j].shape
        /\ p[i].strategy \notin {"BackRef", "FieldProxy"}
        /\ p[j].strategy \notin {"BackRef", "FieldProxy"}
        => i = j

(***************************************************************************)
(* The frames of a Partial, and the nodes they carry, go down the same     *)
(* way: each frame's node is the one that was built from its type, over    *)
(* references back, shared nodes and proxies.                              *)
(***************************************************************************)
PlanFollowsShape ==
    \A i \in DOMAIN frames : Node(ResolveBackRef(frames[i].node)).shape = frames[i].shape

(***************************************************************************)
(* The proxies that are offered to a frame are its field's, or else its    *)
(* type's own: a type keeps its proxies where one field has others, and    *)
(* has none where only a field has them.                                   *)
(***************************************************************************)
OwnProxies ==
    \A i \in DOMAIN frames :
        LET f == frames[i]
            declared == IF f.proxies # << >> THEN f.proxies ELSE Shape[f.shape].proxies
            offered == Node(ResolveBackRef(f.node)).proxies IN
        /\ Len(offered) = Len(declared)
        /\ \A k \in DOMAIN offered :
            /\ offered[k].format = declared[k].format
            /\ Node(ResolveBackRef(offered[k].node)).shape = declared[k].shape

(***************************************************************************)
(* No begin_* is without a node for the child ("TypePlan must have ..").   *)
(***************************************************************************)
NeverPanics == status # "panicked"

(***************************************************************************)
(* Making a plan ends, for recursive types and for types whose proxies     *)
(* lead back to them.  (Each step of it is the program's own.)             *)
(***************************************************************************)
PlansEnd == status = "planning" ~> status # "planning"

=============================================================================
