---------------------------- MODULE Plans_proofs ----------------------------
(***************************************************************************)
(* The plan of a type, for every set of types that facet can describe.     *)
(*                                                                         *)
(* What is said of a finished plan is said of the arena from the first     *)
(* node on: a node is made like its shape, and the nodes it names are made *)
(* like the shapes of its parts and proxies (Arena).  The arena only       *)
(* grows, so a node stays what it was (StaysFit).  What makes a plan whole *)
(* at its end is that a type in `building` has a call that runs, so with   *)
(* the last call every reference back has its target in `finished`.  From  *)
(* then on the frames of a Partial only follow the names in the plan.      *)
(***************************************************************************)
EXTENDS Plans, SequenceTheorems, WellFoundedInduction, TLAPS

IsSeq(s) == s \in Seq({s[i] : i \in DOMAIN s})

\* Node id of the arena ns is one that a plain call for type t returns.
FitsPlain(ns, id, t) ==
    id \in 1..Len(ns) /\ ns[id].shape = t /\ ns[id].strategy # "FieldProxy"

\* Node n has the nodes of these proxies.
ProxiesFit(ns, n, proxies) ==
    /\ Len(n.proxies) = Len(proxies) /\ DOMAIN n.proxies = DOMAIN proxies
    /\ \A k \in DOMAIN proxies :
        /\ n.proxies[k].format = proxies[k].format
        /\ FitsPlain(ns, n.proxies[k].node, proxies[k].shape)

\* The same of any call: build_node_with_proxy.
Fits(ns, id, call) ==
    IF IsPlain(call) THEN FitsPlain(ns, id, call.shape)
    ELSE /\ id \in 1..Len(ns)
         /\ ns[id].shape = call.shape
         /\ ns[id].strategy = "FieldProxy"
         /\ ns[id].kind = Shape[call.shape].kind
         /\ ProxiesFit(ns, ns[id], call.proxies)

\* Node n is made like its shape, as the builder or as BackRef makes it.
NodeMade(ns, n) ==
    /\ n.shape \in Types
    /\ \/ n.kind = "BackRef" /\ n.strategy = "BackRef" /\ Shape[n.shape].kind # "wrapper"
       \/ /\ n.kind = Shape[n.shape].kind
          /\ n.strategy # "FieldProxy" =>
                /\ n.strategy = StrategyOf(Plain(n.shape))
                /\ ProxiesFit(ns, n, Shape[n.shape].proxies)
          /\ DOMAIN n.parts = DOMAIN PartsOf(n.shape)
          /\ \A i \in DOMAIN n.parts : Fits(ns, n.parts[i], PartsOf(n.shape)[i])

Arena(ns) == IsSeq(ns) /\ \A id \in 1..Len(ns) : NodeMade(ns, ns[id])

\* The nodes that types are looked up to, with the types `open` still to come.
Resolves(ns, lookup, open) ==
    /\ \A t \in DOMAIN lookup : FitsPlain(ns, lookup[t], t) /\ ns[lookup[t]].kind # "BackRef"
    /\ \A id \in 1..Len(ns) :
        /\ ns[id].kind = "BackRef" => ns[id].shape \in DOMAIN lookup \cup open
        /\ ns[id].strategy \notin {"BackRef", "FieldProxy"} =>
            ns[id].shape \in DOMAIN lookup /\ lookup[ns[id].shape] = id

\* A node that can be a plan's root.
RootNode(n) == n.shape \in Roots /\ n.strategy # "FieldProxy" /\ n.kind # "BackRef"

PlanMade(p) ==
    /\ Arena(p.nodes)
    /\ Resolves(p.nodes, p.lookup, {})
    /\ p.root \in 1..Len(p.nodes)
    /\ RootNode(p.nodes[p.root])

\* A call has nodes for the first parts of its work; the next one is what the
\* call above it builds.
CallMade(ns, c) ==
    /\ Len(c.done) <= Len(WorkOf(c))
    /\ \A k \in 1..Len(c.done) : Fits(ns, c.done[k], WorkOf(c)[k])

Asked(c, d) ==
    /\ Len(c.done) < Len(WorkOf(c))
    /\ WorkOf(c)[Len(c.done) + 1] = [shape |-> d.shape, proxies |-> d.proxies]

Running(cs) == {cs[i].shape : i \in {j \in DOMAIN cs : IsPlain(cs[j])}}

CallRecords == [shape : Types, proxies : Seq(ProxySet), done : Seq(Nat)]

CallsMade(ns, cs) ==
    /\ cs \in Seq(CallRecords)
    /\ \A i \in 1..Len(cs) : CallMade(ns, cs[i])
    /\ \A i \in 1..Len(cs) : i < Len(cs) => Asked(cs[i], cs[i + 1])
    /\ cs # << >> => IsPlain(cs[1]) /\ cs[1].shape \in Roots
    /\ \A i, j \in 1..Len(cs) :
        IsPlain(cs[i]) /\ IsPlain(cs[j]) /\ cs[i].shape = cs[j].shape => i = j

BuilderInv ==
    /\ Arena(nodes)
    /\ Resolves(nodes, finished, building)
    /\ CallsMade(nodes, calls)
    /\ building = Running(calls)
    /\ building \cap DOMAIN finished = {}
    /\ status # "planning" => nodes = << >> /\ calls = << >> /\ finished = << >>
    /\ status = "planning" /\ calls = << >> => nodes # << >> /\ RootNode(nodes[Len(nodes)])

CacheInv ==
    \A t \in DOMAIN cache : t \in Roots /\ PlanMade(cache[t]) /\ cache[t].nodes[cache[t].root].shape = t

\* A frame has the node of its field or type.
FrameMade(p, f) == Fits(p.nodes, f.node, [shape |-> f.shape, proxies |-> f.proxies])

FrameSet == [shape : Types, node : Nat, proxies : Seq(ProxySet)]

FramesMade(p, fs) == fs \in Seq(FrameSet) /\ \A i \in 1..Len(fs) : FrameMade(p, fs[i])

PartialInv ==
    /\ status \in {"idle", "planning", "active"}
    /\ status = "active" => PlanMade(plan) /\ frames # << >>
    /\ status # "active" => plan = NoPlan /\ frames = << >>
    /\ FramesMade(plan, frames)

PlansInv == BuilderInv /\ CacheInv /\ PartialInv

-----------------------------------------------------------------------------
(* Sequences *)

LEMMA SeqIs ==
    ASSUME NEW S, NEW s \in Seq(S)
    PROVE  IsSeq(s)
<1>1. Len(s) \in Nat /\ DOMAIN s = 1..Len(s)
  OBVIOUS
<1>2. s \in [1..Len(s) -> {s[i] : i \in DOMAIN s}]
  BY <1>1
<1> QED
  BY <1>1, <1>2 DEF IsSeq

LEMMA SeqFacts ==
    ASSUME NEW s, IsSeq(s)
    PROVE  Len(s) \in Nat /\ DOMAIN s = 1..Len(s) /\ (s # << >> => Len(s) > 0)
BY DEF IsSeq

LEMMA Appended ==
    ASSUME NEW s, IsSeq(s), NEW e
    PROVE  /\ IsSeq(Append(s, e))
           /\ Append(s, e) # << >>
           /\ Len(Append(s, e)) = Len(s) + 1
           /\ DOMAIN Append(s, e) = 1..Len(s) + 1
           /\ \A i \in 1..Len(s) : Append(s, e)[i] = s[i]
           /\ Append(s, e)[Len(s) + 1] = e
<1>1. PICK S : s \in Seq(S) /\ e \in S
  <2> DEFINE S == {s[i] : i \in DOMAIN s} \cup {e}
  <2>1. s \in Seq(S) /\ e \in S
    BY DEF IsSeq
  <2> QED
    BY <2>1
<1>2. /\ Append(s, e) \in Seq(S)
      /\ Append(s, e) # << >>
      /\ Len(Append(s, e)) = Len(s) + 1
      /\ \A i \in 1..Len(s) : Append(s, e)[i] = s[i]
      /\ Append(s, e)[Len(s) + 1] = e
  BY <1>1, AppendProperties
<1>3. DOMAIN Append(s, e) = 1..Len(s) + 1
  BY <1>2, LenProperties
<1> QED
  BY <1>2, <1>3, SeqIs

LEMMA AllButLast ==
    ASSUME NEW S, NEW s \in Seq(S), s # << >>
    PROVE  /\ Front(s) \in Seq(S)
           /\ Len(Front(s)) = Len(s) - 1
           /\ \A i \in 1..Len(s) - 1 : Front(s)[i] = s[i]
           /\ Last(s) = s[Len(s)] /\ Last(s) \in S
           /\ Len(s) \in Nat \ {0}
<1>1. Len(s) \in Nat \ {0} /\ \A i \in 1..Len(s) : s[i] \in S
  BY EmptySeq, ElementOfSeq
<1> DEFINE n == Len(s) - 1
           r == SubSeq(s, 1, n)
<1>2. n \in Nat /\ n = Len(s) - 1 /\ \A i \in 1..n : s[i] \in S
  BY <1>1
<1>3. Front(s) = r
  BY DEF Front
<1> HIDE DEF n
<1>4. /\ r \in Seq(S)
      /\ Len(r) = IF 1 <= n THEN n - 1 + 1 ELSE 0
      /\ \A i \in 1..n - 1 + 1 : r[i] = s[1 + i - 1]
  <2>1. 1 \in Int /\ n \in Int
    BY <1>2
  <2> QED
    BY <1>2, <2>1, SubSeqProperties
<1> HIDE DEF r
<1>5. Len(r) = n /\ \A i \in 1..n : r[i] = s[i]
  BY <1>2, <1>4
<1> QED
  BY <1>1, <1>2, <1>3, <1>4, <1>5 DEF Last

-----------------------------------------------------------------------------
(* The arena only grows *)

\* Arena::alloc appends: an id keeps its node.
LEMMA StaysPlain ==
    ASSUME NEW ns, IsSeq(ns), NEW e, NEW id, NEW t, FitsPlain(ns, id, t)
    PROVE  FitsPlain(Append(ns, e), id, t) /\ Append(ns, e)[id] = ns[id]
BY SeqFacts, Appended DEF FitsPlain

LEMMA StaysProxies ==
    ASSUME NEW ns, IsSeq(ns), NEW e, NEW n, NEW proxies, ProxiesFit(ns, n, proxies)
    PROVE  ProxiesFit(Append(ns, e), n, proxies)
BY StaysPlain DEF ProxiesFit

LEMMA StaysFit ==
    ASSUME NEW ns, IsSeq(ns), NEW e, NEW id, NEW call, Fits(ns, id, call)
    PROVE  Fits(Append(ns, e), id, call)
<1>1. CASE IsPlain(call)
  BY <1>1, StaysPlain DEF Fits
<1>2. CASE ~IsPlain(call)
  <2>1. id \in 1..Len(ns) /\ ProxiesFit(ns, ns[id], call.proxies)
    BY <1>2 DEF Fits
  <2>2. Append(ns, e)[id] = ns[id] /\ id \in 1..Len(Append(ns, e))
    BY <2>1, SeqFacts, Appended
  <2>3. ProxiesFit(Append(ns, e), ns[id], call.proxies)
    BY <2>1, StaysProxies
  <2> QED
    BY <1>2, <2>2, <2>3 DEF Fits
<1> QED
  BY <1>1, <1>2

LEMMA StaysMade ==
    ASSUME NEW ns, IsSeq(ns), NEW e, NEW n, NodeMade(ns, n)
    PROVE  NodeMade(Append(ns, e), n)
<1>1. ASSUME NEW proxies, ProxiesFit(ns, n, proxies) PROVE ProxiesFit(Append(ns, e), n, proxies)
  BY <1>1, StaysProxies
<1>2. ASSUME NEW id, NEW call, Fits(ns, id, call) PROVE Fits(Append(ns, e), id, call)
  BY <1>2, StaysFit
<1> QED
  BY <1>1, <1>2 DEF NodeMade

LEMMA ArenaGrows ==
    ASSUME NEW ns, Arena(ns), NEW n, NodeMade(ns, n)
    PROVE  Arena(Append(ns, n))
<1>1. IsSeq(ns) /\ Len(ns) \in Nat
  BY SeqFacts DEF Arena
<1>2. ASSUME NEW id \in 1..Len(Append(ns, n)) PROVE NodeMade(Append(ns, n), Append(ns, n)[id])
  <2>1. CASE id \in 1..Len(ns)
    BY <1>1, <2>1, Appended, StaysMade DEF Arena
  <2>2. CASE id = Len(ns) + 1
    BY <1>1, <2>2, Appended, StaysMade
  <2> QED
    BY <1>1, <2>1, <2>2, Appended
<1> QED
  BY <1>1, <1>2, Appended DEF Arena

-----------------------------------------------------------------------------
(* What a call builds *)

IsCall(c) == c.shape \in Types /\ c.proxies \in Seq(ProxySet)

\* The work of a call: a node for each proxy, then one for each part.
LEMMA WorkFacts ==
    ASSUME NEW c, IsCall(c)
    PROVE  /\ ProxiesOf(c) \in Seq(ProxySet) /\ PartsOf(c.shape) \in Seq(CallSet)
           /\ WorkOf(c) \in Seq(CallSet)
           /\ Len(WorkOf(c)) = Len(ProxiesOf(c)) + Len(PartsOf(c.shape))
           /\ \A i \in 1..Len(ProxiesOf(c)) : WorkOf(c)[i] = Plain(ProxiesOf(c)[i].shape)
           /\ \A i \in 1..Len(PartsOf(c.shape)) :
                WorkOf(c)[Len(ProxiesOf(c)) + i] = PartsOf(c.shape)[i]
<1> DEFINE P == ProxiesOf(c)
           first == [i \in DOMAIN P |-> Plain(P[i].shape)]
           parts == PartsOf(c.shape)
<1>1. P \in Seq(ProxySet) /\ parts \in Seq(CallSet)
  BY ShapesAssumption DEF IsCall, ProxiesOf
<1>2. Len(P) \in Nat /\ DOMAIN P = 1..Len(P) /\ Len(parts) \in Nat
  BY <1>1
<1>3. \A i \in 1..Len(P) : Plain(P[i].shape) \in CallSet
  <2>1. \A i \in 1..Len(P) : P[i] \in ProxySet
    BY <1>1
  <2>2. << >> \in Seq(ProxySet)
    OBVIOUS
  <2> QED
    BY <2>1, <2>2 DEF ProxySet, CallSet, Plain
<1>4. first \in Seq(CallSet) /\ Len(first) = Len(P)
  BY <1>2, <1>3
<1>5. WorkOf(c) = first \o parts
  BY DEF WorkOf
<1>6. \A i \in 1..Len(P) : first[i] = Plain(P[i].shape)
  BY <1>2
<1> HIDE DEF first, P, parts
<1>7. /\ first \o parts \in Seq(CallSet)
      /\ Len(first \o parts) = Len(P) + Len(parts)
      /\ \A i \in 1..Len(P) + Len(parts) :
            (first \o parts)[i] = IF i <= Len(P) THEN first[i] ELSE parts[i - Len(P)]
  BY <1>1, <1>4, ConcatProperties
<1>8. \A i \in 1..Len(P) : (first \o parts)[i] = Plain(P[i].shape)
  BY <1>2, <1>6, <1>7
<1>9. \A i \in 1..Len(parts) : (first \o parts)[Len(P) + i] = parts[i]
  BY <1>2, <1>7
<1> QED
  BY <1>1, <1>5, <1>7, <1>8, <1>9 DEF P, parts

\* compute_strategy: a plain call never gives FieldProxy, a call for a field
\* with proxies always.
LEMMA StrategyFacts ==
    ASSUME NEW c, IsCall(c)
    PROVE  /\ IsPlain(c) => StrategyOf(c) = StrategyOf(Plain(c.shape))
           /\ IsPlain(c) => StrategyOf(c) \notin {"BackRef", "FieldProxy"}
           /\ ~IsPlain(c) => StrategyOf(c) = "FieldProxy"
           /\ Shape[c.shape].kind # "BackRef"
           /\ Shape[c.shape].kind \in Containers => StrategyOf(Plain(c.shape)) = Shape[c.shape].kind
           /\ Shape[c.shape].kind = "wrapper" => StrategyOf(Plain(c.shape)) = "TransparentConvert"
<1>1. Shape[c.shape].kind \in ShapeKinds
  BY ShapesAssumption DEF IsCall
<1>2. Shape[c.shape].kind \in Containers \cup {"wrapper"} => Shape[c.shape].proxies = << >>
  BY ShapesAssumption DEF IsCall
<1>3. Plain(c.shape).shape = c.shape /\ IsPlain(Plain(c.shape))
  BY DEF Plain, IsPlain
<1> QED
  BY <1>1, <1>2, <1>3 DEF StrategyOf, ShapeKinds, Containers, IsPlain

\* PartNodes, NodeOf: the node of a finished call is made like its shape.
LEMMA NodeOfMade ==
    ASSUME NEW c, IsCall(c), c.done \in Seq(Nat), NEW ns, IsSeq(ns),
           Len(c.done) = Len(WorkOf(c)),
           \A k \in 1..Len(c.done) : Fits(ns, c.done[k], WorkOf(c)[k])
    PROVE  /\ NodeMade(ns, NodeOf(c))
           /\ Fits(Append(ns, NodeOf(c)), Len(ns) + 1, [shape |-> c.shape, proxies |-> c.proxies])
           /\ NodeOf(c).shape = c.shape /\ NodeOf(c).kind # "BackRef"
           /\ NodeOf(c).strategy # "BackRef"
           /\ NodeOf(c).strategy = "FieldProxy" <=> ~IsPlain(c)
<1> DEFINE n == NodeOf(c)
           P == ProxiesOf(c)
           parts == PartsOf(c.shape)
<1>1. /\ P \in Seq(ProxySet) /\ parts \in Seq(CallSet)
      /\ Len(c.done) = Len(P) + Len(parts)
      /\ \A i \in 1..Len(P) : WorkOf(c)[i] = Plain(P[i].shape)
      /\ \A i \in 1..Len(parts) : WorkOf(c)[Len(P) + i] = parts[i]
  BY WorkFacts
<1>2. Len(P) \in Nat /\ DOMAIN P = 1..Len(P) /\ Len(parts) \in Nat /\ DOMAIN parts = 1..Len(parts)
  BY <1>1
<1>3. /\ n.shape = c.shape /\ n.kind = Shape[c.shape].kind /\ n.strategy = StrategyOf(c)
      /\ n.parts = PartNodes(c)
      /\ n.proxies = [i \in DOMAIN P |-> [format |-> P[i].format, node |-> c.done[i]]]
  BY DEF NodeOf
<1>4. DOMAIN n.parts = 1..Len(parts) /\ \A i \in 1..Len(parts) : n.parts[i] = c.done[Len(P) + i]
  <2> DEFINE a == Len(P) + 1
             b == Len(c.done)
             r == SubSeq(c.done, a, b)
  <2>1. a \in Int /\ b \in Int /\ \A i \in a..b : c.done[i] \in Nat
    BY <1>1, <1>2
  <2>2. b - a + 1 = Len(parts) /\ (a <= b <=> 1 <= Len(parts)) /\ a = Len(P) + 1
    BY <1>1, <1>2
  <2> HIDE DEF a, b
  <2>3. /\ r \in Seq(Nat)
        /\ Len(r) = IF a <= b THEN b - a + 1 ELSE 0
        /\ \A i \in 1..b - a + 1 : r[i] = c.done[a + i - 1]
    BY <2>1, SubSeqProperties
  <2> HIDE DEF r
  <2>4. Len(r) = Len(parts) /\ DOMAIN r = 1..Len(parts)
    BY <1>2, <2>1, <2>2, <2>3
  <2>5. \A i \in 1..Len(parts) : r[i] = c.done[Len(P) + i]
    BY <1>2, <2>1, <2>2, <2>3
  <2>6. n.parts = r
    BY <1>3 DEF PartNodes, r, a, b
  <2> QED
    BY <2>4, <2>5, <2>6
<1>5. \A i \in 1..Len(parts) : Fits(ns, n.parts[i], parts[i])
  <2> SUFFICES ASSUME NEW i \in 1..Len(parts) PROVE Fits(ns, c.done[Len(P) + i], parts[i])
    BY <1>4
  <2>1. Len(P) + i \in 1..Len(c.done)
    BY <1>1, <1>2
  <2> QED
    BY <1>1, <2>1
<1>6. ProxiesFit(ns, n, P)
  <2>1. Len(n.proxies) = Len(P) /\ DOMAIN n.proxies = DOMAIN P
    BY <1>2, <1>3
  <2>2. ASSUME NEW k \in DOMAIN P
        PROVE  n.proxies[k].format = P[k].format /\ FitsPlain(ns, n.proxies[k].node, P[k].shape)
    <3>1. k \in 1..Len(c.done) /\ k \in 1..Len(P)
      BY <1>1, <1>2
    <3>2. Fits(ns, c.done[k], Plain(P[k].shape))
      BY <1>1, <3>1
    <3>3. FitsPlain(ns, c.done[k], P[k].shape)
      BY <3>2 DEF Fits, IsPlain, Plain
    <3> QED
      BY <1>3, <3>3
  <2> QED
    BY <2>1, <2>2 DEF ProxiesFit
<1>7. /\ IsPlain(c) => P = Shape[c.shape].proxies
      /\ ~IsPlain(c) => P = c.proxies
  BY DEF ProxiesOf
<1>8. NodeMade(ns, n)
  <2>1. n.shape \in Types
    BY <1>3 DEF IsCall
  <2>2. n.strategy # "FieldProxy" =>
            n.strategy = StrategyOf(Plain(n.shape)) /\ ProxiesFit(ns, n, Shape[n.shape].proxies)
    BY <1>3, <1>6, <1>7, StrategyFacts
  <2> HIDE DEF n
  <2> QED
    BY <1>2, <1>3, <1>4, <1>5, <2>1, <2>2 DEF NodeMade
<1>9. Fits(Append(ns, n), Len(ns) + 1, [shape |-> c.shape, proxies |-> c.proxies])
  <2>1. Append(ns, n)[Len(ns) + 1] = n /\ Len(ns) + 1 \in 1..Len(Append(ns, n))
    BY SeqFacts, Appended
  <2>2. ProxiesFit(Append(ns, n), n, P)
    BY <1>6, StaysProxies
  <2> HIDE DEF n
  <2> QED
    BY <1>3, <1>7, <2>1, <2>2, StrategyFacts DEF Fits, FitsPlain, IsPlain
<1> QED
  BY <1>3, <1>8, <1>9, StrategyFacts

-----------------------------------------------------------------------------
(* The stack of calls *)

LEMMA CallTyped ==
    ASSUME NEW c \in CallRecords
    PROVE  IsCall(c) /\ c.done \in Seq(Nat) /\ Len(c.done) \in Nat /\ Len(WorkOf(c)) \in Nat
<1>1. IsCall(c) /\ c.done \in Seq(Nat)
  BY DEF CallRecords, IsCall
<1> QED
  BY <1>1, WorkFacts

\* What is said of calls stays true while the arena grows.
LEMMA CallsStay ==
    ASSUME NEW ns, IsSeq(ns), NEW e, NEW cs, CallsMade(ns, cs)
    PROVE  CallsMade(Append(ns, e), cs)
<1>1. ASSUME NEW i \in 1..Len(cs) PROVE CallMade(Append(ns, e), cs[i])
  <2>1. CallMade(ns, cs[i])
    BY DEF CallsMade
  <2> QED
    BY <2>1, StaysFit DEF CallMade
<1> QED
  BY <1>1 DEF CallsMade

\* The innermost call gets the node it asked for.
LEMMA Answered ==
    ASSUME NEW ns, NEW cs, CallsMade(ns, cs), cs # << >>, NEW id \in Nat,
           Len(Last(cs).done) < Len(WorkOf(Last(cs))),
           Fits(ns, id, WorkOf(Last(cs))[Len(Last(cs).done) + 1])
    PROVE  /\ CallsMade(ns, Answer(cs, id))
           /\ Answer(cs, id) # << >>
           /\ Running(Answer(cs, id)) = Running(cs)
<1> DEFINE n == Len(cs)
           top == cs[n]
           new == [top EXCEPT !.done = Append(@, id)]
           r == Answer(cs, id)
<1>1. cs \in Seq(CallRecords) /\ n \in Nat \ {0} /\ n \in 1..n /\ Last(cs) = top
  BY AllButLast DEF CallsMade, Last
<1>2. top \in CallRecords /\ \A i \in 1..n : cs[i] \in CallRecords
  BY <1>1
<1>3. top.done \in Seq(Nat) /\ Len(top.done) \in Nat
  BY <1>2, CallTyped
<1>4. /\ Append(top.done, id) \in Seq(Nat)
      /\ Len(Append(top.done, id)) = Len(top.done) + 1
      /\ \A k \in 1..Len(top.done) : Append(top.done, id)[k] = top.done[k]
      /\ Append(top.done, id)[Len(top.done) + 1] = id
  BY <1>3, AppendProperties
<1>5. /\ new \in CallRecords /\ new.shape = top.shape /\ new.proxies = top.proxies
      /\ new.done = Append(top.done, id)
  BY <1>2, <1>4 DEF CallRecords
<1> HIDE DEF new
<1>6. r = [cs EXCEPT ![n] = new]
  BY DEF Answer, new
<1>7. /\ r \in Seq(CallRecords) /\ Len(r) = n /\ r # << >>
      /\ \A i \in 1..n : r[i] = IF i = n THEN new ELSE cs[i]
  BY <1>1, <1>5, <1>6
<1>8. WorkOf(new) = WorkOf(top) /\ (IsPlain(new) <=> IsPlain(top))
  BY <1>5 DEF WorkOf, ProxiesOf, IsPlain
<1>9. CallMade(ns, new)
  <2>1. CallMade(ns, top) /\ Len(WorkOf(top)) \in Nat
    BY <1>1, <1>2, CallTyped DEF CallsMade
  <2>2. Len(new.done) <= Len(WorkOf(new))
    BY <1>1, <1>3, <1>4, <1>5, <1>8, <2>1
  <2>3. ASSUME NEW k \in 1..Len(new.done) PROVE Fits(ns, new.done[k], WorkOf(new)[k])
    <3>1. CASE k = Len(top.done) + 1
      BY <1>1, <1>4, <1>5, <1>8, <3>1
    <3>2. CASE k \in 1..Len(top.done)
      BY <1>4, <1>5, <1>8, <2>1, <3>2 DEF CallMade
    <3> QED
      BY <1>3, <1>4, <1>5, <3>1, <3>2
  <2> QED
    BY <2>2, <2>3 DEF CallMade
<1> HIDE DEF r
<1>10. \A i \in 1..n : r[i].shape = cs[i].shape /\ (IsPlain(r[i]) <=> IsPlain(cs[i]))
  BY <1>5, <1>7, <1>8
<1>11. \A i \in 1..n : CallMade(ns, r[i])
  BY <1>1, <1>7, <1>9 DEF CallsMade
<1>12. \A i \in 1..n : i < n => Asked(r[i], r[i + 1])
  <2> SUFFICES ASSUME NEW i \in 1..n, i < n PROVE Asked(r[i], r[i + 1])
    OBVIOUS
  <2>1. i + 1 \in 1..n /\ r[i] = cs[i] /\ Asked(cs[i], cs[i + 1])
    BY <1>1, <1>7 DEF CallsMade
  <2>2. r[i + 1].shape = cs[i + 1].shape /\ r[i + 1].proxies = cs[i + 1].proxies
    BY <1>5, <1>7, <2>1
  <2> QED
    BY <2>1, <2>2 DEF Asked
<1>13. IsPlain(r[1]) /\ r[1].shape \in Roots
  BY <1>1, <1>10 DEF CallsMade
<1>14. \A i, j \in 1..n : IsPlain(r[i]) /\ IsPlain(r[j]) /\ r[i].shape = r[j].shape => i = j
  BY <1>10 DEF CallsMade
<1>15. CallsMade(ns, r)
  BY <1>7, <1>11, <1>12, <1>13, <1>14 DEF CallsMade
<1>16. Running(r) = Running(cs)
  <2>1. DOMAIN r = 1..n /\ DOMAIN cs = 1..n
    BY <1>1, <1>7
  <2> QED
    BY <1>10, <2>1 DEF Running
<1> QED
  BY <1>7, <1>15, <1>16 DEF r

\* build_node_with_proxy calls itself for the next part.
LEMMA CallPushed ==
    ASSUME NEW ns, NEW cs, CallsMade(ns, cs), cs # << >>, NEW part \in CallSet,
           Len(Last(cs).done) < Len(WorkOf(Last(cs))),
           part = WorkOf(Last(cs))[Len(Last(cs).done) + 1],
           IsPlain(part) => part.shape \notin Running(cs)
    PROVE  /\ CallsMade(ns, Append(cs, Call(part)))
           /\ Append(cs, Call(part)) # << >>
           /\ Running(Append(cs, Call(part))) =
                IF IsPlain(part) THEN Running(cs) \cup {part.shape} ELSE Running(cs)
<1> DEFINE n == Len(cs)
           c == Call(part)
           r == Append(cs, c)
<1>1. cs \in Seq(CallRecords) /\ n \in Nat \ {0} /\ n \in 1..n /\ Last(cs) = cs[n] /\ DOMAIN cs = 1..n
  BY AllButLast DEF CallsMade, Last
<1>2. /\ c \in CallRecords /\ c.shape = part.shape /\ c.proxies = part.proxies /\ Len(c.done) = 0
      /\ (IsPlain(c) <=> IsPlain(part))
      /\ part = [shape |-> c.shape, proxies |-> c.proxies]
  BY DEF CallRecords, Call, CallSet, IsPlain
<1> HIDE DEF c
<1>3. /\ r \in Seq(CallRecords) /\ r # << >> /\ Len(r) = n + 1
      /\ \A i \in 1..n : r[i] = cs[i]
      /\ r[n + 1] = c
  BY <1>1, <1>2, AppendProperties
<1> HIDE DEF r
<1>4. DOMAIN r = 1..n + 1
  BY <1>3
<1>5. CallMade(ns, c)
  BY <1>2, CallTyped DEF CallMade
<1>6. \A i \in 1..n + 1 : CallMade(ns, r[i])
  <2> SUFFICES ASSUME NEW i \in 1..n + 1 PROVE CallMade(ns, r[i])
    OBVIOUS
  <2>1. i \in 1..n \/ i = n + 1
    BY <1>1
  <2> QED
    BY <1>3, <1>5, <2>1 DEF CallsMade
<1>7. \A i \in 1..n + 1 : i < n + 1 => Asked(r[i], r[i + 1])
  <2> SUFFICES ASSUME NEW i \in 1..n + 1, i < n + 1 PROVE Asked(r[i], r[i + 1])
    OBVIOUS
  <2>1. CASE i < n
    <3>1. i \in 1..n /\ i + 1 \in 1..n
      BY <1>1, <2>1
    <3> QED
      BY <1>3, <2>1, <3>1 DEF CallsMade
  <2>2. CASE i = n
    <3>1. r[i] = Last(cs) /\ r[i + 1] = c
      BY <1>1, <1>3, <2>2
    <3> QED
      BY <1>2, <3>1 DEF Asked
  <2>3. i < n \/ i = n
    <3>1. n \in Nat /\ i \in 1..n + 1 /\ i < n + 1
      BY <1>1
    <3> HIDE DEF n
    <3> QED
      BY <3>1
  <2> QED
    BY <2>1, <2>2, <2>3
<1>8. IsPlain(r[1]) /\ r[1].shape \in Roots
  BY <1>1, <1>3 DEF CallsMade
<1>9. ASSUME NEW i \in 1..n, IsPlain(cs[i]) PROVE cs[i].shape \in Running(cs)
  BY <1>1, <1>9 DEF Running
<1>10. \A i, j \in 1..n + 1 : IsPlain(r[i]) /\ IsPlain(r[j]) /\ r[i].shape = r[j].shape => i = j
  <2> SUFFICES ASSUME NEW i \in 1..n + 1, NEW j \in 1..n + 1,
                      IsPlain(r[i]), IsPlain(r[j]), r[i].shape = r[j].shape
               PROVE  i = j
    OBVIOUS
  <2>1. (i \in 1..n \/ i = n + 1) /\ (j \in 1..n \/ j = n + 1)
    BY <1>1
  <2>2. CASE i \in 1..n /\ j \in 1..n
    BY <1>3, <2>2 DEF CallsMade
  <2>3. CASE i \in 1..n /\ j = n + 1
    BY <1>2, <1>3, <1>9, <2>3
  <2>4. CASE i = n + 1 /\ j \in 1..n
    BY <1>2, <1>3, <1>9, <2>4
  <2> QED
    BY <2>1, <2>2, <2>3, <2>4
<1>11. CallsMade(ns, r)
  BY <1>3, <1>6, <1>7, <1>8, <1>10 DEF CallsMade
<1>12. Running(r) = IF IsPlain(part) THEN Running(cs) \cup {part.shape} ELSE Running(cs)
  <2>1. \A i \in 1..n + 1 : i \in 1..n \/ i = n + 1
    BY <1>1
  <2>2. Running(r) \subseteq IF IsPlain(part) THEN Running(cs) \cup {part.shape} ELSE Running(cs)
    <3> SUFFICES ASSUME NEW i \in 1..n + 1, IsPlain(r[i])
                 PROVE  \/ r[i].shape \in Running(cs)
                        \/ IsPlain(part) /\ r[i].shape = part.shape
      BY <1>4 DEF Running
    <3>1. CASE i \in 1..n
      BY <1>3, <1>9, <3>1
    <3>2. CASE i = n + 1
      BY <1>2, <1>3, <3>2
    <3> QED
      BY <2>1, <3>1, <3>2
  <2>3. Running(cs) \subseteq Running(r)
    <3> SUFFICES ASSUME NEW i \in 1..n, IsPlain(cs[i]) PROVE cs[i].shape \in Running(r)
      BY <1>1 DEF Running
    <3>1. i \in 1..n + 1
      BY <1>1
    <3> QED
      BY <1>3, <1>4, <3>1 DEF Running
  <2>4. IsPlain(part) => part.shape \in Running(r)
    <3>1. n + 1 \in 1..n + 1
      BY <1>1
    <3> QED
      BY <1>2, <1>3, <1>4, <3>1 DEF Running
  <2> QED
    BY <2>2, <2>3, <2>4
<1> QED
  BY <1>3, <1>11, <1>12 DEF r, c

\* A call returns: what is left is the stack of the call that asked for it.
LEMMA CallPopped ==
    ASSUME NEW ns, NEW cs, CallsMade(ns, cs), cs # << >>
    PROVE  /\ Len(cs) = 1 => IsPlain(Last(cs)) /\ Last(cs).shape \in Roots
           /\ IF Len(cs) = 1 THEN Running(cs) = {Last(cs).shape}
              ELSE Running(Front(cs)) = IF IsPlain(Last(cs)) THEN Running(cs) \ {Last(cs).shape}
                                        ELSE Running(cs)
           /\ Len(cs) # 1 =>
                /\ CallsMade(ns, Front(cs)) /\ Front(cs) # << >>
                /\ Len(Last(Front(cs)).done) < Len(WorkOf(Last(Front(cs))))
                /\ WorkOf(Last(Front(cs)))[Len(Last(Front(cs)).done) + 1]
                     = [shape |-> Last(cs).shape, proxies |-> Last(cs).proxies]
<1> DEFINE n == Len(cs)
           f == Front(cs)
           top == Last(cs)
<1>1. /\ cs \in Seq(CallRecords) /\ n \in Nat \ {0} /\ n \in 1..n /\ top = cs[n] /\ DOMAIN cs = 1..n
      /\ f \in Seq(CallRecords) /\ Len(f) = n - 1 /\ \A i \in 1..n - 1 : f[i] = cs[i]
  <2>1. cs \in Seq(CallRecords)
    BY DEF CallsMade
  <2>2. n \in Nat \ {0} /\ top = cs[n] /\ f \in Seq(CallRecords) /\ Len(f) = n - 1
        /\ \A i \in 1..n - 1 : f[i] = cs[i]
    BY <2>1, AllButLast
  <2> QED
    BY <2>1, <2>2
<1> HIDE DEF n, f, top
<1>2. CASE n = 1
  <2>1. IsPlain(top) /\ top.shape \in Roots
    BY <1>1, <1>2 DEF CallsMade, n
  <2>2. DOMAIN cs = {1}
    BY <1>1, <1>2
  <2>3. Running(cs) = {top.shape}
    BY <1>1, <1>2, <2>1, <2>2 DEF Running
  <2> QED
    BY <1>2, <2>1, <2>3 DEF n, top
<1>3. CASE n # 1
  <2>1. n - 1 \in 1..n /\ n - 1 \in 1..n - 1 /\ n - 1 < n /\ (n - 1) + 1 = n
    BY <1>1, <1>3
  <2>2. f # << >> /\ Last(f) = cs[n - 1] /\ DOMAIN f = 1..n - 1
    <3>1. Last(f) = f[n - 1]
      BY <1>1 DEF Last
    <3> QED
      BY <1>1, <2>1, <3>1
  <2>3. Asked(cs[n - 1], top)
    <3>1. cs[(n - 1) + 1] = top
      BY <1>1, <2>1
    <3> QED
      BY <2>1, <3>1 DEF CallsMade, n
  <2>4. CallsMade(ns, f)
    <3>1. \A i \in 1..n - 1 : i \in 1..n /\ i < n /\ f[i] = cs[i]
      BY <1>1
    <3>2. \A i \in 1..n - 1 : i < n - 1 => i + 1 \in 1..n - 1
      BY <1>1
    <3>3. \A i \in 1..n - 1 : CallMade(ns, f[i])
      BY <3>1 DEF CallsMade, n
    <3>4. \A i \in 1..n - 1 : i < n - 1 => Asked(f[i], f[i + 1])
      BY <3>1, <3>2 DEF CallsMade, n
    <3>5. IsPlain(f[1]) /\ f[1].shape \in Roots
      <4>1. 1 \in 1..n - 1
        BY <2>1
      <4> QED
        BY <3>1, <4>1 DEF CallsMade
    <3>6. \A i, j \in 1..n - 1 : IsPlain(f[i]) /\ IsPlain(f[j]) /\ f[i].shape = f[j].shape => i = j
      BY <3>1 DEF CallsMade, n
    <3> QED
      BY <1>1, <3>3, <3>4, <3>5, <3>6 DEF CallsMade
  <2>5. Running(f) = IF IsPlain(top) THEN Running(cs) \ {top.shape} ELSE Running(cs)
    <3>1. Running(f) = {cs[i].shape : i \in {j \in 1..n - 1 : IsPlain(cs[j])}}
      BY <1>1, <2>2 DEF Running
    <3>2. Running(cs) = {cs[i].shape : i \in {j \in 1..n : IsPlain(cs[j])}}
      BY <1>1 DEF Running
    <3>3. \A i \in 1..n : i \in 1..n - 1 \/ i = n
      BY <1>1
    <3>4. \A i \in 1..n - 1 : i \in 1..n /\ i # n
      BY <1>1
    <3>5. ASSUME IsPlain(top), NEW i \in 1..n - 1, IsPlain(cs[i]) PROVE cs[i].shape # top.shape
      BY <1>1, <3>4, <3>5 DEF CallsMade, n
    <3> QED
      BY <1>1, <3>1, <3>2, <3>3, <3>4, <3>5
  <2> QED
    BY <1>3, <2>2, <2>3, <2>4, <2>5 DEF Asked, n, f, top
<1> QED
  BY <1>2, <1>3

\* A type that is being built is no wrapper: what a wrapper is around is made
\* of nothing, so no call above the wrapper's asks for anything.
LEMMA NoOpenWrapper ==
    ASSUME NEW ns, NEW cs, CallsMade(ns, cs), cs # << >>,
           Len(Last(cs).done) < Len(WorkOf(Last(cs))),
           NEW t \in Running(cs), t = WorkOf(Last(cs))[Len(Last(cs).done) + 1].shape
    PROVE  Shape[t].kind # "wrapper"
<1> DEFINE n == Len(cs)
           top == Last(cs)
<1>1. cs \in Seq(CallRecords) /\ n \in Nat \ {0} /\ n \in 1..n /\ top = cs[n] /\ DOMAIN cs = 1..n
  <2>1. cs \in Seq(CallRecords)
    BY DEF CallsMade
  <2>2. n \in Nat \ {0} /\ top = cs[n]
    BY <2>1, AllButLast
  <2> QED
    BY <2>1, <2>2
<1>0. Len(top.done) < Len(WorkOf(top)) /\ t = WorkOf(top)[Len(top.done) + 1].shape
  OBVIOUS
<1> HIDE DEF n, top
<1>2. SUFFICES ASSUME Shape[t].kind = "wrapper" PROVE FALSE
  OBVIOUS
<1>3. PICK i \in 1..n : IsPlain(cs[i]) /\ cs[i].shape = t
  BY <1>1 DEF Running
<1>4. \A j \in 1..n : cs[j] \in CallRecords
  BY <1>1
<1> DEFINE u == Shape[t].args[1]
<1>5. t \in Types /\ DOMAIN Shape[t].args = {1} /\ WorkOf(Plain(u)) = << >> /\ Shape[t].proxies = << >>
  BY <1>2, <1>3, <1>4, ShapesAssumption DEF CallRecords
<1>6. ASSUME NEW c, IsCall(c), IsPlain(c), c.shape = t
      PROVE  Len(WorkOf(c)) = 1 /\ WorkOf(c)[1] = Plain(u)
  <2>1. ProxiesOf(c) = << >>
    BY <1>5, <1>6 DEF ProxiesOf
  <2>2. PartsOf(t) = [k \in DOMAIN Shape[t].args |-> Plain(Shape[t].args[k])]
    BY <1>2 DEF PartsOf
  <2>3. DOMAIN PartsOf(t) = {1} /\ PartsOf(t)[1] = Plain(u)
    BY <1>5, <2>2
  <2>4. Len(PartsOf(t)) = 1
    BY <2>3, <1>5, ShapesAssumption
  <2> QED
    BY <1>6, <2>1, <2>3, <2>4, WorkFacts
<1>7. ASSUME NEW d, d.shape = u, d.proxies = << >> PROVE Len(WorkOf(d)) = 0
  <2>1. WorkOf(d) = WorkOf(Plain(u))
    BY <1>7 DEF WorkOf, ProxiesOf, IsPlain, Plain
  <2> QED
    BY <1>5, <2>1
<1>8. Len(WorkOf(cs[i])) = 1 /\ WorkOf(cs[i])[1] = Plain(u) /\ Len(cs[i].done) \in Nat
  BY <1>3, <1>4, <1>6, CallTyped
<1>9. CASE i = n
  <2>1. Len(cs[i].done) + 1 = 1
    <3>1. Len(cs[i].done) < Len(WorkOf(cs[i]))
      BY <1>0, <1>1, <1>9
    <3> QED
      BY <1>8, <3>1
  <2>2. t = u
    <3>1. WorkOf(cs[i])[Len(cs[i].done) + 1].shape = t
      BY <1>0, <1>1, <1>9
    <3>2. WorkOf(cs[i])[1].shape = t
      BY <2>1, <3>1
    <3> QED
      BY <1>8, <3>2 DEF Plain
  <2>3. Len(WorkOf(Plain(t))) = 1
    <3>1. IsCall(Plain(t)) /\ IsPlain(Plain(t)) /\ Plain(t).shape = t
      BY <1>5 DEF IsCall, IsPlain, Plain
    <3> QED
      BY <1>6, <3>1
  <2>4. Len(WorkOf(Plain(t))) = 0
    BY <1>7, <2>2 DEF Plain
  <2>5. 1 = 0
    BY <2>3, <2>4
  <2> QED
    BY <2>5
<1>10. CASE i # n
  <2>1. i < n /\ i + 1 \in 1..n
    BY <1>1, <1>10
  <2>2. Asked(cs[i], cs[i + 1])
    BY <2>1 DEF CallsMade, n
  <2>3. Len(cs[i].done) + 1 = 1
    BY <1>8, <2>2 DEF Asked
  <2>4. [shape |-> cs[i + 1].shape, proxies |-> cs[i + 1].proxies] = Plain(u)
    BY <1>8, <2>2, <2>3 DEF Asked
  <2>5. Len(WorkOf(cs[i + 1])) = 0 /\ Len(cs[i + 1].done) \in Nat
    BY <1>4, <1>7, <2>1, <2>4, CallTyped DEF Plain
  <2>6. CASE i + 1 = n
    BY <1>0, <1>1, <2>5, <2>6
  <2>7. CASE i + 1 # n
    <3>1. Asked(cs[i + 1], cs[(i + 1) + 1])
      <4>1. i + 1 < n
        BY <1>1, <2>1, <2>7
      <4> QED
        BY <2>1, <4>1 DEF CallsMade, n
    <3> QED
      BY <2>5, <3>1 DEF Asked
  <2> QED
    BY <2>6, <2>7
<1> QED
  BY <1>9, <1>10

-----------------------------------------------------------------------------
(* Steps of the builder *)

\* What the next part of an unfinished call is.
LEMMA NextPart ==
    ASSUME BuilderInv, calls # << >>, ~Complete
    PROVE  /\ Len(Top.done) < Len(WorkOf(Top))
           /\ Next1 \in CallSet
           /\ Next1 = WorkOf(Top)[Len(Top.done) + 1]
           /\ IsSeq(nodes) /\ Len(nodes) \in Nat
<1>1. calls \in Seq(CallRecords)
  BY DEF BuilderInv, CallsMade
<1>2. Top \in CallRecords /\ Top = calls[Len(calls)] /\ Len(calls) \in 1..Len(calls)
  BY <1>1, AllButLast DEF Top
<1>3. Len(Top.done) \in Nat /\ Len(WorkOf(Top)) \in Nat /\ IsCall(Top)
  BY <1>2, CallTyped
<1>4. Len(Top.done) <= Len(WorkOf(Top))
  BY <1>2 DEF BuilderInv, CallsMade, CallMade
<1>5. Len(Top.done) < Len(WorkOf(Top))
  BY <1>3, <1>4 DEF Complete
<1>6. WorkOf(Top) \in Seq(CallSet)
  BY <1>3, WorkFacts
<1>7. Next1 \in CallSet
  BY <1>3, <1>5, <1>6 DEF Next1
<1>8. IsSeq(nodes) /\ Len(nodes) \in Nat
  BY SeqFacts DEF BuilderInv, Arena
<1> QED
  BY <1>5, <1>7, <1>8 DEF Next1

LEMMA ReuseStep == ASSUME BuilderInv, Reuse PROVE BuilderInv'
<1> DEFINE id == finished[Next1.shape]
<1>1. /\ calls # << >> /\ ~Complete /\ status = "planning"
      /\ IsPlain(Next1) /\ Next1.shape \in DOMAIN finished
      /\ calls' = Answer(calls, id)
      /\ UNCHANGED <<nodes, building, finished, status>>
  BY DEF Reuse, Known
<1>2. FitsPlain(nodes, id, Next1.shape) /\ id \in Nat
  BY <1>1, NextPart DEF BuilderInv, Resolves, FitsPlain
<1>3. Fits(nodes, id, Next1)
  BY <1>1, <1>2 DEF Fits
<1>4. CallsMade(nodes, calls') /\ calls' # << >> /\ Running(calls') = Running(calls)
  BY <1>1, <1>2, <1>3, NextPart, Answered DEF BuilderInv, Top
<1> QED
  BY <1>1, <1>4 DEF BuilderInv

\* Types are looked up to the same nodes.
LEMMA LookupStays ==
    ASSUME NEW ns, IsSeq(ns), NEW e, NEW lookup, NEW open, Resolves(ns, lookup, open),
           NEW t \in DOMAIN lookup
    PROVE  FitsPlain(Append(ns, e), lookup[t], t) /\ Append(ns, e)[lookup[t]].kind # "BackRef"
<1> DEFINE id == lookup[t]
<1>1. FitsPlain(ns, id, t) /\ ns[id].kind # "BackRef"
  BY DEF Resolves
<1> HIDE DEF id
<1>2. FitsPlain(Append(ns, e), id, t) /\ Append(ns, e)[id] = ns[id]
  BY <1>1, StaysPlain
<1> QED
  BY <1>1, <1>2 DEF id

LEMMA ReferBackStep == ASSUME BuilderInv, ReferBack PROVE BuilderInv'
<1> DEFINE t == Next1.shape
           n == BackRef(t)
           ns == Append(nodes, n)
           id == Len(nodes) + 1
<1>1. /\ calls # << >> /\ ~Complete /\ status = "planning"
      /\ IsPlain(Next1) /\ t \in building
      /\ nodes' = ns
      /\ calls' = Answer(calls, Len(nodes'))
      /\ UNCHANGED <<building, finished, status>>
  BY DEF ReferBack, InProgress
<1>2. /\ IsSeq(nodes) /\ Len(nodes) \in Nat /\ IsSeq(ns) /\ Len(ns) = id /\ id \in Nat /\ ns[id] = n
      /\ \A i \in 1..Len(nodes) : ns[i] = nodes[i]
  BY <1>1, NextPart, Appended
<1>3. n.shape = t /\ n.kind = "BackRef" /\ n.strategy = "BackRef"
  BY DEF BackRef
<1> HIDE DEF n
<1>11. \A u \in DOMAIN finished : FitsPlain(ns, finished[u], u) /\ ns[finished[u]].kind # "BackRef"
  <2>1. Resolves(nodes, finished, building) /\ IsSeq(nodes)
    BY <1>2 DEF BuilderInv
  <2> QED
    BY <2>1, LookupStays
<1> HIDE DEF ns
<1>4. Shape[t].kind # "wrapper" /\ t \in Types
  <2>1. t \in Running(calls)
    BY <1>1 DEF BuilderInv
  <2>2. Shape[t].kind # "wrapper"
    BY <1>1, <2>1, NextPart, NoOpenWrapper DEF BuilderInv, Top
  <2> QED
    BY <1>1, <2>2, NextPart DEF CallSet
<1>5. NodeMade(nodes, n)
  BY <1>3, <1>4 DEF NodeMade
<1>6. Arena(ns)
  BY <1>5, ArenaGrows DEF BuilderInv, ns
<1>7. Resolves(ns, finished, building)
  <2>2. ASSUME NEW i \in 1..Len(ns)
        PROVE  /\ ns[i].kind = "BackRef" => ns[i].shape \in DOMAIN finished \cup building
               /\ ns[i].strategy \notin {"BackRef", "FieldProxy"} =>
                    ns[i].shape \in DOMAIN finished /\ finished[ns[i].shape] = i
    <3>1. i \in 1..Len(nodes) \/ i = id
      BY <1>2
    <3>2. CASE i \in 1..Len(nodes)
      BY <1>2, <3>2 DEF BuilderInv, Resolves
    <3>3. CASE i = id
      BY <1>1, <1>2, <1>3, <3>3
    <3> QED
      BY <3>1, <3>2, <3>3
  <2> QED
    BY <1>11, <2>2 DEF Resolves
<1>8. Fits(ns, id, Next1)
  BY <1>1, <1>2, <1>3 DEF Fits, FitsPlain
<1>9. CallsMade(ns, calls)
  BY <1>2, CallsStay DEF BuilderInv, ns
<1>10. CallsMade(ns, calls') /\ calls' # << >> /\ Running(calls') = Running(calls)
  BY <1>1, <1>2, <1>8, <1>9, NextPart, Answered DEF Top
<1> QED
  BY <1>1, <1>6, <1>7, <1>10 DEF BuilderInv

LEMMA BuildNodeStep == ASSUME BuilderInv, BuildNode PROVE BuilderInv'
<1>1. /\ calls # << >> /\ ~Complete /\ status = "planning"
      /\ ~Known(Next1) /\ ~InProgress(Next1)
      /\ calls' = Append(calls, Call(Next1))
      /\ building' = IF IsPlain(Next1) THEN building \cup {Next1.shape} ELSE building
      /\ UNCHANGED <<nodes, finished, status>>
  BY DEF BuildNode
<1>2. IsPlain(Next1) => Next1.shape \notin Running(calls) /\ Next1.shape \notin DOMAIN finished
  BY <1>1 DEF BuilderInv, Known, InProgress
<1>3. /\ CallsMade(nodes, calls') /\ calls' # << >>
      /\ Running(calls') = IF IsPlain(Next1) THEN Running(calls) \cup {Next1.shape} ELSE Running(calls)
  BY <1>1, <1>2, NextPart, CallPushed DEF BuilderInv, Top
<1>4. building \subseteq building'
  BY <1>1
<1>5. Resolves(nodes, finished, building')
  BY <1>4 DEF BuilderInv, Resolves
<1>6. building' = Running(calls') /\ building' \cap DOMAIN finished = {}
  BY <1>1, <1>2, <1>3 DEF BuilderInv
<1> QED
  BY <1>1, <1>3, <1>5, <1>6 DEF BuilderInv

\* Nothing is planned and nothing is kept.
LEMMA Blank ==
    /\ Arena(<< >>) /\ CallsMade(<< >>, << >>) /\ Running(<< >>) = {}
    /\ Resolves(<< >>, << >>, {})
<1>1. IsSeq(<< >>) /\ Len(<< >>) = 0 /\ DOMAIN << >> = {} /\ << >> \in Seq(CallRecords)
  BY DEF IsSeq
<1> QED
  BY <1>1 DEF Arena, CallsMade, Running, Resolves

LEMMA UnsupportedStep == ASSUME BuilderInv, Unsupported PROVE BuilderInv'
<1>1. /\ status' = "idle" /\ calls' = << >> /\ nodes' = << >> /\ building' = {} /\ finished' = << >>
  BY DEF Unsupported
<1> QED
  BY <1>1, Blank DEF BuilderInv

LEMMA AllocStep == ASSUME BuilderInv, Alloc PROVE BuilderInv'
<1> DEFINE c == Top
           n == NodeOf(c)
           ns == Append(nodes, n)
           id == Len(nodes) + 1
           t == c.shape
<1>1. /\ calls # << >> /\ Complete /\ status = "planning"
      /\ nodes' = ns
      /\ finished' = IF IsPlain(c)
                     THEN [u \in DOMAIN finished \cup {t} |-> IF u = t THEN id ELSE finished[u]]
                     ELSE finished
      /\ calls' = IF Len(calls) = 1 THEN << >> ELSE Answer(Front(calls), id)
      /\ building' = IF IsPlain(c) THEN building \ {t} ELSE building
      /\ UNCHANGED status
  BY DEF Alloc, LeaveBuilding
<1>2. /\ c \in CallRecords /\ c = Last(calls) /\ IsCall(c) /\ c.done \in Seq(Nat)
      /\ CallMade(nodes, c) /\ Len(c.done) = Len(WorkOf(c))
  <2>1. calls \in Seq(CallRecords)
    BY DEF BuilderInv, CallsMade
  <2>2. c \in CallRecords /\ c = Last(calls) /\ c = calls[Len(calls)] /\ Len(calls) \in 1..Len(calls)
    BY <1>1, <2>1, AllButLast DEF Top
  <2>3. IsCall(c) /\ c.done \in Seq(Nat)
    BY <2>2, CallTyped
  <2>4. CallMade(nodes, c)
    BY <2>2 DEF BuilderInv, CallsMade
  <2> QED
    BY <1>1, <2>2, <2>3, <2>4 DEF Complete
<1>3. CallsMade(nodes, calls) /\ Arena(nodes) /\ IsSeq(nodes) /\ Len(nodes) \in Nat
  BY SeqFacts DEF BuilderInv, Arena
<1> HIDE DEF c
<1>4. /\ NodeMade(nodes, n)
      /\ Fits(ns, id, [shape |-> t, proxies |-> c.proxies])
      /\ n.shape = t /\ n.kind # "BackRef" /\ n.strategy # "BackRef"
      /\ n.strategy = "FieldProxy" <=> ~IsPlain(c)
  BY <1>2, <1>3, NodeOfMade DEF CallMade
<1> HIDE DEF n
<1>5. /\ IsSeq(ns) /\ Len(ns) = id /\ id \in Nat /\ ns[id] = n /\ ns # << >>
      /\ \A i \in 1..Len(nodes) : ns[i] = nodes[i]
      /\ \A i \in 1..Len(ns) : i \in 1..Len(nodes) \/ i = id
      /\ id \notin 1..Len(nodes) /\ id \in 1..Len(ns)
  BY <1>3, Appended
<1>6. Arena(ns)
  BY <1>3, <1>4, ArenaGrows
<1>7. /\ Resolves(nodes, finished, building)
      /\ \A u \in DOMAIN finished : FitsPlain(ns, finished[u], u) /\ ns[finished[u]].kind # "BackRef"
  <2>1. Resolves(nodes, finished, building)
    BY DEF BuilderInv
  <2> QED
    BY <1>3, <2>1, LookupStays
<1> HIDE DEF ns
<1>8. DOMAIN finished' = IF IsPlain(c) THEN DOMAIN finished \cup {t} ELSE DOMAIN finished
  BY <1>1
<1>9. \A u \in DOMAIN finished' : finished'[u] = IF IsPlain(c) /\ u = t THEN id ELSE finished[u]
  BY <1>1
<1>10. IsPlain(c) => t \in building /\ t \notin DOMAIN finished
  <2>1. IsPlain(c) => t \in Running(calls)
    <3>1. calls \in Seq(CallRecords)
      BY <1>3 DEF CallsMade
    <3>2. c = calls[Len(calls)] /\ Len(calls) \in DOMAIN calls
      BY <1>1, <1>2, <3>1, AllButLast
    <3> QED
      BY <3>2 DEF Running
  <2> QED
    BY <2>1 DEF BuilderInv
<1>11. Resolves(ns, finished', building')
  <2>1. ASSUME NEW u \in DOMAIN finished'
        PROVE  FitsPlain(ns, finished'[u], u) /\ ns[finished'[u]].kind # "BackRef"
    <3>1. CASE IsPlain(c) /\ u = t
      BY <1>4, <1>5, <1>9, <3>1 DEF FitsPlain
    <3>2. CASE ~(IsPlain(c) /\ u = t)
      BY <1>7, <1>8, <1>9, <3>2
    <3> QED
      BY <3>1, <3>2
  <2>2. ASSUME NEW i \in 1..Len(ns)
        PROVE  /\ ns[i].kind = "BackRef" => ns[i].shape \in DOMAIN finished' \cup building'
               /\ ns[i].strategy \notin {"BackRef", "FieldProxy"} =>
                    ns[i].shape \in DOMAIN finished' /\ finished'[ns[i].shape] = i
    <3>1. CASE i = id
      BY <1>4, <1>5, <1>8, <1>9, <3>1
    <3>2. CASE i \in 1..Len(nodes)
      <4>1. /\ nodes[i].kind = "BackRef" => nodes[i].shape \in DOMAIN finished \cup building
            /\ nodes[i].strategy \notin {"BackRef", "FieldProxy"} =>
                nodes[i].shape \in DOMAIN finished /\ finished[nodes[i].shape] = i
        BY <1>7, <3>2 DEF Resolves
      <4>2. DOMAIN finished \cup building \subseteq DOMAIN finished' \cup building'
        BY <1>1, <1>8
      <4> QED
        BY <1>5, <1>8, <1>9, <1>10, <3>2, <4>1, <4>2
    <3> QED
      BY <1>5, <3>1, <3>2
  <2> QED
    BY <2>1, <2>2 DEF Resolves
<1>12. building' \cap DOMAIN finished' = {}
  BY <1>1, <1>8 DEF BuilderInv
<1>13. CASE Len(calls) = 1
  <2>1. IsPlain(c) /\ t \in Roots /\ Running(calls) = {t}
    BY <1>1, <1>2, <1>3, <1>13, CallPopped
  <2>2. calls' = << >> /\ building' = {}
    BY <1>1, <1>13, <2>1 DEF BuilderInv
  <2>3. CallsMade(ns, << >>) /\ Running(<< >>) = {}
    <3>1. Len(<< >>) = 0 /\ DOMAIN << >> = {} /\ << >> \in Seq(CallRecords)
      OBVIOUS
    <3> QED
      BY <3>1 DEF CallsMade, Running
  <2>4. RootNode(ns[id])
    BY <1>4, <1>5, <2>1 DEF RootNode
  <2> QED
    BY <1>1, <1>5, <1>6, <1>11, <1>12, <2>2, <2>3, <2>4 DEF BuilderInv
<1>14. CASE Len(calls) # 1
  <2> DEFINE f == Front(calls)
             r == Answer(f, id)
  <2>1. /\ CallsMade(nodes, f) /\ f # << >>
        /\ Len(Last(f).done) < Len(WorkOf(Last(f)))
        /\ WorkOf(Last(f))[Len(Last(f).done) + 1] = [shape |-> t, proxies |-> c.proxies]
        /\ Running(f) = IF IsPlain(c) THEN Running(calls) \ {t} ELSE Running(calls)
    BY <1>1, <1>2, <1>3, <1>14, CallPopped
  <2> HIDE DEF f
  <2>2. CallsMade(ns, f)
    BY <1>3, <2>1, CallsStay DEF ns
  <2>3. CallsMade(ns, r) /\ r # << >> /\ Running(r) = Running(f)
    BY <1>4, <1>5, <2>1, <2>2, Answered
  <2>4. calls' = r
    BY <1>1, <1>14 DEF f
  <2> HIDE DEF r
  <2>5. building' = Running(r)
    BY <1>1, <2>1, <2>3 DEF BuilderInv
  <2> QED
    BY <1>1, <1>6, <1>11, <1>12, <2>3, <2>4, <2>5 DEF BuilderInv
<1> QED
  BY <1>13, <1>14

-----------------------------------------------------------------------------
(* A Partial gets its plan *)

\* Every frame there is belongs to the plan that is there; without a plan
\* there is none.
LEMMA NoFrames == FramesMade(NoPlan, << >>)
<1>1. Len(<< >>) = 0 /\ << >> \in Seq(FrameSet)
  OBVIOUS
<1> QED
  BY <1>1 DEF FramesMade

LEMMA OneFrame ==
    ASSUME NEW p, NEW f \in FrameSet, FrameMade(p, f)
    PROVE  FramesMade(p, <<f>>) /\ <<f>> # << >>
<1>1. <<f>> \in Seq(FrameSet) /\ Len(<<f>>) = 1 /\ <<f>>[1] = f /\ <<f>> # << >>
  OBVIOUS
<1> QED
  BY <1>1 DEF FramesMade

\* Partial::alloc_shape starts at the root of the plan.
LEMMA RootFrame ==
    ASSUME NEW p, PlanMade(p), NEW t, t = p.nodes[p.root].shape
    PROVE  FramesMade(p, <<Frame(t, p.root, << >>)>>)
<1> DEFINE f == Frame(t, p.root, << >>)
<1>1. /\ IsSeq(p.nodes) /\ p.root \in 1..Len(p.nodes)
      /\ p.nodes[p.root].shape = t /\ t \in Roots
      /\ p.nodes[p.root].strategy # "FieldProxy" /\ p.nodes[p.root].kind # "BackRef"
  BY DEF PlanMade, Arena, RootNode
<1>2. t \in Types /\ p.root \in Nat /\ << >> \in Seq(ProxySet)
  BY <1>1, SeqFacts, ShapesAssumption
<1>3. /\ f \in FrameSet /\ f.shape = t /\ f.node = p.root /\ f.proxies = << >>
  BY <1>2 DEF Frame, FrameSet
<1> HIDE DEF f
<1>4. Fits(p.nodes, f.node, [shape |-> f.shape, proxies |-> f.proxies])
  BY <1>1, <1>3 DEF Fits, FitsPlain, IsPlain
<1>5. FrameMade(p, f)
  BY <1>1, <1>3, <1>4 DEF FrameMade
<1> QED
  BY <1>3, <1>5, OneFrame DEF f

LEMMA ActivateStep ==
    ASSUME NEW p, PlanMade(p), NEW t, t = p.nodes[p.root].shape, Activate(t, p)
    PROVE  PartialInv'
<1>1. /\ plan' = p /\ frames' = <<Frame(t, p.root, << >>)>>
      /\ status' = "active"
  BY DEF Activate
<1>2. FramesMade(p, frames') /\ frames' # << >>
  BY <1>1, RootFrame
<1> QED
  BY <1>1, <1>2 DEF PartialInv

\* The builder at rest.
LEMMA Rested ==
    ASSUME nodes' = << >>, calls' = << >>, finished' = << >>, building' = {}, status' # "planning"
    PROVE  BuilderInv'
BY Blank DEF BuilderInv

\* The end of from_shape: the builder has no type open, so its arena is a plan.
LEMMA FinishStep == ASSUME PlansInv, Finish PROVE PlansInv'
<1> DEFINE root == Len(nodes)
           t == nodes[root].shape
           p == [root |-> root, nodes |-> nodes, lookup |-> finished]
<1>1. /\ status = "planning" /\ calls = << >>
      /\ cache' = [u \in DOMAIN cache \cup {t} |-> IF u = t THEN p ELSE cache[u]]
      /\ Activate(t, p)
      /\ nodes' = << >> /\ finished' = << >> /\ UNCHANGED <<building, calls>>
  BY DEF Finish
<1>2. status' = "active"
  BY <1>1 DEF Activate
<1>3. building = {}
  BY <1>1, Blank DEF PlansInv, BuilderInv
<1>4. Arena(nodes) /\ Resolves(nodes, finished, {}) /\ nodes # << >> /\ RootNode(nodes[root])
  BY <1>1, <1>3 DEF PlansInv, BuilderInv
<1>5. root \in 1..Len(nodes)
  BY <1>4, SeqFacts DEF Arena
<1>6. p.root = root /\ p.nodes = nodes /\ p.lookup = finished
  OBVIOUS
<1> HIDE DEF p, root
<1>7. PlanMade(p) /\ p.nodes[p.root].shape = t /\ t \in Roots
  BY <1>4, <1>5, <1>6 DEF PlanMade, RootNode
<1>8. PartialInv'
  BY <1>1, <1>7, ActivateStep
<1>9. CacheInv'
  BY <1>1, <1>7 DEF PlansInv, CacheInv
<1>10. BuilderInv'
  BY <1>1, <1>2, <1>3, Rested
<1> QED
  BY <1>8, <1>9, <1>10 DEF PlansInv

LEMMA FromCacheStep ==
    ASSUME PlansInv, NEW t \in Roots, FromCache(t)
    PROVE  PlansInv'
<1>1. /\ status = "idle" /\ t \in DOMAIN cache /\ Activate(t, cache[t])
      /\ UNCHANGED <<nodes, building, finished, calls, cache>>
  BY DEF FromCache, builderVars
<1>2. PlanMade(cache[t]) /\ t = cache[t].nodes[cache[t].root].shape
  BY <1>1 DEF PlansInv, CacheInv
<1>3. PartialInv'
  BY <1>1, <1>2, ActivateStep
<1>4. status' = "active"
  BY <1>1 DEF Activate
<1>5. CacheInv'
  BY <1>1 DEF PlansInv, CacheInv
<1>6. BuilderInv'
  BY <1>1, <1>4 DEF PlansInv, BuilderInv
<1> QED
  BY <1>3, <1>5, <1>6 DEF PlansInv

LEMMA FromShapeStep ==
    ASSUME PlansInv, NEW t \in Roots, FromShape(t)
    PROVE  PlansInv'
<1> DEFINE c == Call(Plain(t))
<1>1. /\ status = "idle" /\ status' = "planning"
      /\ calls' = <<c>> /\ building' = {t} /\ finished' = << >> /\ nodes' = << >>
      /\ UNCHANGED <<cache, plan, frames>>
  BY DEF FromShape, partialVars
<1>2. /\ c \in CallRecords /\ c.shape = t /\ IsPlain(c) /\ Len(c.done) = 0
  BY ShapesAssumption DEF Call, Plain, CallRecords, IsPlain
<1> HIDE DEF c
<1>3. CallsMade(<< >>, <<c>>) /\ Running(<<c>>) = {t}
  <2>1. /\ <<c>> \in Seq(CallRecords) /\ Len(<<c>>) = 1 /\ <<c>>[1] = c /\ DOMAIN <<c>> = {1}
        /\ 1..1 = {1}
    BY <1>2
  <2>2. CallMade(<< >>, c)
    BY <1>2, CallTyped DEF CallMade
  <2>3. Running(<<c>>) = {t}
    BY <1>2, <2>1 DEF Running
  <2>4. \A i \in 1..Len(<<c>>) : i = 1 /\ <<c>>[i] = c
    BY <2>1
  <2>5. \A i \in 1..Len(<<c>>) : i < Len(<<c>>) => Asked(<<c>>[i], <<c>>[i + 1])
    BY <2>1, <2>4
  <2> QED
    BY <1>2, <2>1, <2>2, <2>3, <2>4, <2>5 DEF CallsMade
<1>4. Arena(<< >>) /\ Resolves(<< >>, << >>, {t}) /\ DOMAIN << >> = {}
  BY Blank DEF Resolves
<1>5. BuilderInv'
  <2>1. <<c>> # << >>
    OBVIOUS
  <2> QED
    BY <1>1, <1>3, <1>4, <2>1 DEF BuilderInv
<1>6. CacheInv'
  BY <1>1 DEF PlansInv, CacheInv
<1>7. PartialInv'
  BY <1>1 DEF PlansInv, PartialInv
<1> QED
  BY <1>5, <1>6, <1>7 DEF PlansInv

-----------------------------------------------------------------------------
(* Frames follow the plan *)

IsFrame(f) == f \in FrameSet /\ FrameMade(plan, f)

\* resolve_backref: a frame's node is, at most one reference back from it, the
\* node the builder made for its type or its field.
LEMMA Resolved ==
    ASSUME PlanMade(plan), NEW f, IsFrame(f)
    PROVE  /\ ResolveBackRef(f.node) \in 1..Len(plan.nodes)
           /\ Node(ResolveBackRef(f.node)).shape = f.shape
           /\ Node(ResolveBackRef(f.node)).kind = KindOf(f)
           /\ IF f.proxies = << >>
              THEN /\ Node(ResolveBackRef(f.node)).strategy = StrategyOf(Plain(f.shape))
                   /\ ProxiesFit(plan.nodes, Node(ResolveBackRef(f.node)), Shape[f.shape].proxies)
              ELSE /\ Node(ResolveBackRef(f.node)).strategy = "FieldProxy"
                   /\ ProxiesFit(plan.nodes, Node(ResolveBackRef(f.node)), f.proxies)
           /\ DOMAIN Node(ResolveBackRef(f.node)).parts = DOMAIN PartsOf(f.shape)
           /\ \A i \in DOMAIN PartsOf(f.shape) :
                Fits(plan.nodes, Node(ResolveBackRef(f.node)).parts[i], PartsOf(f.shape)[i])
<1> DEFINE ns == plan.nodes
           id == f.node
           r == ResolveBackRef(id)
           t == f.shape
<1>1. f \in FrameSet /\ Fits(ns, id, [shape |-> t, proxies |-> f.proxies])
  BY DEF IsFrame, FrameMade
<1>2. t \in Types /\ IsCall(Plain(t)) /\ Plain(t).shape = t /\ f.proxies \in Seq(ProxySet)
  BY <1>1 DEF FrameSet, IsCall, Plain
<1>3. Arena(ns) /\ Resolves(ns, plan.lookup, {}) /\ (\A i \in 1..Len(ns) : NodeMade(ns, ns[i]))
  BY DEF PlanMade, Arena
<1>4. Shape[t].kind # "BackRef" /\ StrategyOf(Plain(t)) \notin {"BackRef", "FieldProxy"}
  <2>1. IsPlain(Plain(t))
    BY DEF IsPlain, Plain
  <2> QED
    BY <1>2, <2>1, StrategyFacts
<1>5. CASE f.proxies = << >>
  <2>1. FitsPlain(ns, id, t)
    BY <1>1, <1>5 DEF Fits, IsPlain
  <2>2. FitsPlain(ns, r, t) /\ ns[r].kind # "BackRef"
    <3>1. CASE ns[id].kind = "BackRef"
      <4>1. t \in DOMAIN plan.lookup
        BY <1>3, <2>1, <3>1 DEF Resolves, FitsPlain
      <4>2. r = plan.lookup[t]
        BY <2>1, <3>1 DEF ResolveBackRef, Node, FitsPlain
      <4> QED
        BY <1>3, <4>1, <4>2 DEF Resolves
    <3>2. CASE ns[id].kind # "BackRef"
      BY <2>1, <3>2 DEF ResolveBackRef, Node
    <3> QED
      BY <3>1, <3>2
  <2> HIDE DEF r
  <2>3. r \in 1..Len(ns) /\ ns[r].shape = t /\ ns[r].strategy # "FieldProxy" /\ NodeMade(ns, ns[r])
    BY <1>3, <2>2 DEF FitsPlain
  <2>4. /\ ns[r].kind = Shape[t].kind
        /\ ns[r].strategy = StrategyOf(Plain(t))
        /\ ProxiesFit(ns, ns[r], Shape[t].proxies)
        /\ DOMAIN ns[r].parts = DOMAIN PartsOf(t)
        /\ \A i \in DOMAIN ns[r].parts : Fits(ns, ns[r].parts[i], PartsOf(t)[i])
    BY <2>2, <2>3 DEF NodeMade
  <2> QED
    BY <1>5, <2>3, <2>4 DEF Node, KindOf, r
<1>6. CASE f.proxies # << >>
  <2>1. /\ id \in 1..Len(ns) /\ ns[id].shape = t /\ ns[id].strategy = "FieldProxy"
        /\ ns[id].kind = Shape[t].kind /\ ProxiesFit(ns, ns[id], f.proxies)
    BY <1>1, <1>6 DEF Fits, IsPlain
  <2>2. r = id
    BY <1>4, <2>1 DEF ResolveBackRef, Node
  <2> HIDE DEF r
  <2>3. NodeMade(ns, ns[id])
    BY <1>3, <2>1
  <2>4. /\ DOMAIN ns[id].parts = DOMAIN PartsOf(t)
        /\ \A i \in DOMAIN ns[id].parts : Fits(ns, ns[id].parts[i], PartsOf(t)[i])
    BY <1>4, <2>1, <2>3 DEF NodeMade
  <2> QED
    BY <1>6, <2>1, <2>2, <2>4 DEF Node, KindOf, r
<1> QED
  BY <1>5, <1>6

\* A frame is put on top.
LEMMA PushStep ==
    ASSUME PlansInv, status = "active", NEW f \in FrameSet,
           Fits(plan.nodes, f.node, [shape |-> f.shape, proxies |-> f.proxies]), Push(f)
    PROVE  PlansInv'
<1> DEFINE n == Len(frames)
           r == Append(frames, f)
<1>1. /\ frames' = r
      /\ UNCHANGED <<nodes, building, finished, calls, cache, plan, status>>
  BY DEF Push, builderVars
<1>2. frames \in Seq(FrameSet) /\ n \in Nat /\ \A i \in 1..n : FrameMade(plan, frames[i])
  BY DEF PlansInv, PartialInv, FramesMade
<1>3. FrameMade(plan, f)
  BY DEF FrameMade
<1>4. /\ r \in Seq(FrameSet) /\ r # << >> /\ Len(r) = n + 1
      /\ \A i \in 1..n : r[i] = frames[i]
      /\ r[n + 1] = f
  BY <1>2, AppendProperties
<1> HIDE DEF r
<1>5. FramesMade(plan, r)
  <2> SUFFICES ASSUME NEW i \in 1..n + 1 PROVE FrameMade(plan, r[i])
    BY <1>4 DEF FramesMade
  <2>1. i \in 1..n \/ i = n + 1
    BY <1>2
  <2> QED
    BY <1>2, <1>3, <1>4, <2>1
<1>6. PartialInv'
  BY <1>1, <1>4, <1>5 DEF PlansInv, PartialInv
<1>7. BuilderInv' /\ CacheInv'
  BY <1>1 DEF PlansInv, BuilderInv, CacheInv
<1> QED
  BY <1>6, <1>7 DEF PlansInv

\* The innermost frame.
LEMMA TopFrame ==
    ASSUME PlansInv, status = "active"
    PROVE  PlanMade(plan) /\ IsFrame(Current) /\ IsSeq(plan.nodes)
<1>1. frames \in Seq(FrameSet) /\ frames # << >> /\ PlanMade(plan)
      /\ \A i \in 1..Len(frames) : FrameMade(plan, frames[i])
  BY DEF PlansInv, PartialInv, FramesMade
<1>2. Current \in FrameSet /\ Current = frames[Len(frames)] /\ Len(frames) \in 1..Len(frames)
  BY <1>1, AllButLast DEF Current
<1> QED
  BY <1>1, <1>2 DEF IsFrame, PlanMade, Arena

\* There is no node 0.
LEMMA FitsNode ==
    ASSUME NEW ns, IsSeq(ns), NEW id, NEW c, Fits(ns, id, c)
    PROVE  id \in Nat \ {0}
<1>1. id \in 1..Len(ns)
  BY DEF Fits, FitsPlain
<1> QED
  BY <1>1, SeqFacts

\* A frame for what a call was made for.
LEMMA PushPart ==
    ASSUME PlansInv, status = "active", NEW id, NEW c \in CallSet,
           Fits(plan.nodes, id, c), Push(Frame(c.shape, id, c.proxies))
    PROVE  PlansInv'
<1> DEFINE f == Frame(c.shape, id, c.proxies)
<1>1. id \in Nat
  BY TopFrame, FitsNode
<1>2. c.shape \in Types /\ c.proxies \in Seq(ProxySet) /\ [shape |-> c.shape, proxies |-> c.proxies] = c
  BY DEF CallSet
<1>3. /\ f \in FrameSet
      /\ f.shape = c.shape /\ f.node = id /\ f.proxies = c.proxies
  BY <1>1, <1>2 DEF Frame, FrameSet
<1> HIDE DEF f
<1>4. Fits(plan.nodes, f.node, [shape |-> f.shape, proxies |-> f.proxies])
  BY <1>2, <1>3
<1> QED
  BY <1>3, <1>4, PushStep DEF f

\* begin_field, begin_nth_field: by the node's kind.
LEMMA BeginFieldStep ==
    ASSUME PlansInv, NEW i, BeginField(i)
    PROVE  PlansInv'
<1> DEFINE part == PartsOf(Current.shape)[i]
           id == FieldNode(Current.node, i)
<1>1. status = "active" /\ i \in DOMAIN PartsOf(Current.shape) /\ Push(Frame(part.shape, id, part.proxies))
  BY DEF BeginField
<1>2. PlanMade(plan) /\ IsFrame(Current)
  BY <1>1, TopFrame
<1>3. part \in CallSet
  <2>1. PartsOf(Current.shape) \in Seq(CallSet)
    BY <1>2, ShapesAssumption DEF IsFrame, FrameSet
  <2> QED
    BY <1>1, <2>1
<1>4. Fits(plan.nodes, id, part)
  BY <1>1, <1>2, Resolved DEF FieldNode
<1> HIDE DEF part, id
<1> QED
  BY <1>1, <1>3, <1>4, PushPart

\* What is inside a container or a wrapper.
LEMMA ArgParts ==
    ASSUME NEW t \in Types, Shape[t].kind \in Containers \cup {"wrapper"}
    PROVE  /\ DOMAIN PartsOf(t) = DOMAIN Shape[t].args
           /\ \A i \in DOMAIN Shape[t].args :
                /\ PartsOf(t)[i] \in CallSet
                /\ PartsOf(t)[i].shape = Shape[t].args[i]
                /\ PartsOf(t)[i].proxies = << >>
<1>1. PartsOf(t) = [k \in DOMAIN Shape[t].args |-> Plain(Shape[t].args[k])]
  BY DEF PartsOf, Containers
<1>2. PartsOf(t) \in Seq(CallSet)
  BY ShapesAssumption
<1>3. \A i \in DOMAIN PartsOf(t) : PartsOf(t)[i] \in CallSet
  BY <1>2
<1> QED
  BY <1>1, <1>3 DEF Plain

\* begin_some, begin_list_item, begin_key, begin_value, begin_smart_ptr: by the
\* node's strategy, which for a container without proxies is its kind.
LEMMA BeginPartStep ==
    ASSUME Usage = {}, PlansInv, NEW i, BeginPart(i)
    PROVE  PlansInv'
<1> DEFINE t == Current.shape
           id == PartNode(Current.node, i)
           c == PartsOf(t)[i]
           n == Node(ResolveBackRef(Current.node))
<1>1. /\ status = "active" /\ Shape[t].kind \in Containers /\ i \in DOMAIN Shape[t].args
      /\ Current.proxies = << >>
      /\ IF id = 0 THEN Panic ELSE Push(Frame(Shape[t].args[i], id, << >>))
  BY DEF BeginPart, KindOf
<1>2. PlanMade(plan) /\ IsFrame(Current) /\ IsSeq(plan.nodes) /\ t \in Types
  <2>1. PlanMade(plan) /\ IsFrame(Current) /\ IsSeq(plan.nodes)
    BY <1>1, TopFrame
  <2> QED
    BY <2>1 DEF IsFrame, FrameSet
<1>3. /\ n.strategy = StrategyOf(Plain(t))
      /\ \A k \in DOMAIN PartsOf(t) : Fits(plan.nodes, n.parts[k], PartsOf(t)[k])
  BY <1>1, <1>2, Resolved
<1> HIDE DEF n
<1>4. n.strategy \in Containers
  <2>1. IsCall(Plain(t)) /\ Plain(t).shape = t
    BY <1>2 DEF IsCall, Plain
  <2> QED
    BY <1>1, <1>3, <2>1, StrategyFacts
<1>5. id = n.parts[i]
  BY <1>4 DEF PartNode, n
<1>6. DOMAIN PartsOf(t) = DOMAIN Shape[t].args /\ c \in CallSet /\ c.shape = Shape[t].args[i]
      /\ c.proxies = << >>
  BY <1>1, <1>2, ArgParts
<1>7. Fits(plan.nodes, id, c)
  BY <1>1, <1>3, <1>5, <1>6
<1> HIDE DEF id, t, c
<1>8. id # 0
  BY <1>2, <1>7, FitsNode
<1>9. Push(Frame(c.shape, id, c.proxies))
  BY <1>1, <1>6, <1>8
<1> QED
  BY <1>1, <1>6, <1>7, <1>9, PushPart

\* begin_inner: the strategy of a wrapper's own node, which is no BackRef.
LEMMA BeginInnerStep ==
    ASSUME Usage = {}, PlansInv, BeginInner
    PROVE  PlansInv'
<1> DEFINE t == Current.shape
           id == InnerNode(Current.node)
           c == PartsOf(t)[1]
           n == Node(Current.node)
           ns == plan.nodes
<1>1. /\ status = "active" /\ Shape[t].kind = "wrapper" /\ Current.proxies = << >>
      /\ Push(Frame(Shape[t].args[1], IF id = 0 THEN Current.node ELSE id, << >>))
  BY DEF BeginInner, KindOf
<1>2. PlanMade(plan) /\ IsFrame(Current) /\ IsSeq(ns) /\ t \in Types
  <2>1. PlanMade(plan) /\ IsFrame(Current) /\ IsSeq(ns)
    BY <1>1, TopFrame
  <2> QED
    BY <2>1 DEF IsFrame, FrameSet
<1>3. n.shape = t /\ n.strategy # "FieldProxy" /\ NodeMade(ns, n)
  <2>1. FitsPlain(ns, Current.node, t)
    BY <1>1, <1>2 DEF IsFrame, FrameMade, Fits, IsPlain
  <2> QED
    BY <1>2, <2>1 DEF FitsPlain, PlanMade, Arena, Node
<1> HIDE DEF n
<1>4. /\ n.strategy = "TransparentConvert"
      /\ DOMAIN n.parts = DOMAIN PartsOf(t)
      /\ \A k \in DOMAIN n.parts : Fits(ns, n.parts[k], PartsOf(t)[k])
  <2>1. IsCall(Plain(t)) /\ Plain(t).shape = t
    BY <1>2 DEF IsCall, Plain
  <2>2. StrategyOf(Plain(t)) = "TransparentConvert"
    BY <1>1, <2>1, StrategyFacts
  <2> QED
    BY <1>1, <1>3, <2>2 DEF NodeMade
<1>5. 1 \in DOMAIN PartsOf(t) /\ c \in CallSet /\ c.shape = Shape[t].args[1] /\ c.proxies = << >>
  <2>1. 1 \in DOMAIN Shape[t].args
    BY <1>1, <1>2, ShapesAssumption
  <2> QED
    BY <1>1, <1>2, <2>1, ArgParts
<1>6. id = n.parts[1] /\ Fits(ns, id, c)
  <2>1. id = n.parts[1]
    BY <1>4 DEF InnerNode, n
  <2> QED
    BY <1>4, <1>5, <2>1
<1> HIDE DEF id, t, c
<1>7. id # 0
  BY <1>2, <1>6, FitsNode
<1>8. Push(Frame(c.shape, id, c.proxies))
  BY <1>1, <1>5, <1>7
<1> QED
  BY <1>1, <1>5, <1>6, <1>8, PushPart

\* proxy_for and its like: the same proxy is found among a type's or field's
\* proxies and among those of its node.
LEMMA ForFits ==
    ASSUME NEW ns, NEW n, NEW proxies \in Seq(ProxySet), ProxiesFit(ns, n, proxies),
           NEW format, Offers(format, proxies)
    PROVE  \E k \in DOMAIN proxies :
               For(format, proxies) = proxies[k] /\ For(format, n.proxies) = n.proxies[k]
<1> DEFINE own(s) == {i \in DOMAIN s : s[i].format = format}
           any(s) == {i \in DOMAIN s : s[i].format = AnyFormat}
           found(s) == IF own(s) # {} THEN own(s) ELSE any(s)
           F == found(proxies)
           k == CHOOSE i \in F : \A j \in F : i <= j
<1>1. /\ DOMAIN n.proxies = DOMAIN proxies
      /\ \A i \in DOMAIN proxies : n.proxies[i].format = proxies[i].format
  BY DEF ProxiesFit
<1>2. found(n.proxies) = F
  <2>1. own(n.proxies) = own(proxies) /\ any(n.proxies) = any(proxies)
    BY <1>1
  <2> QED
    BY <2>1
<1>3. F # {} /\ F \subseteq DOMAIN proxies
  BY DEF Offers
<1>4. F \subseteq Nat
  <2>1. DOMAIN proxies \subseteq Nat
    OBVIOUS
  <2> QED
    BY <1>3, <2>1
<1>5. For(format, proxies) = proxies[k] /\ For(format, n.proxies) = n.proxies[k]
  BY <1>2 DEF For
<1> HIDE DEF F
<1>6. PICK m \in F : \A j \in F : <<j, m>> \notin OpToRel(<, Nat)
  BY <1>3, <1>4, NatLessThanWellFounded, WFMin
<1>7. \A j \in F : m <= j
  <2> SUFFICES ASSUME NEW j \in F PROVE ~(j < m)
    BY <1>4
  <2>1. j < m => <<j, m>> \in OpToRel(<, Nat)
    BY <1>4 DEF OpToRel
  <2> QED
    BY <1>6, <2>1
<1>8. k \in F
  BY <1>6, <1>7
<1> HIDE DEF k
<1> QED
  BY <1>3, <1>5, <1>8

\* begin_custom_deserialization_with_format: from the field's proxies or from
\* the shape's, whichever the node was made with.
LEMMA BeginProxyStep ==
    ASSUME PlansInv, NEW format, BeginProxy(format)
    PROVE  PlansInv'
<1> DEFINE t == Current.shape
           n == Node(ResolveBackRef(Current.node))
           proxies == IF n.strategy = "FieldProxy" THEN Current.proxies ELSE Shape[t].proxies
           p == For(format, proxies)
           id == For(format, n.proxies).node
<1>1. status = "active" /\ Offers(format, proxies) /\ Push(Frame(p.shape, id, << >>))
  BY DEF BeginProxy
<1>2. PlanMade(plan) /\ IsFrame(Current) /\ IsSeq(plan.nodes)
  BY <1>1, TopFrame
<1>3. t \in Types /\ Current.proxies \in Seq(ProxySet) /\ IsCall(Plain(t)) /\ Plain(t).shape = t
  BY <1>2 DEF IsFrame, FrameSet, IsCall, Plain
<1>4. proxies \in Seq(ProxySet) /\ ProxiesFit(plan.nodes, n, proxies)
  <2>1. StrategyOf(Plain(t)) # "FieldProxy"
    <3>1. IsPlain(Plain(t))
      BY DEF IsPlain, Plain
    <3> QED
      BY <1>3, <3>1, StrategyFacts
  <2>2. Shape[t].proxies \in Seq(ProxySet)
    BY <1>3, ShapesAssumption
  <2> QED
    BY <1>2, <1>3, <2>1, <2>2, Resolved
<1> HIDE DEF proxies, n
<1>5. PICK k \in DOMAIN proxies : p = proxies[k] /\ For(format, n.proxies) = n.proxies[k]
  BY <1>1, <1>4, ForFits
<1>6. p \in ProxySet /\ FitsPlain(plan.nodes, id, p.shape)
  <2>1. proxies[k] \in ProxySet
    BY <1>4
  <2> QED
    BY <1>4, <1>5, <2>1 DEF ProxiesFit
<1> HIDE DEF p, id
<1> DEFINE c == Plain(p.shape)
<1>7. c \in CallSet /\ c.shape = p.shape /\ c.proxies = << >> /\ Fits(plan.nodes, id, c)
  <2>1. << >> \in Seq(ProxySet)
    OBVIOUS
  <2> QED
    BY <1>6, <2>1 DEF Plain, CallSet, ProxySet, Fits, IsPlain
<1> HIDE DEF c
<1> QED
  BY <1>1, <1>7, PushPart

\* end(): the frame below is the innermost again.
LEMMA EndStep ==
    ASSUME PlansInv, End
    PROVE  PlansInv'
<1>1. /\ status = "active" /\ Len(frames) > 1
      /\ frames' = Front(frames)
      /\ UNCHANGED <<nodes, building, finished, calls, cache, plan, status>>
  BY DEF End, builderVars
<1>2. /\ frames \in Seq(FrameSet) /\ frames # << >>
      /\ \A i \in 1..Len(frames) : FrameMade(plan, frames[i])
  BY <1>1 DEF PlansInv, PartialInv, FramesMade
<1>3. /\ frames' \in Seq(FrameSet) /\ Len(frames') = Len(frames) - 1 /\ Len(frames) \in Nat
      /\ \A i \in 1..Len(frames) - 1 : frames'[i] = frames[i]
  BY <1>1, <1>2, AllButLast
<1>4. FramesMade(plan, frames')
  BY <1>2, <1>3 DEF FramesMade
<1>5. frames' # << >>
  BY <1>1, <1>3
<1>6. PartialInv'
  BY <1>1, <1>4, <1>5 DEF PlansInv, PartialInv
<1>7. BuilderInv' /\ CacheInv'
  BY <1>1 DEF PlansInv, BuilderInv, CacheInv
<1> QED
  BY <1>6, <1>7 DEF PlansInv

LEMMA LeaveStep ==
    ASSUME PlansInv, Leave
    PROVE  PlansInv'
<1>1. /\ status = "active" /\ status' = "idle" /\ plan' = NoPlan /\ frames' = << >>
      /\ UNCHANGED <<nodes, building, finished, calls, cache>>
  BY DEF Leave, builderVars
<1>2. PartialInv'
  BY <1>1, NoFrames DEF PartialInv
<1>3. BuilderInv' /\ CacheInv'
  BY <1>1 DEF PlansInv, BuilderInv, CacheInv
<1> QED
  BY <1>2, <1>3 DEF PlansInv

LEMMA BuilderStep ==
    ASSUME PlansInv, BuilderNext
    PROVE  PlansInv'
<1>1. CASE Finish
  BY <1>1, FinishStep
<1>2. CASE ~Finish
  <2>1. Reuse \/ ReferBack \/ BuildNode \/ Unsupported \/ Alloc
    BY <1>2 DEF BuilderNext
  <2>2. BuilderInv'
    BY <2>1, ReuseStep, ReferBackStep, BuildNodeStep, UnsupportedStep, AllocStep DEF PlansInv
  <2>3. /\ UNCHANGED <<cache, plan, frames>>
        /\ status = "planning" /\ status' \in {"idle", "planning"}
    BY <2>1 DEF Reuse, ReferBack, BuildNode, Unsupported, Alloc, partialVars
  <2>4. CacheInv' /\ PartialInv'
    BY <2>3 DEF PlansInv, CacheInv, PartialInv
  <2> QED
    BY <2>2, <2>4 DEF PlansInv
<1> QED
  BY <1>1, <1>2

LEMMA PlansInit == Init => PlansInv
<1> SUFFICES ASSUME Init PROVE PlansInv
  OBVIOUS
<1>1. /\ nodes = << >> /\ building = {} /\ finished = << >> /\ calls = << >>
      /\ cache = << >> /\ plan = NoPlan /\ frames = << >> /\ status = "idle"
  BY DEF Init
<1>2. BuilderInv
  BY <1>1, Blank DEF BuilderInv
<1>3. CacheInv
  BY <1>1 DEF CacheInv
<1>4. PartialInv
  BY <1>1, NoFrames DEF PartialInv
<1> QED
  BY <1>2, <1>3, <1>4 DEF PlansInv

LEMMA PlansStep ==
    ASSUME Usage = {}, PlansInv, [PlansNext]_vars
    PROVE  PlansInv'
<1>1. CASE BuilderNext
  BY <1>1, BuilderStep
<1>2. ASSUME NEW t \in Roots, FromCache(t) \/ FromShape(t) PROVE PlansInv'
  BY <1>2, FromCacheStep, FromShapeStep
<1>3. ASSUME NEW i \in Nat, BeginField(i) \/ BeginPart(i) PROVE PlansInv'
  BY <1>3, BeginFieldStep, BeginPartStep
<1>4. CASE BeginInner
  BY <1>4, BeginInnerStep
<1>5. ASSUME NEW format \in Formats, BeginProxy(format) PROVE PlansInv'
  BY <1>5, BeginProxyStep
<1>6. CASE End \/ Leave
  BY <1>6, EndStep, LeaveStep
<1>7. CASE UNCHANGED vars
  BY <1>7 DEF vars, builderVars, partialVars, PlansInv, BuilderInv, CacheInv, PartialInv
<1> QED
  BY <1>1, <1>2, <1>3, <1>4, <1>5, <1>6, <1>7 DEF PlansNext

\* The invariant the properties follow from.
LEMMA PlansInvariant == Usage = {} => (PlansSpec => []PlansInv)
<1> SUFFICES ASSUME Usage = {} PROVE PlansSpec => []PlansInv
  OBVIOUS
<1>1. PlansInv /\ [PlansNext]_vars => PlansInv'
  BY PlansStep
<1> QED
  BY <1>1, PlansInit, PTL DEF PlansSpec

-----------------------------------------------------------------------------
(* What it shows *)

(***************************************************************************)
(* TypePlanBuilder: a type is in `building` exactly while a call for it    *)
(* runs, never when it is finished, and it is looked up to its own node.   *)
(***************************************************************************)
THEOREM PlansTyped == Usage = {} => (PlansSpec => []TypeOK)
<1>1. PlansInv => TypeOK
  <2> SUFFICES ASSUME PlansInv PROVE TypeOK
    OBVIOUS
  <2>1. status \in {"idle", "planning", "active", "panicked"}
    BY DEF PlansInv, PartialInv
  <2>2. building = {calls[i].shape : i \in {j \in DOMAIN calls : IsPlain(calls[j])}}
    BY DEF PlansInv, BuilderInv, Running
  <2>3. building \cap DOMAIN finished = {}
    BY DEF PlansInv, BuilderInv
  <2>4. \A t \in DOMAIN finished : nodes[finished[t]].shape = t
    BY DEF PlansInv, BuilderInv, Resolves, FitsPlain
  <2>5. DOMAIN cache \subseteq Roots
    BY DEF PlansInv, CacheInv
  <2>6. ASSUME status = "active" PROVE frames # << >> /\ plan # NoPlan
    <3>1. frames # << >> /\ plan.root \in 1..Len(plan.nodes) /\ Len(plan.nodes) \in Nat
      BY <2>6, SeqFacts DEF PlansInv, PartialInv, PlanMade, Arena
    <3>2. plan.root # 0
      BY <3>1
    <3> QED
      BY <3>1, <3>2 DEF NoPlan
  <2> QED
    BY <2>1, <2>2, <2>3, <2>4, <2>5, <2>6 DEF TypeOK
<1> QED
  BY <1>1, PlansInvariant, PTL

(***************************************************************************)
(* finished and building together give each type one node in the arena     *)
(* while it is filled and in the plan it becomes, for any graph of types:  *)
(* from_shape cannot make a plan as big as the paths through it.           *)
(***************************************************************************)
THEOREM TypesPlannedOnce == Usage = {} => (PlansSpec => []OnePerType)
<1>1. PlansInv => OnePerType
  <2> SUFFICES ASSUME PlansInv PROVE OnePerType
    OBVIOUS
  <2>1. ASSUME NEW ns, IsSeq(ns), NEW lookup, NEW open, Resolves(ns, lookup, open),
               NEW i \in DOMAIN ns, NEW j \in DOMAIN ns, ns[i].shape = ns[j].shape,
               ns[i].strategy \notin {"BackRef", "FieldProxy"},
               ns[j].strategy \notin {"BackRef", "FieldProxy"}
        PROVE  i = j
    <3>1. i \in 1..Len(ns) /\ j \in 1..Len(ns)
      BY <2>1, SeqFacts
    <3>2. lookup[ns[i].shape] = i /\ lookup[ns[j].shape] = j
      BY <2>1, <3>1 DEF Resolves
    <3> QED
      BY <2>1, <3>2
  <2>2. \E lookup, open : IsSeq(nodes) /\ Resolves(nodes, lookup, open)
    BY DEF PlansInv, BuilderInv, Arena
  <2>3. \E lookup, open : IsSeq(plan.nodes) /\ Resolves(plan.nodes, lookup, open)
    <3>1. CASE status = "active"
      BY <3>1 DEF PlansInv, PartialInv, PlanMade, Arena
    <3>2. CASE status # "active"
      <4>1. plan.nodes = << >>
        BY <3>2 DEF PlansInv, PartialInv, NoPlan
      <4> QED
        BY <4>1, Blank DEF Arena
    <3> QED
      BY <3>1, <3>2
  <2> QED
    BY <2>1, <2>2, <2>3 DEF OnePerType
<1> QED
  BY <1>1, PlansInvariant, PTL

\* Every frame there is goes with the plan there is.
LEMMA EveryFrame ==
    ASSUME PlansInv, NEW i \in DOMAIN frames
    PROVE  PlanMade(plan) /\ IsFrame(frames[i])
<1>1. frames \in Seq(FrameSet) /\ \A k \in 1..Len(frames) : FrameMade(plan, frames[k])
  BY DEF PlansInv, PartialInv, FramesMade
<1>2. i \in 1..Len(frames) /\ frames[i] \in FrameSet
  BY <1>1
<1>3. frames # << >>
  BY <1>2
<1> QED
  BY <1>1, <1>2, <1>3 DEF PlansInv, PartialInv, IsFrame

(***************************************************************************)
(* begin_*, resolve_backref: a frame's node is the one that was built for  *)
(* the frame's type, however deep the Partial goes.                        *)
(***************************************************************************)
THEOREM FramesFollowPlan == Usage = {} => (PlansSpec => []PlanFollowsShape)
<1>1. PlansInv => PlanFollowsShape
  BY EveryFrame, Resolved DEF PlanFollowsShape
<1> QED
  BY <1>1, PlansInvariant, PTL

LEMMA ResolvedPlain ==
    ASSUME PlanMade(plan), NEW id, NEW t, FitsPlain(plan.nodes, id, t)
    PROVE  Node(ResolveBackRef(id)).shape = t
<1>1. Resolves(plan.nodes, plan.lookup, {}) /\ plan.nodes[id].shape = t /\ id \in 1..Len(plan.nodes)
  BY DEF PlanMade, FitsPlain
<1>2. CASE plan.nodes[id].kind = "BackRef"
  <2>1. t \in DOMAIN plan.lookup
    BY <1>1, <1>2 DEF Resolves
  <2>2. plan.nodes[plan.lookup[t]].shape = t
    BY <1>1, <2>1 DEF Resolves, FitsPlain
  <2> QED
    BY <1>1, <1>2, <2>2 DEF ResolveBackRef, Node
<1>3. CASE plan.nodes[id].kind # "BackRef"
  BY <1>1, <1>3 DEF ResolveBackRef, Node
<1> QED
  BY <1>2, <1>3

(***************************************************************************)
(* build_node_with_proxy: the proxies a frame is offered are its field's,  *)
(* or else its type's, format by format, and lead to their own types'      *)
(* nodes.                                                                  *)
(***************************************************************************)
THEOREM ProxiesAreOwn == Usage = {} => (PlansSpec => []OwnProxies)
<1>1. PlansInv => OwnProxies
  <2> SUFFICES ASSUME PlansInv, NEW i \in DOMAIN frames
               PROVE  LET f == frames[i]
                          declared == IF f.proxies # << >> THEN f.proxies ELSE Shape[f.shape].proxies
                          offered == Node(ResolveBackRef(f.node)).proxies IN
                      /\ Len(offered) = Len(declared)
                      /\ \A k \in DOMAIN offered :
                          /\ offered[k].format = declared[k].format
                          /\ Node(ResolveBackRef(offered[k].node)).shape = declared[k].shape
    BY DEF OwnProxies
  <2> DEFINE f == frames[i]
             declared == IF f.proxies # << >> THEN f.proxies ELSE Shape[f.shape].proxies
             n == Node(ResolveBackRef(f.node))
  <2>1. PlanMade(plan) /\ IsFrame(f)
    BY EveryFrame
  <2> HIDE DEF f
  <2>2. ProxiesFit(plan.nodes, n, declared)
    BY <2>1, Resolved
  <2> HIDE DEF declared, n
  <2>3. Len(n.proxies) = Len(declared) /\ DOMAIN n.proxies = DOMAIN declared
    BY <2>2 DEF ProxiesFit
  <2>4. ASSUME NEW k \in DOMAIN n.proxies
        PROVE  /\ n.proxies[k].format = declared[k].format
               /\ Node(ResolveBackRef(n.proxies[k].node)).shape = declared[k].shape
    <3>1. n.proxies[k].format = declared[k].format
      BY <2>2, <2>3 DEF ProxiesFit
    <3>2. FitsPlain(plan.nodes, n.proxies[k].node, declared[k].shape)
      BY <2>2, <2>3 DEF ProxiesFit
    <3> QED
      BY <2>1, <3>1, <3>2, ResolvedPlain
  <2> QED
    BY <2>3, <2>4 DEF f, declared, n
<1> QED
  BY <1>1, PlansInvariant, PTL

(***************************************************************************)
(* "TypePlan must have ..": no begin_* fails to find its child's node, for *)
(* any types, where no container is begun whose field has proxies.         *)
(***************************************************************************)
THEOREM NoBeginPanics == Usage = {} => (PlansSpec => []NeverPanics)
<1>1. PlansInv => NeverPanics
  BY DEF PlansInv, PartialInv, NeverPanics
<1> QED
  BY <1>1, PlansInvariant, PTL
=============================================================================
