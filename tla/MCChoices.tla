----------------------------- MODULE MCChoices -----------------------------
(***************************************************************************)
(* The shapes TLC builds: Option<Leaf>, Option<Pair> with                  *)
(* struct Pair { x: Leaf, y: Option<Leaf> }, Option<Shorter> with          *)
(* enum Shorter { A(Leaf, Leaf), B },                                      *)
(* enum { A(Two, Option<Leaf>), B(Leaf, Leaf, Leaf), C }                   *)
(* with struct Two { x: Leaf, y: Leaf },                                   *)
(* Box<Two>, Box<Option<Leaf>>, Option<Box<Leaf>>, Box<Holder> with        *)
(* struct Holder { x: Box<Leaf> }, Result<Leaf, Two>, and                  *)
(* Result<Option<Leaf>, Box<Leaf>>.                                        *)
(***************************************************************************)
EXTENDS Choices

Pair == Struct(<<Leaf, Option(Leaf)>>)
Two == Struct(<<Leaf, Leaf>>)
Holder == Struct(<<Pointer(Leaf)>>)
AnEnum == Enum(<< <<Two, Option(Leaf)>>, <<Leaf, Leaf, Leaf>>, << >> >>)

Shorter == Enum(<< <<Leaf, Leaf>>, << >> >>)

AllTypes == {Option(Leaf), Option(Pair), Option(Shorter), AnEnum,
             Pointer(Two), Pointer(Option(Leaf)), Option(Pointer(Leaf)), Pointer(Holder),
             ResultOf(Leaf, Two), ResultOf(Option(Leaf), Pointer(Leaf))}
Never == {}
=============================================================================
