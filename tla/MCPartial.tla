----------------------------- MODULE MCPartial -----------------------------
(***************************************************************************)
(* Small types for TLC.                                                    *)
(*                                                                         *)
(*   struct Config { inner: Inner, name: String, opt: Option<..> }         *)
(*   struct Inner { x: String, y: String }                                 *)
(*                                                                         *)
(* and, for arrays,                                                        *)
(*                                                                         *)
(*   struct Grid { cells: [Cell; 2], name: String }   Cell { x, y }        *)
(***************************************************************************)
EXTENDS Ownership

CONSTANTS root, inner, x, y, name, opt, cells, c0, c1, y0

MCNodes == {root, inner, x, y, name, opt}
MCKind == [n \in MCNodes |-> IF n \in {root, inner} THEN "struct" ELSE "leaf"]
MCFields == [n \in MCNodes |->
                CASE n = root -> {inner, name, opt}
                  [] n = inner -> {x, y}
                  [] OTHER -> {}]
MCBelow == [n \in MCNodes |->
                CASE n = root -> MCNodes
                  [] n = inner -> {inner, x, y}
                  [] OTHER -> {n}]
MCDefault == {opt}
MCSelfDefault == {opt, inner}

\* root { cells: [c0 { x, y0 }, c1], name }
ArrNodes == {root, cells, c0, c1, x, y0, name}
ArrKind == [n \in ArrNodes |->
                CASE n \in {root, c0} -> "struct"
                  [] n = cells -> "array"
                  [] OTHER -> "leaf"]
ArrFields == [n \in ArrNodes |->
                CASE n = root -> {cells, name}
                  [] n = cells -> {c0, c1}
                  [] n = c0 -> {x, y0}
                  [] OTHER -> {}]
ArrBelow == [n \in ArrNodes |->
                CASE n = root -> ArrNodes
                  [] n = cells -> {cells, c0, c1, x, y0}
                  [] n = c0 -> {c0, x, y0}
                  [] OTHER -> {n}]

NoNodes == {}
Deferring == {"defer"}
StrictOnly == {}
Overwriting == {"defer", "overwrite_stored"}
EnteringTwice == {"defer", "enter_twice"}
BuildingEarly == {"defer", "build_unfinished"}
=============================================================================
