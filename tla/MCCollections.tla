--------------------------- MODULE MCCollections ---------------------------
(***************************************************************************)
(* The types TLC builds: Vec<Vec<Leaf>>, Vec<Map<Leaf, Leaf>>,             *)
(* Map<Leaf, Vec<Leaf>>, Map<Leaf, Map<Leaf, Leaf>>, Vec<Set<Leaf>>,       *)
(* Map<Leaf, Set<Leaf>>, Set<Vec<Leaf>>.                                   *)
(***************************************************************************)
EXTENDS Collections

AllTypes == {"list", "map"} \X Kinds \cup {<<"set", "list">>}
ListsOnly == {<<"list", "list">>}
Never == {}
Reopening == {"reopen"}
=============================================================================
