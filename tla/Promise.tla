------------------------------ MODULE Promise ------------------------------
(***************************************************************************)
(* What a Partial promises its caller about the memory of one value, with  *)
(* no frames, paths or trackers in it: parts of the value are written and  *)
(* discarded while it is being built; it is handed over only when every    *)
(* part has been written; and when it is given up, nothing is left behind. *)
(***************************************************************************)
CONSTANT Parts      \* the parts of the value that are written as a whole

VARIABLES
    value,          \* what each part holds
    outcome         \* "Building", "Built", "Moved" or "Dropped"

vars == <<value, outcome>>

Empty == [l \in Parts |-> "Uninit"]
Full == \A l \in Parts : value[l] # "Uninit"

Init == value = Empty /\ outcome = "Building"

\* Parts are written, replaced or discarded, and the call that does it may
\* be the last one.
Work ==
    /\ outcome = "Building"
    /\ value' \in [Parts -> {"Uninit", "Set", "Default"}]
    /\ outcome' \in {"Building", "Dropped"}
    /\ outcome' = "Dropped" => value' = Empty

HandOver ==
    /\ outcome = "Building" /\ Full
    /\ outcome' = "Built"
    /\ UNCHANGED value

\* The receiver moves the whole value out, or drops it.
Receive ==
    /\ outcome = "Built"
    /\ \/ outcome' = "Moved" /\ UNCHANGED value
       \/ outcome' = "Dropped" /\ value' = Empty

Next == Work \/ HandOver \/ Receive

Spec == Init /\ [][Next]_vars
=============================================================================
