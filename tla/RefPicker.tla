------------------------------ MODULE RefPicker ------------------------------
(***************************************************************************)
(* What RefDropdown promises its host (spec 4.5), with everything inside   *)
(* the overlay hidden: the overlay opens and closes; while it is open the  *)
(* user may pick a reference, which becomes the selection and closes it;   *)
(* with a cancel handler and a selection, cancel clears the selection and  *)
(* closes it.  Nothing else changes the selection.                         *)
(***************************************************************************)
CONSTANTS
    Refs,         \* the references a pick may report
    InitialRefs,  \* the selections a host may start with
    WithCancel,   \* the host passes onCancel
    NoRef         \* no selection

VARIABLES show, selected

Init ==
    /\ show = FALSE
    /\ selected \in InitialRefs \cup {NoRef}

Open ==
    /\ ~show /\ show' = TRUE
    /\ UNCHANGED selected

Close ==
    /\ show /\ show' = FALSE
    /\ UNCHANGED selected

Pick ==
    /\ show /\ show' = FALSE
    /\ selected' \in Refs

Cancel ==
    /\ WithCancel /\ selected # NoRef
    /\ selected' = NoRef /\ show' = FALSE

Next == Open \/ Close \/ Pick \/ Cancel

Spec == Init /\ [][Next]_<<show, selected>>

=============================================================================
