------------------------------- MODULE Screen -------------------------------
(***************************************************************************)
(* What a program may rely on of the display: it composes a picture, asks  *)
(* for a refresh, and some time later the panel shows that picture and no  *)
(* other.  Between refreshes it may also replace one row of the panel.     *)
(***************************************************************************)
CONSTANTS Pages, Row, Unsettled

VARIABLES
    canvas,      \* the picture being composed
    shown,       \* the picture on the panel; rows are Unsettled in a refresh
    refreshing

vars == <<canvas, shown, refreshing>>

Init ==
    /\ canvas \in [Pages -> Row]
    /\ shown \in [Pages -> Row]
    /\ refreshing = FALSE

Draw ==
    /\ ~refreshing
    /\ canvas' \in [Pages -> Row]
    /\ UNCHANGED <<shown, refreshing>>

Refresh ==
    /\ ~refreshing
    /\ refreshing' = TRUE
    /\ shown' = [p \in Pages |-> Unsettled]
    /\ UNCHANGED canvas

Settle ==
    /\ refreshing
    /\ refreshing' = FALSE
    /\ shown' = canvas
    /\ UNCHANGED canvas

ShowRow ==
    /\ ~refreshing
    /\ \E p \in Pages : \A q \in Pages \ {p} : shown'[q] = shown[q]
    /\ shown' \in [Pages -> Row]
    /\ UNCHANGED <<canvas, refreshing>>

Next == Draw \/ Refresh \/ Settle \/ ShowRow

(* A refresh comes to its end. *)
Spec == Init /\ [][Next]_vars /\ WF_vars(Settle)
=============================================================================
