------------------------- MODULE SessionContract -------------------------
(***************************************************************************)
(* What Client.session promises to Client.Run, and all that Transport      *)
(* knows of it: an attempt either fails, or becomes a live session that    *)
(* ends later; it ends as refused only if the panel said so on this very   *)
(* connection; once over it stays over.                                    *)
(***************************************************************************)
VARIABLES
    stage,      \* "trying", "live" or "over"
    outcome,    \* "none", "error" or "refused"
    refusedBy   \* whether the panel has sent a refusal

vars == << stage, outcome, refusedBy >>

Init == stage = "trying" /\ outcome = "none" /\ refusedBy = FALSE

PanelRefuses ==
    /\ ~refusedBy
    /\ refusedBy' = TRUE
    /\ UNCHANGED << stage, outcome >>

Establish ==
    /\ stage = "trying"
    /\ stage' = "live"
    /\ UNCHANGED << outcome, refusedBy >>

End ==
    /\ stage \in {"trying", "live"}
    /\ stage' = "over"
    /\ outcome' \in {"error"} \cup IF refusedBy THEN {"refused"} ELSE {}
    /\ UNCHANGED refusedBy

Next == PanelRefuses \/ Establish \/ End

Spec == Init /\ [][Next]_vars
==========================================================================
