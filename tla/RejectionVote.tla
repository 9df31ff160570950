-------------------------- MODULE RejectionVote --------------------------
(***************************************************************************)
(* What the agent promises about ending for good, with nothing of how: it  *)
(* opens a vote among some voters, collects refusals one by one in any     *)
(* order, may abandon the vote at any moment, and halts only on a vote in  *)
(* which every voter refused.  A halted agent stays so until an operator   *)
(* starts it again.                                                        *)
(***************************************************************************)
CONSTANT Voters

VARIABLES phase, voters, refusals

vars == << phase, voters, refusals >>

Init == phase = "idle" /\ voters = {} /\ refusals = {}

Open ==
    /\ phase = "idle"
    /\ phase' = "asking"
    /\ voters' \in (SUBSET Voters) \ {{}}
    /\ refusals' = {}

Refuse ==
    /\ phase = "asking"
    /\ \E v \in voters \ refusals : refusals' = refusals \cup {v}
    /\ UNCHANGED << phase, voters >>

Abandon ==
    /\ phase = "asking"
    /\ phase' = "idle" /\ voters' = {} /\ refusals' = {}

Halt ==
    /\ phase = "asking"
    /\ refusals = voters
    /\ phase' = "halted"
    /\ UNCHANGED << voters, refusals >>

Revive ==
    /\ phase = "halted"
    /\ phase' = "idle" /\ voters' = {} /\ refusals' = {}

Next == Open \/ Refuse \/ Abandon \/ Halt \/ Revive

Spec == Init /\ [][Next]_vars
==========================================================================
