--------------------------- MODULE TransportMC ---------------------------
(***************************************************************************)
(* Transport with two routes, at most two in a list, the lists a panel     *)
(* sends, and one address that is no URL for an agent enrolled with it.    *)
(***************************************************************************)
EXTENDS Transport

CONSTANTS A, B, Junk, NoText

MCText == {A, B, Junk, NoText}
MCUsable == {A, B}
MCTrim == [t \in MCText |-> t]

MCEnrolments == {[wsURLs |-> << A >>, wsURL |-> A],
                 [wsURLs |-> << A, B >>, wsURL |-> A]}
MCJunkEnrolments == MCEnrolments \cup {[wsURLs |-> << >>, wsURL |-> Junk]}

(* The environment of the runs where routes come and go, and of those      *)
(* where B is always among them.                                           *)
MCExtras == {<< >>, << B >>}
MCLists == {<< A, B >>, << B >>}
MCBothEnrolments == {[wsURLs |-> << A, B >>, wsURL |-> A]}
MCBothLists == {<< A, B >>, << B, A >>}
MCAllLists == MCLists \cup MCBothLists

MCNone == {}
MCWebSocketB == {{<< "ws", B >>}}
MCEitherB == {{<< "ws", B >>}, {<< "pulse", B >>}}
MCMalformedA == {A}
==========================================================================
