--------------------------- MODULE RouteLoopMC ---------------------------
(***************************************************************************)
(* RouteLoop on every list of at most MCLength texts, with three usable    *)
(* addresses, a padded copy of one of them, a text that is no address and  *)
(* the empty text, under a limit of MaxRoutes addresses.                    *)
(***************************************************************************)
EXTENDS RouteLoop

CONSTANT MCLength

MCText == {"", "a", "b", "c", " a", "junk"}
MCUsable == {"a", "b", "c"}
MCTrim == [t \in MCText |-> IF t = " a" THEN "a" ELSE t]

MCStates == {[wsURL |-> u, wsURLs |-> << >>] : u \in {"", "junk", "b"}}
MCLists == UNION {[1..n -> MCText] : n \in 0..MCLength}
MCInputs == [st : MCStates, urls : MCLists]
==========================================================================
