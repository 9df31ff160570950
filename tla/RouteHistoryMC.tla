-------------------------- MODULE RouteHistoryMC -------------------------
(***************************************************************************)
(* RouteHistory with four usable addresses, a padded copy of one, a text   *)
(* that is no address, the empty text, and room for three addresses: lists *)
(* that are clean, padded, repeated, too long, and useless as a whole.     *)
(***************************************************************************)
EXTENDS RouteHistory

MCText == {"", "a", "b", "c", "d", " b", "junk"}
MCUsable == {"a", "b", "c", "d"}
MCTrim == [t \in MCText |-> IF t = " b" THEN "b" ELSE t]

MCEnrolments ==
    {[wsURLs |-> << >>, wsURL |-> "a"],
     [wsURLs |-> << "a", "b", "a" >>, wsURL |-> " b"],
     [wsURLs |-> << "b", "", "c", "d", "a" >>, wsURL |-> "b"],
     [wsURLs |-> << "" >>, wsURL |-> "junk"]}

MCExtras ==
    {<< >>, << "" , "junk" >>, << "c" >>, << "d", " b", "d" >>,
     << "a", "b", "c", "d" >>}

MCLists ==
    {<< >>, << "a" >>, << "a", "b", "c" >>, << "d", "junk", "a" >>,
     << " b", "c", "b" >>, << "d", "c", "b", "a" >>, << "junk" >>}
==========================================================================
