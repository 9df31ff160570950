--------------------------- MODULE EnrollmentMC ---------------------------
(***************************************************************************)
(* Two entrances, the second given twice, once with a slash at its end.    *)
(***************************************************************************)
EXTENDS Enrollment

MCUrl == {"", "one", "two", "two/"}
MCClean == [u \in MCUrl |-> IF u = "two/" THEN "two" ELSE u]
MCGiven == << "one", "two/", "", "two", "one" >>
MCAnswering == {"two"}
==========================================================================
