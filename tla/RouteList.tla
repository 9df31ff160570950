---------------------------- MODULE RouteList ----------------------------
(***************************************************************************)
(* The list of addresses ("routes") an agent may reach its panel by, as    *)
(* internal/state/state.go keeps it.  A route is a text taken from the     *)
(* panel, from state.json or from the environment; what the code can tell  *)
(* about a text is whether it is empty, what is left of it when the spaces *)
(* around it are removed, and whether that is a ws:// or wss:// URL with a *)
(* host.  Everything in this module is a pure function of such lists.      *)
(***************************************************************************)
EXTENDS Naturals, Sequences, FiniteSets

CONSTANTS
    Text,       \* the texts an address may be
    Empty,      \* the empty string
    Trim,       \* strings.TrimSpace, as a function
    Usable,     \* the trimmed texts that parse as ws(s)://host...
    MaxRoutes   \* the limit on the number of addresses (5 in the code)

ASSUME RouteAssumption ==
    /\ Empty \in Text
    /\ Trim \in [Text -> Text]
    /\ Trim[Empty] = Empty
    /\ Usable \subseteq Text \ {Empty}
    /\ \A t \in Usable : Trim[t] = t
    /\ MaxRoutes \in Nat \ {0}

(* The two route fields of the state: the address old agents read, and the *)
(* whole list.                                                             *)
RouteState == [wsURL : Text, wsURLs : Seq(Text)]

--------------------------------------------------------------------------

(* A slip: of a repeated address the last use counts. *)
LastUses(urls) ==
    {i \in DOMAIN urls :
        /\ Trim[urls[i]] \in Usable
        /\ \A j \in (i + 1)..Len(urls) : Trim[urls[j]] # Trim[urls[i]]}

(* The positions of urls that the loop of SetEndpoints appends: those that *)
(* hold a usable address not met at an earlier position.                   *)
FirstUses(urls) ==
    {i \in DOMAIN urls :
        /\ Trim[urls[i]] \in Usable
        /\ \A j \in 1..(i - 1) : Trim[urls[j]] # Trim[urls[i]]}

(* How many of the positions P come no later than position i. *)
Rank(P, i) == Cardinality({j \in P : j <= i})

(* What the loop leaves in next: the addresses at those positions, in      *)
(* their order, cut at MaxRoutes.                                          *)
Kept(urls) ==
    LET P == FirstUses(urls)
        n == IF Cardinality(P) < MaxRoutes THEN Cardinality(P) ELSE MaxRoutes
    IN  [k \in 1..n |-> Trim[urls[CHOOSE i \in P : Rank(P, i) = k]]]

(* A slip: without the fallback to the address at hand. *)
SetEndpointsNoFallback(st, urls) ==
    [wsURL  |-> IF Kept(urls) = << >> THEN st.wsURL ELSE Kept(urls)[1],
     wsURLs |-> Kept(urls)]

(* State.SetEndpoints: a list with nothing usable in it falls back to the  *)
(* single address the agent already had.                                   *)
SetEndpoints(st, urls) ==
    LET next == IF Kept(urls) = << >> /\ st.wsURL # Empty
                THEN << st.wsURL >>
                ELSE Kept(urls)
    IN  [wsURL  |-> IF next = << >> THEN st.wsURL ELSE next[1],
         wsURLs |-> next]

(* What Save does to the state before it writes it, and Load after it has  *)
(* read it: the old field is appended to the list, the list is cleaned.    *)
Normalised(st) ==
    IF st.wsURL = Empty
    THEN st
    ELSE SetEndpoints(st, Append(st.wsURLs, st.wsURL))

(* The route part of Load. *)
Loaded(st) ==
    Normalised(IF st.wsURL = Empty /\ st.wsURLs # << >>
               THEN [st EXCEPT !.wsURL = st.wsURLs[1]]
               ELSE st)

(* Slips: the new addresses first, and instead of the reserves. *)
MergedFirst(current, extra) == extra \o current
MergedOver(current, extra) == << current[1] >> \o extra

(* run: the addresses of NODESERVICE_WS_URLS go between the first address  *)
(* and the reserves.                                                       *)
Merged(current, extra) == << current[1] >> \o extra \o Tail(current)

(* enroll: Result.Endpoints drops empty texts and exact repeats (it does   *)
(* not trim: Save does), the single address of an old panel comes last.    *)
EnrolledRoutes(wsURLs, wsURL) ==
    LET urls == Append(wsURLs, wsURL)
        P == {i \in DOMAIN urls : /\ urls[i] # Empty
                                  /\ \A j \in 1..(i - 1) : urls[j] # urls[i]}
    IN  [k \in 1..Cardinality(P) |-> urls[CHOOSE i \in P : Rank(P, i) = k]]

(* run: the state enrollFirstRun saves, as Save leaves it. *)
Enrolled(wsURLs, wsURL) ==
    Normalised([wsURL |-> wsURL, wsURLs |-> EnrolledRoutes(wsURLs, wsURL)])

--------------------------------------------------------------------------

NoRepeats(urls) ==
    \A i, j \in DOMAIN urls : urls[i] = urls[j] => i = j

(* The form every stored list has: never empty, no repeats, no longer than *)
(* the limit, headed by the old field, and made of usable addresses unless *)
(* a single unusable one is all the agent ever got.                        *)
Normal(st) ==
    /\ st.wsURLs # << >>
    /\ st.wsURL = st.wsURLs[1]
    /\ Len(st.wsURLs) <= MaxRoutes
    /\ NoRepeats(st.wsURLs)
    /\ \/ \A i \in DOMAIN st.wsURLs : st.wsURLs[i] \in Usable
       \/ Len(st.wsURLs) = 1 /\ Trim[st.wsURL] \notin Usable
==========================================================================
