---------------------------- MODULE RouteLoop ----------------------------
(***************************************************************************)
(* The loop of State.SetEndpoints, one pass per step: the range over urls, *)
(* its two `continue`s, the map of addresses seen, the `break` at the      *)
(* limit, and the two conditionals after the loop.  The other modules use  *)
(* what this loop computes through RouteList!SetEndpoints; this module is  *)
(* where the two are shown to agree.                                       *)
(***************************************************************************)
EXTENDS RouteList

CONSTANT Inputs     \* the calls: pairs of a state and the urls passed to it

ASSUME InputsAssumption ==
    Inputs \subseteq [st : RouteState, urls : Seq(Text)]

VARIABLES
    call,   \* the call being executed
    at,     \* the position of urls the loop looks at next
    seen,   \* the keys of the map seen
    next,   \* the slice next
    result, \* the route fields of the receiver
    pc      \* "loop", "after" (the conditionals after the loop) or "done"

loopVars == << call, at, seen, next, result, pc >>

LoopInit ==
    /\ call \in Inputs
    /\ at = 1
    /\ seen = {}
    /\ next = << >>
    /\ result = call.st
    /\ pc = "loop"

Looking == pc = "loop" /\ at \in DOMAIN call.urls
Url == Trim[call.urls[at]]

(* An empty text, one that is not a ws(s) URL, or one already taken. *)
Skip ==
    /\ Looking
    /\ Url \notin Usable \/ Url \in seen
    /\ at' = at + 1
    /\ UNCHANGED << call, seen, next, result, pc >>

(* A slip: the limit is noticed one too late. *)
TakeOneTooMany ==
    /\ Looking
    /\ Url \in Usable \ seen
    /\ seen' = seen \cup {Url}
    /\ next' = Append(next, Url)
    /\ at' = at + 1
    /\ pc' = IF Len(next) = MaxRoutes THEN "after" ELSE "loop"
    /\ UNCHANGED << call, result >>

(* A new usable address; the fifth one leaves the loop. *)
Take ==
    /\ Looking
    /\ Url \in Usable \ seen
    /\ seen' = seen \cup {Url}
    /\ next' = Append(next, Url)
    /\ at' = at + 1
    /\ pc' = IF Len(next') = MaxRoutes THEN "after" ELSE "loop"
    /\ UNCHANGED << call, result >>

(* The range is exhausted. *)
Exhausted ==
    /\ pc = "loop"
    /\ at \notin DOMAIN call.urls
    /\ pc' = "after"
    /\ UNCHANGED << call, at, seen, next, result >>

(* Nothing usable: keep the address the state already has. *)
FallBack ==
    /\ pc = "after"
    /\ next = << >>
    /\ result.wsURL # Empty
    /\ next' = << result.wsURL >>
    /\ UNCHANGED << call, at, seen, result, pc >>

Assign ==
    /\ pc = "after"
    /\ next # << >> \/ result.wsURL = Empty
    /\ result' = [wsURL  |-> IF next = << >> THEN result.wsURL ELSE next[1],
                  wsURLs |-> next]
    /\ pc' = "done"
    /\ UNCHANGED << call, at, seen, next >>

LoopNext == Skip \/ Take \/ Exhausted \/ FallBack \/ Assign

LoopSpec == LoopInit /\ [][LoopNext]_loopVars

--------------------------------------------------------------------------

LoopTypeOK ==
    /\ call \in Inputs
    /\ at \in 1..(Len(call.urls) + 1)
    /\ seen \subseteq Usable
    /\ next \in Seq(Text)
    /\ result \in RouteState
    /\ pc \in {"loop", "after", "done"}

(* The loop and the conditionals leave in the receiver what SetEndpoints   *)
(* of RouteList says: the first uses of the usable addresses, in order,    *)
(* cut at the limit, or the single old address (state.go:90-115).          *)
LoopIsSetEndpoints ==
    pc = "done" => result = SetEndpoints(call.st, call.urls)

(* The list a save writes is read back unchanged: what the loop leaves of  *)
(* a list with its own first address appended to it (Save and Load both    *)
(* append it, state.go:78-80 and 119-121) is a fixed point of the same     *)
(* loop, so no number of restarts moves, drops or adds an address.         *)
SavedListIsStable ==
    pc = "done" /\ result.wsURL # Empty =>
        /\ Normalised(Normalised(result)) = Normalised(result)
        /\ Loaded(Normalised(result)) = Normalised(result)

--------------------------------------------------------------------------

(* The positions already passed whose address was taken. *)
Passed == {p \in FirstUses(call.urls) : p < at}

(* The inductive invariant of the loop.  While it runs, seen holds every   *)
(* usable address met so far, next has one entry per first use passed, and *)
(* the k-th entry is the address at the first use of rank k; after it,     *)
(* next is what RouteList says is kept, or the address fallen back to.     *)
LoopInv ==
    /\ LoopTypeOK
    /\ pc # "done" => result = call.st
    /\ pc = "loop" =>
          /\ seen = {Trim[call.urls[j]] : j \in 1..(at - 1)} \cap Usable
          /\ Len(next) = Cardinality(Passed)
          /\ Len(next) < MaxRoutes
          /\ \A k \in DOMAIN next : \E p \in Passed :
                /\ Rank(FirstUses(call.urls), p) = k
                /\ next[k] = Trim[call.urls[p]]
    /\ pc = "after" =>
          \/ next = Kept(call.urls)
          \/ /\ Kept(call.urls) = << >>
             /\ call.st.wsURL # Empty
             /\ next = << call.st.wsURL >>
    /\ LoopIsSetEndpoints
==========================================================================
