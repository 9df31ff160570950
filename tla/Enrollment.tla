---------------------------- MODULE Enrollment ----------------------------
(***************************************************************************)
(* The first run: a process without state.json makes a key, offers it with *)
(* the one-time token to one entrance of the panel after another until one *)
(* accepts (enroll.go), and saves the binding (cmd_run.go).  A request may *)
(* be received long after the agent stopped waiting for it; the process    *)
(* may die at any step, and systemd starts another, which makes a new key. *)
(***************************************************************************)
EXTENDS Naturals, Sequences, FiniteSets

CONSTANTS
    Keys,       \* the keys there are to make
    NoKey,
    Url,        \* the texts an entrance is given by
    Clean,      \* TrimSpace and TrimRight of "/", as a function
    Empty,      \* the empty text
    Given,      \* --panel-url and the parts of NODESERVICE_PANEL_URLS
    Answering   \* the entrances that answer in time once `calm`

ASSUME EnrollmentAssumption ==
    /\ NoKey \notin Keys
    /\ Empty \in Url
    /\ Clean \in [Url -> Url]
    /\ Given \in Seq(Url) /\ Given # << >>
    /\ Clean[Given[1]] # Empty
    /\ Answering \subseteq Url

(* enrollmentPanelURLs: the first one stays first, blanks and repeats do   *)
(* not cost a timeout each.  What is kept are the texts at these positions.*)
FirstGiven ==
    {i \in DOMAIN Given :
        /\ Clean[Given[i]] # Empty
        /\ \A j \in 1..(i - 1) : Clean[Given[j]] # Clean[Given[i]]}

Entrances ==
    LET Place(i) == Cardinality({j \in FirstGiven : j <= i})
    IN  [k \in 1..Cardinality(FirstGiven) |->
            Clean[Given[CHOOSE i \in FirstGiven : Place(i) = k]]]

VARIABLES
    pc,         \* "down", "asking", "waiting" (for an answer), "saving" or
                \* "enrolled"
    key,        \* the key of this process
    at,         \* the entrance being tried
    reply,      \* the answer that reached the agent: "none", "ok", "refused"
    sent,       \* the requests on their way: [key, at]
    bound,      \* the key the panel bound the token to
    file,       \* the key in state.json
    calm,       \* history: from here on the environment does no more harm
    wasted      \* history: a binding the agent never got to save

vars == << pc, key, at, reply, sent, bound, file, calm, wasted >>

Init ==
    /\ pc = "down" /\ key = NoKey /\ at = 1 /\ reply = "none"
    /\ sent = {} /\ bound = NoKey /\ file = NoKey
    /\ calm \in BOOLEAN /\ wasted = FALSE

FreshKeys == Keys \ ({bound, file} \cup {r.key : r \in sent})

Request == [key |-> key, at |-> at]

(* Once calm, an answering entrance gets the requests made to it, and its  *)
(* answer gets back in time.                                               *)
Reliable == calm /\ Entrances[at] \in Answering
AnswerComes == Reliable /\ (Request \in sent \/ reply # "none")

(* A slip: the token in the environment is used again on every start. *)
StartAskingAlways ==
    /\ pc = "down"
    /\ \E k \in FreshKeys : key' = k
    /\ at' = 1
    /\ pc' = "asking"
    /\ UNCHANGED << reply, sent, bound, file, calm, wasted >>

(* run: an existing state is used, and the token ignored. *)
Start ==
    /\ pc = "down"
    /\ \/ /\ file # NoKey
          /\ pc' = "enrolled"
          /\ UNCHANGED << key, at >>
       \/ /\ file = NoKey
          /\ \E k \in FreshKeys : key' = k
          /\ at' = 1
          /\ pc' = "asking"
    /\ UNCHANGED << reply, sent, bound, file, calm, wasted >>

Send ==
    /\ pc = "asking"
    /\ sent' = sent \cup {Request}
    /\ pc' = "waiting"
    /\ UNCHANGED << key, at, reply, bound, file, calm, wasted >>

(* A slip: the entrances are counted to one too many. *)
TryNextPastEnd ==
    /\ IF at <= Len(Entrances)
       THEN at' = at + 1 /\ pc' = "asking"
       ELSE at' = at /\ pc' = "down"
    /\ reply' = "none"
    /\ UNCHANGED << key, bound, file, calm >>

(* FirstAvailable goes on with the next entrance; after the last one the   *)
(* process exits with an error.                                            *)
TryNext ==
    /\ IF at < Len(Entrances)
       THEN at' = at + 1 /\ pc' = "asking"
       ELSE at' = at /\ pc' = "down"
    /\ reply' = "none"
    /\ UNCHANGED << key, bound, file, calm >>

Unreachable ==
    /\ pc = "asking"
    /\ ~Reliable
    /\ TryNext
    /\ UNCHANGED << sent, wasted >>

(* Fifteen seconds are over, the connection broke, or the answer is not    *)
(* what it should be.  The request may still arrive.                       *)
GivesUpWaiting ==
    /\ pc = "waiting"
    /\ ~AnswerComes
    /\ TryNext
    /\ wasted' = (wasted \/ reply = "ok")
    /\ UNCHANGED sent

(* The panel binds a token once, and answers; only the agent still waiting *)
(* for this answer gets it.                                                *)
PanelReceives(r) ==
    /\ r \in sent
    /\ sent' = sent \ {r}
    /\ bound' = IF bound = NoKey THEN r.key ELSE bound
    /\ IF pc = "waiting" /\ r = Request
       THEN /\ reply' = IF bound = NoKey THEN "ok" ELSE "refused"
            /\ UNCHANGED wasted
       ELSE /\ wasted' = (wasted \/ bound = NoKey)
            /\ UNCHANGED reply
    /\ UNCHANGED << pc, key, at, file, calm >>

Lost(r) ==
    /\ r \in sent
    /\ ~(Reliable /\ r = Request)
    /\ sent' = sent \ {r}
    /\ UNCHANGED << pc, key, at, reply, bound, file, calm, wasted >>

(* A slip: the state is used and not saved. *)
AcceptedUnsaved ==
    /\ pc = "waiting" /\ reply = "ok"
    /\ pc' = "enrolled"
    /\ UNCHANGED << key, at, reply, sent, bound, file, calm, wasted >>

Accepted ==
    /\ pc = "waiting" /\ reply = "ok"
    /\ pc' = "saving"
    /\ UNCHANGED << key, at, reply, sent, bound, file, calm, wasted >>

Refused ==
    /\ pc = "waiting" /\ reply = "refused"
    /\ TryNext
    /\ UNCHANGED << sent, wasted >>

(* A slip: the key saved is not the one that was offered. *)
SaveAnotherKey ==
    /\ pc = "saving"
    /\ \E k \in FreshKeys : file' = k
    /\ pc' = "enrolled"
    /\ reply' = "none"
    /\ UNCHANGED << key, at, sent, bound, calm, wasted >>

SaveState ==
    /\ pc = "saving"
    /\ \/ file' = key /\ pc' = "enrolled" /\ UNCHANGED wasted
       \/ ~calm /\ pc' = "down" /\ wasted' = TRUE /\ UNCHANGED file
    /\ reply' = "none"
    /\ UNCHANGED << key, at, sent, bound, calm >>

(* A signal is one of these: it is only caught after the enrolment. *)
Die ==
    /\ pc # "down" /\ ~calm
    /\ pc' = "down"
    /\ reply' = "none"
    /\ wasted' = (wasted \/ pc = "saving" \/ reply = "ok")
    /\ UNCHANGED << key, at, sent, bound, file, calm >>

BecomeCalm ==
    /\ ~calm
    /\ calm' = TRUE
    /\ UNCHANGED << pc, key, at, reply, sent, bound, file, wasted >>

Receive == \E r \in sent : PanelReceives(r)
Lose == \E r \in sent : Lost(r)

Next ==
    \/ Start \/ Send \/ Unreachable \/ GivesUpWaiting \/ Receive \/ Lose
    \/ Accepted \/ Refused \/ SaveState \/ Die \/ BecomeCalm
    \/ pc = "enrolled" /\ UNCHANGED vars

Spec == Init /\ [][Next]_vars

(* The agent and systemd act, every request is received or lost.           *)
Fairness ==
    /\ WF_vars(Start) /\ WF_vars(Send \/ Unreachable)
    /\ WF_vars(Accepted \/ Refused \/ GivesUpWaiting)
    /\ WF_vars(SaveState) /\ WF_vars(Receive \/ Lose)

FairSpec == Spec /\ Fairness

--------------------------------------------------------------------------
(* Properties. *)

TypeOK ==
    /\ pc \in {"down", "asking", "waiting", "saving", "enrolled"}
    /\ key \in Keys \cup {NoKey} /\ bound \in Keys \cup {NoKey}
    /\ file \in Keys \cup {NoKey}
    /\ at \in 1..Len(Entrances)
    /\ reply \in {"none", "ok", "refused"}
    /\ sent \subseteq [key : Keys, at : 1..Len(Entrances)]
    /\ calm \in BOOLEAN /\ wasted \in BOOLEAN

(* The key in state.json is the one the panel bound: across timeouts, late *)
(* requests, several entrances and several runs, each with a key of its    *)
(* own, no agent is left with a state the panel does not know              *)
(* (cmd_run.go:112-138).                                                   *)
FileKeyIsBound ==
    file # NoKey => file = bound

(* A spent token without a state is always the trace of an answer that the *)
(* agent did not live to save; nothing else spends it (cmd_run.go:118-138).*)
TokenSpentForNothing ==
    bound # NoKey /\ bound # file /\ ~wasted =>
        pc \in {"waiting", "saving"} /\ bound = key

(* Once the environment is calm and an entrance answers, the agent is      *)
(* enrolled for good, unless a binding was wasted: entrances that hang,    *)
(* fail or refuse before it do not matter, and neither do starts after the *)
(* first (enroll.go:131-140, cmd_run.go:41-64).                            *)
CalmEnrols ==
    <>calm => <>[](pc = "enrolled" \/ wasted)

--------------------------------------------------------------------------
(* The inductive invariant behind the two safety properties.               *)

(* The answer at hand is one to the request being waited for, and what is  *)
(* about to be saved, or is saved, is what the panel bound.                *)
KeyInv ==
    /\ pc \in {"asking", "waiting", "saving"} => key \in Keys
    /\ pc \notin {"waiting", "saving"} => reply = "none"
    /\ reply # "none" => Request \notin sent
    /\ reply = "ok" \/ pc = "saving" => bound = key
    /\ FileKeyIsBound

(* A token bound to a key that is not in the file, for which no answer was *)
(* lost, is that of an answer at hand.                                     *)
SpentInv ==
    bound # NoKey /\ bound # file /\ ~wasted =>
        /\ bound = key
        /\ pc = "saving" \/ (pc = "waiting" /\ reply = "ok")

(* Whatever is late, lost or killed, an answer is never taken for that to  *)
(* another request, entrance or key (enroll.go:77-115, cmd_run.go:112-138).*)
BindingInv == KeyInv /\ SpentInv
===========================================================================
