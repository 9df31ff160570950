---------------------------- MODULE Transport ----------------------------
(***************************************************************************)
(* The agent process in outgoing mode: run (cmd_run.go) opens the state    *)
(* and hands it to Client.Run (client.go), which goes round the routes,    *)
(* first over WebSocket, then over HTTPS pulses, backs off, and ends on a  *)
(* signal or when every attempt of a round was refused.  systemd starts    *)
(* the process again, except after that last ending.                       *)
(*                                                                         *)
(* An attempt that fails is one step: dial, handshake and pulse are all    *)
(* bounded by timeouts.  An attempt that succeeds is a step into a live    *)
(* session and a step out of it; the three loops of a WebSocket session    *)
(* are the subject of Session.                                             *)
(***************************************************************************)
EXTENDS RouteStore

CONSTANTS
    Answering,  \* the sets of <<transport, route>> pairs, one of which always
                \* works once the environment does no more harm
    Malformed,  \* routes whose WebSocket welcome always has heartbeatSeconds <= 0;
                \* that of any route may, while the environment does harm
    MaxLevel    \* bound on the counted backoff steps

ASSUME TransportAssumption ==
    /\ Malformed \subseteq Text
    /\ MaxLevel \in Nat \ {0}

VARIABLES
    pc,         \* where the process is, see Places
    endpoints,  \* the routes of this round, read once at its start
    idx,        \* the position in endpoints of the attempt
    attempts,   \* the counters of the round
    rejected,
    lastErr,    \* "none", "error" or "refused" (ErrAuthRejected)
    level,      \* NextBackOff calls since bo.Reset
    cancelled,  \* SIGTERM or SIGINT was received
    refused,    \* history: the attempts of the round that were refused
    contact,    \* history: a session was established in this round
    working     \* history: the pairs that always work from here on; none
                \* while the environment still does harm

roundVars == << endpoints, idx, attempts, rejected, lastErr, refused, contact >>
vars == << mem, disk, writable, lastSave, pc, endpoints, idx, attempts, rejected, lastErr,
           level, cancelled, refused, contact, working >>

(* wsDoomed is a WebSocket session whose heartbeatSeconds is not positive. *)
Live == {"wsLive", "wsDoomed", "pulseLive"}
Final == {"stopped", "rejected"}
Places == {"down", "round", "ws", "pulse", "decide", "wait"} \cup Live \cup Final

ResetRound ==
    /\ endpoints' = << >>
    /\ idx' = 1
    /\ attempts' = 0
    /\ rejected' = 0
    /\ lastErr' = "none"
    /\ refused' = {}
    /\ contact' = FALSE

Init ==
    /\ StoreInit
    /\ pc = "down"
    /\ endpoints = << >>
    /\ idx = 1
    /\ attempts = 0
    /\ rejected = 0
    /\ lastErr = "none"
    /\ level = 0
    /\ cancelled = FALSE
    /\ refused = {}
    /\ contact = FALSE
    /\ working = {}

--------------------------------------------------------------------------
(* The process. *)

(* systemd starts the process; run loads the state, merges the environment *)
(* and calls Client.Run, whose backoff is new.                             *)
Boot(extra) ==
    /\ pc = "down"
    /\ OpenState(extra)
    /\ pc' = "round"
    /\ UNCHANGED << roundVars, level, cancelled, working >>

StartRound ==
    /\ pc = "round"
    /\ endpoints' = mem.wsURLs
    /\ idx' = 1
    /\ attempts' = 0
    /\ rejected' = 0
    /\ lastErr' = "none"
    /\ refused' = {}
    /\ contact' = FALSE
    /\ pc' = IF endpoints' = << >> THEN "decide" ELSE "ws"
    /\ UNCHANGED << storeVars, level, cancelled, working >>

(* A slip: only the first route is pulsed. *)
AdvanceOneRoute(transport) ==
    IF transport = "ws" /\ idx < Len(endpoints)
    THEN idx' = idx + 1 /\ pc' = transport
    ELSE idx' = 1 /\ pc' = IF transport = "ws" THEN "pulse" ELSE "decide"

(* After the attempt at idx: the next route, then the other transport.     *)
Advance(transport) ==
    IF idx < Len(endpoints)
    THEN idx' = idx + 1 /\ pc' = transport
    ELSE idx' = 1 /\ pc' = IF transport = "ws" THEN "pulse" ELSE "decide"

(* A slip: only a refusal is remembered as the last error. *)
EndsQuietly(transport, outcome) ==
    /\ lastErr' = IF outcome = "refused" THEN "refused" ELSE lastErr
    /\ rejected' = IF outcome = "refused" THEN rejected + 1 ELSE rejected
    /\ refused' = IF outcome = "refused"
                  THEN refused \cup {<< transport, idx >>} ELSE refused
    /\ Advance(transport)
    /\ UNCHANGED << storeVars, endpoints, cancelled, contact, working >>

(* The attempt ends with an error: it is counted, and the loop moves on.   *)
Ends(transport, outcome) ==
    /\ lastErr' = outcome
    /\ rejected' = IF outcome = "refused" THEN rejected + 1 ELSE rejected
    /\ refused' = IF outcome = "refused"
                  THEN refused \cup {<< transport, idx >>} ELSE refused
    /\ Advance(transport)
    /\ UNCHANGED << storeVars, endpoints, cancelled, contact, working >>

(* An attempt is made at idx, and the context is still alive after it.     *)
Attempting(transport) == pc = transport /\ ~cancelled

Calm == working # {}

(* Once calm, the attempt cannot fail.                                     *)
MustWork(transport) == << transport, endpoints[idx] >> \in working

(* Dialling or the handshake fails, or the panel answers that it does not  *)
(* know the agent; the pulse likewise (an address that is no ws(s) URL     *)
(* fails in both).                                                         *)
AttemptFails(transport, outcome) ==
    /\ Attempting(transport)
    /\ ~MustWork(transport)
    /\ outcome = "refused" => endpoints[idx] \in Usable
    /\ attempts' = attempts + 1
    /\ Ends(transport, outcome)
    /\ UNCHANGED level

(* The panel welcomes the agent, whose list is replaced by the welcome's.  *)
(* The WebSocket handshake takes any heartbeat interval, the pulse rejects *)
(* one that is not positive.                                               *)
Established(transport, list) ==
    /\ Attempting(transport)
    /\ endpoints[idx] \in Usable
    /\ attempts' = attempts + 1
    /\ ApplyWelcome(list)
    /\ contact' = TRUE
    /\ UNCHANGED << endpoints, idx, rejected, lastErr, refused, level,
                    cancelled, working >>

WsWelcomed(list) ==
    /\ Established("ws", list)
    /\ \/ endpoints[idx] \notin Malformed /\ pc' = "wsLive"
       \/ (endpoints[idx] \in Malformed \/ ~Calm) /\ pc' = "wsDoomed"

PulseWelcomed(list) ==
    /\ Established("pulse", list)
    /\ pc' = "pulseLive"

AttemptWs ==
    \/ \E outcome \in {"error", "refused"} : AttemptFails("ws", outcome)
    \/ \E list \in Lists : WsWelcomed(list)

AttemptPulse ==
    \/ \E outcome \in {"error", "refused"} : AttemptFails("pulse", outcome)
    \/ \E list \in Lists : PulseWelcomed(list)

(* A slip: the backoff is not reset by a session. *)
SessionEndsNoReset(transport, outcome) ==
    /\ ~cancelled
    /\ ~MustWork(transport)
    /\ Ends(transport, outcome)
    /\ UNCHANGED << attempts, level >>

(* A live session ends by itself: the backoff starts anew, the loop goes   *)
(* on with the next route.                                                 *)
SessionEnds(transport, outcome) ==
    /\ ~cancelled
    /\ ~MustWork(transport)
    /\ level' = 0
    /\ Ends(transport, outcome)
    /\ UNCHANGED attempts

(* The panel removes the agent, or the connection breaks.                  *)
WsSessionEnds ==
    /\ pc = "wsLive"
    /\ \E outcome \in {"error", "refused"} : SessionEnds("ws", outcome)

(* sendLoop makes a ticker of the welcome's interval; time.NewTicker       *)
(* panics on one that is not positive, and nothing recovers.               *)
Panic ==
    /\ pc = "wsDoomed"
    /\ ForgetMemory
    /\ pc' = IF cancelled THEN "stopped" ELSE "down"
    /\ level' = 0
    /\ ResetRound
    /\ UNCHANGED << cancelled, working >>

(* A slip: a welcome of a pulse is used and not saved. *)
PulseWelcomeUnsaved(list) ==
    /\ pc = "pulseLive"
    /\ ~cancelled
    /\ ApplyWelcomeUnsaved(list)
    /\ UNCHANGED << roundVars, pc, level, cancelled, working >>

(* A heartbeat pulse is answered with a fresh welcome, or fails.           *)
PulseWelcome(list) ==
    /\ pc = "pulseLive"
    /\ ~cancelled
    /\ ApplyWelcome(list)
    /\ UNCHANGED << roundVars, pc, level, cancelled, working >>

PulseSessionEnds ==
    /\ pc = "pulseLive"
    /\ \E outcome \in {"error", "refused"} : SessionEnds("pulse", outcome)

(* A slip: every pulse puts the return to WebSocket off. *)
PulseRetryPutOff ==
    /\ pc = "pulseLive"
    /\ ~cancelled
    /\ UNCHANGED vars

(* A minute of pulses is over: try WebSocket again, at once.               *)
PulseRetry ==
    /\ pc = "pulseLive"
    /\ ~cancelled
    /\ level' = 0
    /\ lastErr' = "none"
    /\ pc' = "decide"
    /\ UNCHANGED << storeVars, endpoints, idx, attempts, rejected, refused,
                    contact, cancelled, working >>

(* The end of a round: again at once, give up, or wait.                    *)
RetryAtOnce ==
    /\ pc = "decide"
    /\ lastErr = "none"
    /\ pc' = "round"
    /\ UNCHANGED << storeVars, roundVars, level, cancelled, working >>

(* Slips: one refusal is enough; the refusals over one transport are. *)
GiveUpOnAny ==
    /\ pc = "decide"
    /\ lastErr # "none"
    /\ rejected > 0
    /\ pc' = "rejected"
    /\ UNCHANGED << storeVars, roundVars, level, cancelled, working >>

GiveUpOnOneTransport ==
    /\ pc = "decide"
    /\ lastErr # "none"
    /\ rejected >= Len(endpoints)
    /\ pc' = "rejected"
    /\ UNCHANGED << storeVars, roundVars, level, cancelled, working >>

GiveUp ==
    /\ pc = "decide"
    /\ lastErr # "none"
    /\ attempts > 0 /\ rejected = attempts
    /\ pc' = "rejected"
    /\ UNCHANGED << storeVars, roundVars, level, cancelled, working >>

BackOff ==
    /\ pc = "decide"
    /\ lastErr # "none"
    /\ ~(attempts > 0 /\ rejected = attempts)
    /\ level' = IF level < MaxLevel THEN level + 1 ELSE level
    /\ pc' = "wait"
    /\ UNCHANGED << storeVars, roundVars, cancelled, working >>

(* Both channels of the select may be ready: a cancelled wait may also end *)
(* with the timer.                                                         *)
WaitOver ==
    /\ pc = "wait"
    /\ pc' = "round"
    /\ UNCHANGED << storeVars, roundVars, level, cancelled, working >>

(* A slip: a live session does not look at the context. *)
StopBetweenSessions ==
    /\ cancelled
    /\ pc \in {"ws", "pulse", "wait"}
    /\ pc' = "stopped"
    /\ UNCHANGED << storeVars, roundVars, level, cancelled, working >>

(* The context is cancelled: the attempt, the session or the wait returns, *)
(* and so does Run.                                                        *)
Stop ==
    /\ cancelled
    /\ pc \in {"ws", "pulse", "wait"} \cup Live
    /\ pc' = "stopped"
    /\ UNCHANGED << storeVars, roundVars, level, cancelled, working >>

--------------------------------------------------------------------------
(* The environment. *)

Running == pc \notin Final \cup {"down"}

Signal ==
    /\ Running
    /\ ~cancelled /\ ~Calm
    /\ cancelled' = TRUE
    /\ UNCHANGED << storeVars, roundVars, pc, level, working >>

(* SIGKILL, the OOM killer, a power cut. *)
Kill ==
    /\ Running
    /\ ~Calm
    /\ ForgetMemory
    /\ pc' = IF cancelled THEN "stopped" ELSE "down"
    /\ level' = 0
    /\ ResetRound
    /\ UNCHANGED << cancelled, working >>

(* systemctl start, or an installer run, after either ending.              *)
OperatorStarts ==
    /\ pc \in Final
    /\ pc' = "down"
    /\ ForgetMemory
    /\ level' = 0
    /\ cancelled' = FALSE
    /\ ResetRound
    /\ UNCHANGED working

DiskToggles ==
    /\ ~Calm
    /\ DiskChanges
    /\ UNCHANGED << pc, roundVars, level, cancelled, working >>

BecomeCalm ==
    /\ ~Calm
    /\ working' \in Answering
    /\ UNCHANGED << storeVars, roundVars, pc, level, cancelled >>

Start == \E extra \in Extras : Boot(extra)
Decide == RetryAtOnce \/ GiveUp \/ BackOff
Pulses == \E list \in Lists : PulseWelcome(list)

Next ==
    \/ Start \/ StartRound
    \/ AttemptWs \/ WsSessionEnds \/ Panic
    \/ AttemptPulse \/ Pulses \/ PulseSessionEnds \/ PulseRetry
    \/ Decide \/ WaitOver \/ Stop
    \/ Signal \/ Kill \/ OperatorStarts \/ DiskToggles \/ BecomeCalm

Spec == Init /\ [][Next]_vars

(* What the process and systemd do they do eventually: every attempt is    *)
(* bounded by its timeouts, the minute of pulses and the backoff by their  *)
(* timers.  How long a live session lasts, and all that the environment    *)
(* does, is not fair.                                                      *)
Fairness ==
    /\ WF_vars(Start) /\ WF_vars(StartRound)
    /\ WF_vars(AttemptWs) /\ WF_vars(Panic)
    /\ WF_vars(AttemptPulse) /\ WF_vars(PulseRetry)
    /\ WF_vars(Decide) /\ WF_vars(WaitOver) /\ WF_vars(Stop)

FairSpec == Spec /\ Fairness

--------------------------------------------------------------------------
(* Properties. *)

Transports == {"ws", "pulse"}

TypeOK ==
    /\ StoreTypeOK
    /\ pc \in Places
    /\ endpoints \in Seq(Text)
    /\ idx \in Nat \ {0}
    /\ attempts \in Nat
    /\ rejected \in Nat
    /\ lastErr \in {"none", "error", "refused"}
    /\ level \in 0..MaxLevel
    /\ cancelled \in BOOLEAN
    /\ refused \subseteq Transports \X (Nat \ {0})
    /\ contact \in BOOLEAN
    /\ working \in Answering \cup {{}}

(* The agent ends for good (exit code 78) only when every route of the     *)
(* round refused it over WebSocket and over HTTPS: one error of the        *)
(* network, one session, one route left out is enough to keep it trying    *)
(* (client.go:103-111).                                                    *)
RejectionIsUnanimous ==
    pc = "rejected" =>
        /\ endpoints # << >>
        /\ refused = Transports \X DOMAIN endpoints

(* A round is followed by the next one without a wait only when the panel  *)
(* was reached in it: otherwise an unreachable panel would make the agent  *)
(* spin (client.go:97-105).                                                *)
NoBusyLoop ==
    pc = "decide" /\ lastErr = "none" => contact

(* After a round that reached the panel the first wait is the shortest     *)
(* one, however long the outage before it was (client.go:70-72, 89-91).    *)
BackoffAfterContact ==
    pc = "wait" => level >= 1 /\ (contact => level = 1)

(* The agent knows a route that always works from here on, over one of the *)
(* transports.                                                             *)
Knows(transports) ==
    Running => \E i \in DOMAIN mem.wsURLs :
                  transports \X {mem.wsURLs[i]} \cap working # {}

(* Whatever the environment did before, once it is calm and a route the    *)
(* agent knows works over one transport, the agent is in touch with its    *)
(* panel again and again, unless it was told to end: no route that hangs,  *)
(* refuses or breaks keeps it from the one that works (client.go:3-5).     *)
InTouch == pc \in {"wsLive", "pulseLive"}
WorkingRouteIsReached ==
    <>[](Calm /\ Knows(Transports)) => []<>(InTouch \/ pc \in Final)

(* When that transport is WebSocket, the agent settles in a WebSocket      *)
(* session: pulses over a worse path never keep it (client.go:81-99).      *)
WebSocketIsHeld ==
    <>[](Calm /\ Knows({"ws"})) => <>[](pc \in {"wsLive"} \cup Final)

(* A signal ends the process from wherever it is (client.go:67, 86, 119).  *)
SignalEndsProcess ==
    cancelled ~> pc \in Final

(* "All independent entrances and both transports got a final refusal"     *)
(* (client.go:106): no route the agent knows is left unasked when it ends  *)
(* for good.  The round asks the routes it started with; a welcome heard   *)
(* in it may have replaced them.                                           *)
EveryKnownRouteRefused ==
    pc = "rejected" =>
        \A i \in DOMAIN mem.wsURLs : \E j \in DOMAIN endpoints :
            /\ endpoints[j] = mem.wsURLs[i]
            /\ {<< "ws", j >>, << "pulse", j >>} \subseteq refused

--------------------------------------------------------------------------
(* A round is a vote of its attempts, identified by transport and position *)
(* in the round's list.                                                    *)

Asking == pc \in {"ws", "pulse", "decide"} \cup Live

votePhase == IF pc = "rejected" THEN "halted" ELSE IF Asking THEN "asking" ELSE "idle"
voteVoters == IF votePhase = "idle" THEN {} ELSE Transports \X DOMAIN endpoints
voteRefusals == IF votePhase = "idle" THEN {} ELSE refused

Vote == INSTANCE RejectionVote
            WITH Voters   <- Transports \X (1..MaxRoutes),
                 phase    <- votePhase,
                 voters   <- voteVoters,
                 refusals <- voteRefusals

(* The client implements the vote: every step of it is one of the vote's   *)
(* or none, so a refusal is counted once and for the attempt that got it,  *)
(* a round's refusals never leak into the next, and the end is unanimous.  *)
RoundsAreVotes == Vote!Spec

--------------------------------------------------------------------------
(* Of the list of routes nothing is to be seen but its history: a process  *)
(* that has ended leaves the file.                                         *)

shownMem == IF Running THEN mem ELSE disk
shownSave == IF Running THEN lastSave ELSE "ok"

History == INSTANCE RouteHistory
               WITH mem      <- shownMem,
                    lastSave <- shownSave,
                    up       <- Running

(* Whatever the client does round after round, the list only changes as    *)
(* RouteHistory says: on a start, by a welcome, and back to the file when  *)
(* the process ends (client.go:167-180, cmd_run.go:38-95).                 *)
ListHasHistory == History!Spec

--------------------------------------------------------------------------
(* The inductive invariant behind the safety properties and the refinement.*)

(* The attempts of the round that have ended. *)
Asked ==
    IF pc \in {"ws", "wsLive", "wsDoomed"}
    THEN {"ws"} \X (1..(idx - 1))
    ELSE IF pc \in {"pulse", "pulseLive"}
         THEN ({"ws"} \X (1..Len(endpoints))) \cup ({"pulse"} \X (1..(idx - 1)))
         ELSE Transports \X (1..Len(endpoints))

(* Their number: the attempt of a live session is counted, but not over.   *)
Ended == IF pc \in Live THEN attempts - 1 ELSE attempts

Looping == pc \in {"ws", "pulse"} \cup Live
Decided == pc = "decide" /\ lastErr # "none"

(* The round is over routes of a normal list, at a position of it. *)
RoundInv ==
    /\ (Asking \/ pc = "rejected") =>
          /\ endpoints # << >> /\ Len(endpoints) <= MaxRoutes
          /\ refused \subseteq Transports \X (1..Len(endpoints))
    /\ Looping => idx \in 1..Len(endpoints)

(* The counters compare as the sets of attempts they count do. *)
CountInv ==
    /\ Looping \/ Decided =>
          /\ refused \subseteq Asked
          /\ Ended \in Nat
          /\ rejected <= Ended
          /\ rejected = Ended <=> refused = Asked
    /\ pc = "rejected" => refused = Asked

(* The backoff has been reset by the time a round with contact decides. *)
ContactInv ==
    /\ pc \in Live => contact
    /\ contact /\ pc \in {"ws", "pulse", "decide"} => level = 0
    /\ NoBusyLoop
    /\ BackoffAfterContact

IInv == TypeOK /\ RoutesNormal /\ RoundInv /\ CountInv /\ ContactInv
==========================================================================
