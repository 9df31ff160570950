----------------------------- MODULE Session -----------------------------
(***************************************************************************)
(* One call of Client.session (client.go): dial, the handshake hello /     *)
(* challenge / auth / welcome, and then three goroutines over one          *)
(* connection, of which the first to fail ends the session.  Processes:    *)
(* the caller (main), the loops, the panel, the network, and the signal    *)
(* that cancels the parent context.                                        *)
(***************************************************************************)
EXTENDS Naturals, Sequences, FiniteSets

CONSTANTS
    MaxInbox    \* bound on messages in flight from the panel

ASSUME SessionAssumption == MaxInbox \in Nat \ {0}

Loops == {"read", "send", "ping"}

(* A slip: a channel with room for one error. *)
ErrsRoomOne == 1

(* errs is made with room for one error of every loop. *)
ErrsRoom == Cardinality(Loops)

(* What a message of the panel is to the client: the two it waits for, an  *)
(* error with an authentication code, an error with another code, a        *)
(* message of an unknown type, one of an unknown protocol version or one   *)
(* that does not decode.                                                   *)
Messages == {"challenge", "welcome", "authError", "otherError", "unknown", "broken"}

VARIABLES
    main,       \* "dial", "hello", "challenge", "auth", "welcome" (what it
                \* writes or waits for), "live", "closing" or "returned"
    result,     \* what session returns: established, and the error
    conn,       \* the local end: "none", "open" or "closed"
    link,       \* the path: "up", "frozen" (nothing passes, nothing fails)
                \* or "broken" (the peer closed, or a reset)
    inbox,      \* messages sent by the panel and not read
    loops,      \* each goroutine: "idle", "running", "busy" (inside a write
                \* or a ping), "posting" (at errs <- ...) or "ended"
    failure,    \* the error a posting goroutine holds
    errs,       \* the channel errs
    loopDone,   \* cancel() of firstLoopError was called
    cancelled,  \* the parent context was cancelled
    said        \* history: the kinds of message the panel has sent

vars == << main, result, conn, link, inbox, loops, failure, errs, loopDone,
           cancelled, said >>

Init ==
    /\ main = "dial"
    /\ result = [established |-> FALSE, err |-> "none"]
    /\ conn = "none"
    /\ link = "up"
    /\ inbox = << >>
    /\ loops = [l \in Loops |-> "idle"]
    /\ failure = [l \in Loops |-> "none"]
    /\ errs = << >>
    /\ loopDone = FALSE
    /\ cancelled = FALSE
    /\ said = {}

loopVars == << loops, failure, errs, loopDone >>
netVars == << link, inbox, said >>

--------------------------------------------------------------------------
(* The caller, up to the welcome. *)

Handshaking == main \in {"hello", "challenge", "auth", "welcome"}

(* The path is left with an error: the deferred Close is still to run.     *)
Fail(err) ==
    /\ result' = [result EXCEPT !.err = err]
    /\ main' = "closing"

Dial ==
    /\ main = "dial"
    /\ \/ /\ link = "up" /\ ~cancelled
          /\ conn' = "open"
          /\ main' = "hello"
          /\ UNCHANGED result
       \/ /\ result' = [result EXCEPT !.err = "error"]
          /\ main' = "returned"
          /\ UNCHANGED conn
    /\ UNCHANGED << netVars, loopVars, cancelled >>

(* hello, and the signature of the nonce. *)
HandshakeWrite ==
    /\ main \in {"hello", "auth"}
    /\ conn = "open" /\ link # "broken" /\ ~cancelled
    /\ main' = IF main = "hello" THEN "challenge" ELSE "welcome"
    /\ UNCHANGED << result, conn, netVars, loopVars, cancelled >>

(* The answer is read: the awaited one, a refusal, or anything else.       *)
HandshakeRead ==
    /\ main \in {"challenge", "welcome"}
    /\ conn = "open" /\ inbox # << >> /\ ~cancelled
    /\ inbox' = Tail(inbox)
    /\ \/ /\ Head(inbox) = main /\ main = "challenge"
          /\ main' = "auth"
          /\ UNCHANGED << result, loops >>
       \/ /\ Head(inbox) = main /\ main = "welcome"
          /\ main' = "live"
          /\ result' = [result EXCEPT !.established = TRUE]
          /\ loops' = [l \in Loops |-> "running"]
       \/ /\ Head(inbox) = "authError"
          /\ Fail("refused")
          /\ UNCHANGED loops
       \/ /\ Head(inbox) \notin {main, "authError"}
          /\ Fail("error")
          /\ UNCHANGED loops
    /\ UNCHANGED << conn, link, said, failure, errs, loopDone, cancelled >>

(* A read or a write of the handshake fails: the twenty seconds are over,  *)
(* the context is cancelled or the connection is gone.                     *)
HandshakeFails ==
    /\ Handshaking
    /\ Fail("error")
    /\ UNCHANGED << conn, netVars, loopVars, cancelled >>

(* A slip: the later errors are taken as well. *)
TakeEveryError ==
    /\ main = "live"
    /\ errs # << >>
    /\ errs' = Tail(errs)
    /\ loopDone' = TRUE
    /\ result' = [result EXCEPT !.err = Head(errs)]
    /\ main' = IF \E l \in Loops : loops[l] # "ended" THEN "live" ELSE "closing"
    /\ UNCHANGED << conn, netVars, loops, failure, cancelled >>

(* firstLoopError takes the first error and cancels the other loops.       *)
TakeFirstError ==
    /\ main = "live"
    /\ errs # << >>
    /\ errs' = Tail(errs)
    /\ loopDone' = TRUE
    /\ Fail(Head(errs))
    /\ UNCHANGED << conn, netVars, loops, failure, cancelled >>

(* The deferred Close, which gives a peer that does not answer it up.      *)
Close ==
    /\ main = "closing"
    /\ conn' = "closed"
    /\ main' = "returned"
    /\ UNCHANGED << result, netVars, loopVars, cancelled >>

--------------------------------------------------------------------------
(* The loops. *)

CtxDone == loopDone \/ cancelled

(* The loop returns with an error, which its goroutine is to post.         *)
Returns(l, err) ==
    /\ loops' = [loops EXCEPT ![l] = "posting"]
    /\ failure' = [failure EXCEPT ![l] = err]

(* A blocked read or write notices the end of its context by closing the   *)
(* connection.                                                             *)
ConnAfterIO == IF CtxDone THEN "closed" ELSE conn

Post(l) ==
    /\ loops[l] = "posting"
    /\ Len(errs) < ErrsRoom
    /\ errs' = Append(errs, failure[l])
    /\ loops' = [loops EXCEPT ![l] = "ended"]
    /\ UNCHANGED << main, result, conn, netVars, failure, loopDone, cancelled >>

(* A slip: every error message is taken for a refusal. *)
ReadMessageAnyError ==
    /\ loops["read"] = "running"
    /\ conn = "open" /\ inbox # << >> /\ ~CtxDone
    /\ inbox' = Tail(inbox)
    /\ \/ /\ Head(inbox) \in {"authError", "otherError"}
          /\ Returns("read", "refused")
       \/ /\ Head(inbox) = "broken"
          /\ Returns("read", "error")
       \/ /\ Head(inbox) \notin {"authError", "otherError", "broken"}
          /\ UNCHANGED << loops, failure >>
    /\ UNCHANGED << main, result, conn, link, said, errs, loopDone, cancelled >>

ReadMessage ==
    /\ loops["read"] = "running"
    /\ conn = "open" /\ inbox # << >> /\ ~CtxDone
    /\ inbox' = Tail(inbox)
    /\ \/ /\ Head(inbox) = "authError"
          /\ Returns("read", "refused")
       \/ /\ Head(inbox) = "broken"
          /\ Returns("read", "error")
       \/ /\ Head(inbox) \notin {"authError", "broken"}
          /\ UNCHANGED << loops, failure >>
    /\ UNCHANGED << main, result, conn, link, said, errs, loopDone, cancelled >>

ReadFails ==
    /\ loops["read"] = "running"
    /\ conn = "closed" \/ link = "broken" \/ CtxDone
    /\ Returns("read", "error")
    /\ conn' = ConnAfterIO
    /\ UNCHANGED << main, result, netVars, errs, loopDone, cancelled >>

(* A heartbeat or a batch of metrics is due; the write of it ends when the *)
(* bytes are handed to the kernel, which a frozen path may delay.          *)
SendTick ==
    /\ loops["send"] = "running"
    /\ loops' = [loops EXCEPT !["send"] = "busy"]
    /\ UNCHANGED << main, result, conn, netVars, failure, errs, loopDone, cancelled >>

SendDone ==
    /\ loops["send"] = "busy"
    /\ conn = "open" /\ link # "broken"
    /\ loops' = [loops EXCEPT !["send"] = "running"]
    /\ UNCHANGED << main, result, conn, netVars, failure, errs, loopDone, cancelled >>

SendFails ==
    /\ loops["send"] = "busy"
    /\ conn = "closed" \/ link = "broken" \/ CtxDone
    /\ Returns("send", "error")
    /\ conn' = ConnAfterIO
    /\ UNCHANGED << main, result, netVars, errs, loopDone, cancelled >>

(* The pong is read by the read loop.                                      *)
PingTick ==
    /\ loops["ping"] = "running"
    /\ loops' = [loops EXCEPT !["ping"] = "busy"]
    /\ UNCHANGED << main, result, conn, netVars, failure, errs, loopDone, cancelled >>

Pong ==
    /\ loops["ping"] = "busy"
    /\ conn = "open" /\ link = "up" /\ loops["read"] = "running"
    /\ loops' = [loops EXCEPT !["ping"] = "running"]
    /\ UNCHANGED << main, result, conn, netVars, failure, errs, loopDone, cancelled >>

(* A slip: the ping has no timeout of its own. *)
PingFailsLate ==
    /\ loops["ping"] = "busy"
    /\ conn = "closed" \/ link = "broken" \/ CtxDone
    /\ Returns("ping", "error")
    /\ UNCHANGED << main, result, conn, netVars, errs, loopDone, cancelled >>

(* No pong in fifteen seconds, or the end of the connection or context.    *)
PingFails ==
    /\ loops["ping"] = "busy"
    /\ Returns("ping", "error")
    /\ UNCHANGED << main, result, conn, netVars, errs, loopDone, cancelled >>

(* The select of the send and ping loops sees the end of the context.      *)
LoopCancelled(l) ==
    /\ l \in {"send", "ping"}
    /\ loops[l] = "running"
    /\ CtxDone
    /\ Returns(l, "error")
    /\ UNCHANGED << main, result, conn, netVars, errs, loopDone, cancelled >>

--------------------------------------------------------------------------
(* The panel, the network, the operator. *)

PanelSends(m) ==
    /\ conn = "open" /\ link = "up"
    /\ Len(inbox) < MaxInbox
    /\ inbox' = Append(inbox, m)
    /\ said' = said \cup {m}
    /\ UNCHANGED << main, result, conn, link, loopVars, cancelled >>

Degrade ==
    /\ \/ link = "up" /\ link' \in {"frozen", "broken"}
       \/ link = "frozen" /\ link' = "broken"
    /\ UNCHANGED << main, result, conn, inbox, said, loopVars, cancelled >>

Cancel ==
    /\ ~cancelled
    /\ cancelled' = TRUE
    /\ UNCHANGED << main, result, conn, netVars, loopVars >>

(* Everything is over: the caller has returned, no goroutine is left.      *)
Finished ==
    /\ main = "returned"
    /\ \A l \in Loops : loops[l] \in {"idle", "ended"}
    /\ UNCHANGED vars

Handshake == HandshakeWrite \/ HandshakeRead \/ HandshakeFails
Reading == ReadMessage \/ ReadFails
Sending == SendFails \/ LoopCancelled("send")
Pinging == PingTick \/ Pong \/ PingFails \/ LoopCancelled("ping")

Next ==
    \/ Dial \/ Handshake \/ TakeFirstError \/ Close
    \/ \E l \in Loops : Post(l)
    \/ Reading \/ Sending \/ SendTick \/ SendDone \/ Pinging
    \/ \E m \in Messages : PanelSends(m)
    \/ Degrade \/ Cancel \/ Finished

Spec == Init /\ [][Next]_vars

(* Every goroutine that can move does; dial (5 s), handshake (20 s) and    *)
(* ping (30 s and 15 s) have timers.  A write into a frozen path may never *)
(* end, and the ticker that starts one is no promise either.               *)
Fairness ==
    /\ WF_vars(Dial) /\ WF_vars(Handshake)
    /\ WF_vars(TakeFirstError) /\ WF_vars(Close)
    /\ \A l \in Loops : WF_vars(Post(l))
    /\ WF_vars(Reading) /\ WF_vars(Sending)
    /\ WF_vars(PingTick) /\ WF_vars(Pong \/ PingFails)
    /\ WF_vars(LoopCancelled("ping"))

FairSpec == Spec /\ Fairness

--------------------------------------------------------------------------
(* Properties. *)

Errors == {"none", "error", "refused"}

TypeOK ==
    /\ main \in {"dial", "hello", "challenge", "auth", "welcome", "live",
                 "closing", "returned"}
    /\ result \in [established : BOOLEAN, err : Errors]
    /\ conn \in {"none", "open", "closed"}
    /\ link \in {"up", "frozen", "broken"}
    /\ inbox \in Seq(Messages) /\ Len(inbox) <= MaxInbox
    /\ loops \in [Loops -> {"idle", "running", "busy", "posting", "ended"}]
    /\ failure \in [Loops -> Errors]
    /\ errs \in Seq({"error", "refused"})
    /\ loopDone \in BOOLEAN
    /\ cancelled \in BOOLEAN
    /\ said \subseteq Messages

(* A session is live only after the panel challenged and welcomed the      *)
(* agent, and is over as refused, which counts towards the agent's end,    *)
(* only if the panel sent a refusal on this connection: not because a      *)
(* write, a ping or a timeout failed (client.go:245-282, 323-327, 355-364).*)
OutcomeIsThePanels ==
    /\ result.established => {"challenge", "welcome"} \subseteq said
    /\ result.err = "refused" => "authError" \in said

(* No goroutine ever waits at the channel of errors, though only one error *)
(* is ever taken from it: it has room for all of them (client.go:189-193). *)
PostNeverBlocks ==
    \A l \in Loops : loops[l] = "posting" => Len(errs) < ErrsRoom

(* Whatever ends a session, its connection is closed when it returns, and  *)
(* a live one is always told why it ended (client.go:138, 193-195).        *)
NothingLeftOpen ==
    main = "returned" => conn # "open" /\ result.err # "none"

(* A dead path is always left, even one that only swallows packets: writes *)
(* into it succeed or hang and reads from it hang, but the ping gives up   *)
(* (client.go:154-162, 202-220; the handshake has its own timeout).  And a *)
(* signal ends the session from wherever it is (client.go:132-164).        *)
SessionEnds ==
    link # "up" \/ cancelled ~> main = "returned"

(* After the session no goroutine of it stays behind, so an agent that     *)
(* reconnects for months does not grow (client.go:187-195).                *)
NoGoroutineLeft ==
    main = "returned" ~> \A l \in Loops : loops[l] \in {"idle", "ended"}

(* The session implements the contract Transport is written against. *)
stage ==
    IF main = "live" THEN "live"
    ELSE IF main \in {"closing", "returned"} THEN "over" ELSE "trying"

Contract == INSTANCE SessionContract
                WITH stage <- stage, outcome <- result.err,
                     refusedBy <- "authError" \in said

(* One attempt, at most one live session, an outcome that never changes    *)
(* afterwards and is a refusal only when the panel refused.                *)
KeepsContract == Contract!Spec

(* The inductive invariant: refusals come from the panel along every way   *)
(* an error takes, no more errors are posted than loops have ended, and    *)
(* nothing of the live session exists before it.                           *)
RefusalInv ==
    /\ OutcomeIsThePanels
    /\ \A i \in DOMAIN inbox : inbox[i] \in said
    /\ \A l \in Loops : failure[l] = "refused" => "authError" \in said
    /\ \A i \in DOMAIN errs : errs[i] = "refused" => "authError" \in said
    /\ main \in {"auth", "welcome"} => "challenge" \in said

EndedLoops == {l \in Loops : loops[l] = "ended"}

ErrsInv ==
    /\ Len(errs) <= Cardinality(EndedLoops)
    /\ \A l \in Loops : loops[l] = "posting" => failure[l] # "none"

BeforeLive == main = "dial" \/ Handshaking

PhaseInv ==
    /\ main = "dial" => conn = "none"
    /\ BeforeLive => loops = [l \in Loops |-> "idle"] /\ errs = << >>
    /\ BeforeLive \/ main = "live" => result.err = "none"
    /\ main = "closing" => result.err # "none"
    /\ NothingLeftOpen

SessionInv == TypeOK /\ RefusalInv /\ ErrsInv /\ PhaseInv
==========================================================================
