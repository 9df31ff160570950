-------------------------- MODULE SessionProofs --------------------------
(***************************************************************************)
(* The safety of one session, for any number of messages and any           *)
(* interleaving of the caller, its three loops, panel and network.         *)
(***************************************************************************)
EXTENDS Session, FiniteSetTheorems, TLAPS

LEMMA LoopsFinite ==
    /\ IsFiniteSet(Loops)
    /\ Cardinality(Loops) = 3
    /\ \A S \in SUBSET Loops : IsFiniteSet(S) /\ Cardinality(S) \in 0..3
<1>1. IsFiniteSet({"read"}) /\ Cardinality({"read"}) = 1
  BY FS_Singleton
<1>2. IsFiniteSet({"read"} \cup {"send"}) /\ Cardinality({"read"} \cup {"send"}) = 2
  BY <1>1, FS_AddElement
<1>3. IsFiniteSet(({"read"} \cup {"send"}) \cup {"ping"})
      /\ Cardinality(({"read"} \cup {"send"}) \cup {"ping"}) = 3
  BY <1>2, FS_AddElement
<1>4. Loops = ({"read"} \cup {"send"}) \cup {"ping"}
  BY DEF Loops
<1>5. IsFiniteSet(Loops) /\ Cardinality(Loops) = 3
  BY <1>3, <1>4
<1>6. ASSUME NEW S \in SUBSET Loops
      PROVE  IsFiniteSet(S) /\ Cardinality(S) \in 0..3
  <2>1. IsFiniteSet(S) /\ Cardinality(S) <= 3
    BY <1>5, FS_Subset
  <2> QED BY <2>1, FS_CardinalityType
<1> QED BY <1>5, <1>6

LEMMA InitSession == Init => SessionInv
<1> SUFFICES ASSUME Init PROVE SessionInv
  OBVIOUS
<1>1. TypeOK
  <2>1. result \in [established : BOOLEAN, err : Errors]
    BY DEF Init, Errors
  <2>2. loopDone \in BOOLEAN /\ cancelled \in BOOLEAN
    BY DEF Init
  <2>3. inbox \in Seq(Messages) /\ Len(inbox) <= MaxInbox
    BY SessionAssumption DEF Init
  <2> QED BY <2>1, <2>2, <2>3 DEF Init, TypeOK, Errors
<1>2. RefusalInv
  BY DEF Init, RefusalInv, OutcomeIsThePanels
<1>3. ErrsInv
  <2>1. Cardinality(EndedLoops) \in 0..3
    BY LoopsFinite DEF EndedLoops
  <2> QED BY <2>1 DEF Init, ErrsInv
<1>4. PhaseInv
  BY DEF Init, PhaseInv, NothingLeftOpen
<1> QED BY <1>1, <1>2, <1>3, <1>4 DEF SessionInv

(* Steps of the caller before the session is live. *)
LEMMA CallerInv ==
    ASSUME SessionInv, Dial \/ HandshakeWrite \/ HandshakeFails \/ Close
    PROVE  SessionInv'
<1> USE DEF netVars, loopVars, Fail
<1>1. /\ UNCHANGED << link, inbox, said, loops, failure, errs, loopDone, cancelled >>
      /\ main' \in {"hello", "challenge", "welcome", "closing", "returned"}
      /\ result'.established = result.established
      /\ result' \in [established : BOOLEAN, err : Errors]
      /\ conn' \in {"none", "open", "closed"}
      /\ result'.err = "refused" => result.err = "refused"
  BY DEF Dial, HandshakeWrite, HandshakeFails, Close, SessionInv, TypeOK, Errors
<1>2. TypeOK'
  BY <1>1 DEF SessionInv, TypeOK
<1>3. main' \in {"auth", "welcome"} => main = "auth"
  BY DEF Dial, HandshakeWrite, HandshakeFails, Close
<1>4. RefusalInv'
  BY <1>1, <1>3 DEF SessionInv, RefusalInv, OutcomeIsThePanels
<1>5. ErrsInv'
  BY <1>1 DEF SessionInv, ErrsInv, EndedLoops
<1>6. PhaseInv'
  <2>1. CASE Dial
    BY <2>1 DEF Dial, SessionInv, TypeOK, PhaseInv, BeforeLive, Handshaking, NothingLeftOpen
  <2>2. CASE HandshakeWrite
    BY <2>2 DEF HandshakeWrite, SessionInv, TypeOK, PhaseInv, BeforeLive, Handshaking, NothingLeftOpen
  <2>3. CASE HandshakeFails
    BY <2>3 DEF HandshakeFails, SessionInv, TypeOK, PhaseInv, BeforeLive, Handshaking, NothingLeftOpen
  <2>4. CASE Close
    BY <2>4 DEF Close, SessionInv, TypeOK, PhaseInv, BeforeLive, Handshaking, NothingLeftOpen
  <2> QED BY <2>1, <2>2, <2>3, <2>4
<1> QED BY <1>2, <1>4, <1>5, <1>6 DEF SessionInv

(* The caller reads an answer of the panel, which the panel has sent. *)
LEMMA HandshakeReadInv ==
    ASSUME SessionInv, HandshakeRead
    PROVE  SessionInv'
<1> USE DEF Fail
<1>1. /\ inbox \in Seq(Messages) /\ inbox # << >> /\ Len(inbox) <= MaxInbox
      /\ inbox' = Tail(inbox)
      /\ UNCHANGED << conn, link, said, failure, errs, loopDone, cancelled >>
      /\ main \in {"challenge", "welcome"}
      /\ Head(inbox) \in said
  BY DEF HandshakeRead, SessionInv, TypeOK, RefusalInv
<1>2. /\ inbox' \in Seq(Messages) /\ Len(inbox') <= MaxInbox
      /\ \A i \in DOMAIN inbox' : inbox'[i] \in said'
  <2>1. Len(inbox') = Len(inbox) - 1
        /\ \A i \in DOMAIN inbox' : inbox'[i] = inbox[i + 1] /\ i + 1 \in DOMAIN inbox
    BY <1>1
  <2> QED BY <1>1, <2>1, SessionAssumption DEF SessionInv, RefusalInv
<1>3. /\ main' \in {"auth", "live", "closing"}
      /\ result' \in [established : BOOLEAN, err : Errors]
      /\ loops' \in {loops, [l \in Loops |-> "running"]}
      /\ main' = "auth" => "challenge" \in said
      /\ result'.established => {"challenge", "welcome"} \subseteq said
      /\ result'.err = "refused" => "authError" \in said
      /\ main' = "closing" => result'.err # "none" /\ loops' = loops
      /\ main' = "auth" => result' = result /\ loops' = loops
      /\ main' = "live" => result'.err = result.err
  <2>0. result \in [established : BOOLEAN, err : Errors]
    BY DEF SessionInv, TypeOK
  <2>1. CASE Head(inbox) = main /\ main = "challenge" /\ main' = "auth"
             /\ UNCHANGED << result, loops >>
    BY <2>0, <2>1, <1>1 DEF SessionInv, RefusalInv, OutcomeIsThePanels
  <2>2. CASE Head(inbox) = main /\ main = "welcome" /\ main' = "live"
             /\ result' = [result EXCEPT !.established = TRUE]
             /\ loops' = [l \in Loops |-> "running"]
    <3>1. "challenge" \in said /\ "welcome" \in said
      BY <2>2, <1>1 DEF SessionInv, RefusalInv
    <3>2. result' \in [established : BOOLEAN, err : Errors]
          /\ result'.err = result.err
      BY <2>0, <2>2
    <3> QED BY <3>1, <3>2, <2>2 DEF SessionInv, RefusalInv, OutcomeIsThePanels
  <2>3. CASE Head(inbox) = "authError" /\ Fail("refused") /\ UNCHANGED loops
    BY <2>0, <2>3, <1>1 DEF Errors, SessionInv, RefusalInv, OutcomeIsThePanels
  <2>4. CASE Head(inbox) \notin {main, "authError"} /\ Fail("error") /\ UNCHANGED loops
    BY <2>0, <2>4, <1>1 DEF Errors, SessionInv, RefusalInv, OutcomeIsThePanels
  <2> QED BY <2>1, <2>2, <2>3, <2>4 DEF HandshakeRead
<1>4. TypeOK'
  BY <1>1, <1>2, <1>3 DEF SessionInv, TypeOK
<1>5. RefusalInv'
  BY <1>1, <1>2, <1>3 DEF SessionInv, RefusalInv, OutcomeIsThePanels
<1>6. loops = [l \in Loops |-> "idle"] /\ errs = << >> /\ result.err = "none"
  BY <1>1 DEF SessionInv, PhaseInv, BeforeLive, Handshaking
<1>7. ErrsInv'
  <2>1. Cardinality(EndedLoops)' \in 0..3
    BY LoopsFinite DEF EndedLoops
  <2>2. \A l \in Loops : loops'[l] # "posting"
    BY <1>3, <1>6
  <2> QED BY <1>1, <1>6, <2>1, <2>2 DEF ErrsInv
<1>8. PhaseInv'
  BY <1>1, <1>3, <1>6 DEF PhaseInv, BeforeLive, Handshaking, NothingLeftOpen
<1> QED BY <1>4, <1>5, <1>7, <1>8 DEF SessionInv

(* The first error becomes the outcome of the session. *)
LEMMA TakeFirstErrorInv ==
    ASSUME SessionInv, TakeFirstError
    PROVE  SessionInv'
<1> USE DEF Fail, netVars
<1>1. /\ errs \in Seq({"error", "refused"}) /\ errs # << >>
      /\ errs' = Tail(errs) /\ loopDone' = TRUE
      /\ main = "live" /\ main' = "closing"
      /\ result' = [result EXCEPT !.err = Head(errs)]
      /\ UNCHANGED << conn, link, inbox, said, loops, failure, cancelled >>
  BY DEF TakeFirstError, SessionInv, TypeOK
<1>2. /\ errs' \in Seq({"error", "refused"}) /\ Len(errs') <= Len(errs)
      /\ \A i \in DOMAIN errs' : errs'[i] = errs[i + 1] /\ i + 1 \in DOMAIN errs
      /\ Head(errs) = errs[1] /\ 1 \in DOMAIN errs /\ Head(errs) \in {"error", "refused"}
      /\ Len(errs) \in Nat /\ Len(errs') \in Nat
  BY <1>1
<1>3. /\ result' \in [established : BOOLEAN, err : Errors]
      /\ result'.established = result.established
      /\ result'.err = Head(errs)
  BY <1>1, <1>2 DEF SessionInv, TypeOK, Errors
<1>4. TypeOK'
  <2>1. loopDone' \in BOOLEAN
    BY <1>1
  <2> QED BY <1>1, <1>2, <1>3, <2>1 DEF SessionInv, TypeOK
<1>5. RefusalInv'
  BY <1>1, <1>2, <1>3 DEF SessionInv, RefusalInv, OutcomeIsThePanels
<1>6. ErrsInv'
  <2>1. Cardinality(EndedLoops) \in 0..3 /\ EndedLoops' = EndedLoops
    BY <1>1, LoopsFinite DEF EndedLoops
  <2>2. Len(errs') <= Cardinality(EndedLoops)
    BY <1>2, <2>1 DEF SessionInv, ErrsInv
  <2>3. \A l \in Loops : loops'[l] = "posting" => failure'[l] # "none"
    BY <1>1 DEF SessionInv, ErrsInv
  <2> QED BY <2>1, <2>2, <2>3 DEF ErrsInv
<1>7. PhaseInv'
  BY <1>1, <1>2, <1>3 DEF PhaseInv, BeforeLive, Handshaking, NothingLeftOpen
<1> QED BY <1>4, <1>5, <1>6, <1>7 DEF SessionInv

(* A loop posts its error and ends: one ended loop more, one error more. *)
LEMMA PostInv ==
    ASSUME SessionInv, NEW l \in Loops, Post(l)
    PROVE  SessionInv'
<1> USE DEF netVars
<1>1. /\ loops[l] = "posting" /\ errs' = Append(errs, failure[l])
      /\ loops' = [loops EXCEPT ![l] = "ended"]
      /\ UNCHANGED << main, result, conn, link, inbox, said, failure, loopDone, cancelled >>
  BY DEF Post
<1>2. failure[l] \in {"error", "refused"}
      /\ errs \in Seq({"error", "refused"})
      /\ loops \in [Loops -> {"idle", "running", "busy", "posting", "ended"}]
  BY <1>1 DEF SessionInv, TypeOK, ErrsInv, Errors
<1>3. /\ errs' \in Seq({"error", "refused"}) /\ Len(errs') = Len(errs) + 1
      /\ Len(errs) \in Nat
      /\ \A i \in DOMAIN errs' : errs'[i] = failure[l] \/ (i \in DOMAIN errs /\ errs'[i] = errs[i])
      /\ loops' \in [Loops -> {"idle", "running", "busy", "posting", "ended"}]
  BY <1>1, <1>2
<1>4. TypeOK'
  BY <1>1, <1>3 DEF SessionInv, TypeOK
<1>5. RefusalInv'
  BY <1>1, <1>3 DEF SessionInv, RefusalInv, OutcomeIsThePanels
<1>6. ErrsInv'
  <2>1. EndedLoops' = EndedLoops \cup {l} /\ l \notin EndedLoops
    BY <1>1, <1>2 DEF EndedLoops
  <2>2. IsFiniteSet(EndedLoops) /\ Cardinality(EndedLoops) \in 0..3
    BY LoopsFinite DEF EndedLoops
  <2>3. Cardinality(EndedLoops') = Cardinality(EndedLoops) + 1
    BY <2>1, <2>2, FS_AddElement
  <2>4. Len(errs) <= Cardinality(EndedLoops)
    BY DEF SessionInv, ErrsInv
  <2>5. Len(errs') <= Cardinality(EndedLoops')
    BY <1>3, <2>2, <2>3, <2>4
  <2>6. \A k \in Loops : loops'[k] = "posting" => failure'[k] # "none"
    BY <1>1, <1>2 DEF SessionInv, ErrsInv
  <2> QED BY <2>5, <2>6 DEF ErrsInv
<1>7. ~BeforeLive
  BY <1>1 DEF SessionInv, PhaseInv
<1>8. PhaseInv'
  BY <1>1, <1>7 DEF SessionInv, PhaseInv, BeforeLive, Handshaking, NothingLeftOpen
<1> QED BY <1>4, <1>5, <1>6, <1>8 DEF SessionInv

(* What a step of one loop other than a post amounts to. *)
LoopStep(l, from) ==
    /\ loops[l] \in from
    /\ \/ loops' = loops /\ failure' = failure
       \/ \E s \in {"running", "busy"} :
              loops' = [loops EXCEPT ![l] = s] /\ failure' = failure
       \/ \E err \in {"error", "refused"} :
              /\ Returns(l, err)
              /\ err = "refused" => "authError" \in said
    /\ conn' \in {conn, "closed"}
    /\ UNCHANGED << main, result, link, said, errs, loopDone, cancelled >>

LEMMA LoopStepInv ==
    ASSUME SessionInv, NEW l \in Loops, LoopStep(l, {"running", "busy"}),
           inbox' \in Seq(Messages), Len(inbox') <= MaxInbox,
           \A i \in DOMAIN inbox' : inbox'[i] \in said
    PROVE  SessionInv'
<1>1. /\ loops[l] \in {"running", "busy"} /\ conn' \in {conn, "closed"}
      /\ UNCHANGED << main, result, link, said, errs, loopDone, cancelled >>
      /\ loops \in [Loops -> {"idle", "running", "busy", "posting", "ended"}]
      /\ failure \in [Loops -> Errors]
  BY DEF LoopStep, SessionInv, TypeOK
<1>2. /\ loops' \in [Loops -> {"idle", "running", "busy", "posting", "ended"}]
      /\ failure' \in [Loops -> Errors]
      /\ \A k \in Loops : failure'[k] = "refused" => "authError" \in said
      /\ \A k \in Loops : loops'[k] = "posting" => failure'[k] # "none"
      /\ \A k \in Loops : loops'[k] = "ended" <=> loops[k] = "ended"
  BY <1>1 DEF LoopStep, Returns, Errors, SessionInv, RefusalInv, ErrsInv
<1>3. TypeOK'
  BY <1>1, <1>2 DEF SessionInv, TypeOK
<1>4. RefusalInv'
  BY <1>1, <1>2 DEF SessionInv, RefusalInv, OutcomeIsThePanels
<1>5. ErrsInv'
  <2>1. EndedLoops' = EndedLoops
    BY <1>2 DEF EndedLoops
  <2> QED BY <1>1, <1>2, <2>1 DEF SessionInv, ErrsInv
<1>6. ~BeforeLive
  BY <1>1 DEF SessionInv, PhaseInv
<1>7. PhaseInv'
  BY <1>1, <1>6 DEF SessionInv, PhaseInv, BeforeLive, Handshaking, NothingLeftOpen
<1> QED BY <1>3, <1>4, <1>5, <1>7 DEF SessionInv

LEMMA LoopsInv ==
    ASSUME SessionInv,
           Reading \/ Sending \/ SendTick \/ SendDone \/ Pinging
    PROVE  SessionInv'
<1> USE DEF netVars
<1>0. /\ "read" \in Loops /\ "send" \in Loops /\ "ping" \in Loops
      /\ inbox \in Seq(Messages) /\ Len(inbox) <= MaxInbox
      /\ \A i \in DOMAIN inbox : inbox[i] \in said
  BY DEF Loops, SessionInv, TypeOK, RefusalInv
<1>1. CASE ReadMessage
  <2>1. inbox # << >> /\ inbox' = Tail(inbox)
    BY <1>1 DEF ReadMessage
  <2>2. Len(inbox') = Len(inbox) - 1 /\ inbox' \in Seq(Messages)
        /\ \A i \in DOMAIN inbox' : inbox'[i] = inbox[i + 1] /\ i + 1 \in DOMAIN inbox
        /\ Head(inbox) = inbox[1] /\ 1 \in DOMAIN inbox
    BY <1>0, <2>1
  <2>3. Len(inbox') <= MaxInbox /\ \A i \in DOMAIN inbox' : inbox'[i] \in said
    BY <1>0, <2>2, SessionAssumption
  <2>4. Head(inbox) \in said
    BY <1>0, <2>2
  <2>5. LoopStep("read", {"running", "busy"})
    BY <1>1, <2>4 DEF ReadMessage, LoopStep, Returns
  <2> QED BY <1>0, <2>2, <2>3, <2>5, LoopStepInv
<1>2. CASE ReadFails
  <2>1. LoopStep("read", {"running", "busy"}) /\ inbox' = inbox
    BY <1>2 DEF ReadFails, LoopStep, Returns, ConnAfterIO
  <2> QED BY <1>0, <2>1, LoopStepInv
<1>3. CASE SendTick \/ SendDone \/ SendFails \/ LoopCancelled("send")
  <2>1. LoopStep("send", {"running", "busy"}) /\ inbox' = inbox
    BY <1>3 DEF SendTick, SendDone, SendFails, LoopCancelled, LoopStep, Returns, ConnAfterIO
  <2> QED BY <1>0, <2>1, LoopStepInv
<1>4. CASE Pinging
  <2>1. LoopStep("ping", {"running", "busy"}) /\ inbox' = inbox
    BY <1>4 DEF Pinging, PingTick, Pong, PingFails, LoopCancelled, LoopStep, Returns
  <2> QED BY <1>0, <2>1, LoopStepInv
<1> QED BY <1>1, <1>2, <1>3, <1>4 DEF Reading, Sending

(* The panel, the network and the signal. *)
LEMMA OutsideInv ==
    ASSUME SessionInv,
           (\E m \in Messages : PanelSends(m)) \/ Degrade \/ Cancel \/ UNCHANGED vars
    PROVE  SessionInv'
<1> USE DEF netVars, loopVars
<1>1. /\ UNCHANGED << main, result, conn, loops, failure, errs, loopDone >>
      /\ said \subseteq said' /\ said' \subseteq Messages
      /\ link' \in {"up", "frozen", "broken"}
  BY DEF PanelSends, Degrade, Cancel, vars, SessionInv, TypeOK
<1>2. cancelled' \in BOOLEAN
  BY DEF PanelSends, Degrade, Cancel, vars, SessionInv, TypeOK
<1>3. /\ inbox' \in Seq(Messages) /\ Len(inbox') <= MaxInbox
      /\ \A i \in DOMAIN inbox' : inbox'[i] \in said'
  <2>0. inbox \in Seq(Messages) /\ Len(inbox) <= MaxInbox
        /\ \A i \in DOMAIN inbox : inbox[i] \in said
    BY DEF SessionInv, TypeOK, RefusalInv
  <2>1. CASE inbox' = inbox
    BY <1>1, <2>0, <2>1
  <2>2. ASSUME NEW m \in Messages, PanelSends(m)
        PROVE  /\ inbox' \in Seq(Messages) /\ Len(inbox') <= MaxInbox
               /\ \A i \in DOMAIN inbox' : inbox'[i] \in said'
    <3>1. inbox' = Append(inbox, m) /\ Len(inbox) < MaxInbox /\ said' = said \cup {m}
      BY <2>2 DEF PanelSends
    <3>2. Len(inbox') = Len(inbox) + 1 /\ inbox' \in Seq(Messages)
          /\ \A i \in DOMAIN inbox' : inbox'[i] = m \/ (i \in DOMAIN inbox /\ inbox'[i] = inbox[i])
      BY <3>1, <2>0, <2>2
    <3> QED BY <3>1, <3>2, <2>0, SessionAssumption
  <2> QED BY <2>1, <2>2 DEF Degrade, Cancel, vars
<1>4. TypeOK'
  BY <1>1, <1>2, <1>3 DEF SessionInv, TypeOK
<1>5. RefusalInv'
  BY <1>1, <1>3 DEF SessionInv, RefusalInv, OutcomeIsThePanels
<1>6. ErrsInv'
  BY <1>1 DEF SessionInv, ErrsInv, EndedLoops
<1>7. PhaseInv'
  BY <1>1 DEF SessionInv, PhaseInv, BeforeLive, Handshaking, NothingLeftOpen
<1> QED BY <1>4, <1>5, <1>6, <1>7 DEF SessionInv

--------------------------------------------------------------------------
(* What SessionInv says holds in every state of a session, whatever the    *)
(* panel sends and however the goroutines interleave (client.go:127-202).  *)
THEOREM SessionInvariant == Spec => []SessionInv
<1>1. ASSUME SessionInv, [Next]_vars PROVE SessionInv'
  <2>1. CASE Dial \/ HandshakeWrite \/ HandshakeFails \/ Close
    BY <1>1, <2>1, CallerInv
  <2>2. CASE HandshakeRead
    BY <1>1, <2>2, HandshakeReadInv
  <2>3. CASE TakeFirstError
    BY <1>1, <2>3, TakeFirstErrorInv
  <2>4. CASE \E l \in Loops : Post(l)
    BY <1>1, <2>4, PostInv
  <2>5. CASE Reading \/ Sending \/ SendTick \/ SendDone \/ Pinging
    BY <1>1, <2>5, LoopsInv
  <2>6. CASE (\E m \in Messages : PanelSends(m)) \/ Degrade \/ Cancel \/ UNCHANGED vars
    BY <1>1, <2>6, OutsideInv
  <2> QED BY <1>1, <2>1, <2>2, <2>3, <2>4, <2>5, <2>6 DEF Next, Handshake, Finished
<1> QED BY <1>1, InitSession, PTL DEF Spec

(* The errors posted never fill the channel while a loop is still to post: *)
(* no goroutine of a session is left behind at it (client.go:189-193).     *)
THEOREM PostNeverBlocksTheorem == Spec => []PostNeverBlocks
<1>1. ASSUME SessionInv PROVE PostNeverBlocks
  <2> SUFFICES ASSUME NEW l \in Loops, loops[l] = "posting"
               PROVE  Len(errs) < ErrsRoom
    BY DEF PostNeverBlocks
  <2>1. /\ IsFiniteSet(EndedLoops) /\ Cardinality(EndedLoops) \in 0..3
        /\ EndedLoops \cup {l} \in SUBSET Loops /\ l \notin EndedLoops
    BY LoopsFinite DEF EndedLoops
  <2>2. Cardinality(EndedLoops \cup {l}) = Cardinality(EndedLoops) + 1
    BY <2>1, FS_AddElement
  <2>3. Cardinality(EndedLoops \cup {l}) \in 0..3
    BY <2>1, LoopsFinite
  <2>4. Len(errs) <= Cardinality(EndedLoops) /\ Len(errs) \in Nat
    BY <1>1 DEF SessionInv, ErrsInv, TypeOK
  <2>5. ErrsRoom = 3
    BY LoopsFinite DEF ErrsRoom
  <2> QED BY <2>1, <2>2, <2>3, <2>4, <2>5
<1> QED BY <1>1, SessionInvariant, PTL

(* A session that ends as refused was refused by the panel, and one that   *)
(* is established was challenged and welcomed (client.go:245-282).         *)
THEOREM OutcomeTheorem == Spec => []OutcomeIsThePanels
<1>1. SessionInv => OutcomeIsThePanels
  BY DEF SessionInv, RefusalInv
<1> QED BY <1>1, SessionInvariant, PTL

(* A session that returned closed its connection and says why it ended     *)
(* (client.go:138, 193-195).                                               *)
THEOREM NothingLeftOpenTheorem == Spec => []NothingLeftOpen
<1>1. SessionInv => NothingLeftOpen
  BY DEF SessionInv, PhaseInv
<1> QED BY <1>1, SessionInvariant, PTL

(* The session implements the contract Client.Run relies on.               *)
THEOREM KeepsContractTheorem == Spec => KeepsContract
<1> USE DEF stage, Contract!vars
<1>1. Init => Contract!Init
  BY DEF Init, Contract!Init
<1>2. ASSUME SessionInv, SessionInv', [Next]_vars
      PROVE  [Contract!Next]_(Contract!vars)
  <2> USE DEF netVars, loopVars
  <2>1. CASE Dial \/ HandshakeWrite \/ HandshakeFails \/ HandshakeRead \/ TakeFirstError
    <3>1. main \in {"dial", "hello", "challenge", "auth", "welcome", "live"} /\ said' = said
      BY <2>1 DEF Dial, HandshakeWrite, HandshakeFails, HandshakeRead, TakeFirstError, Handshaking
    <3>2. result.err = "none" /\ result \in [established : BOOLEAN, err : Errors]
      BY <1>2, <3>1 DEF SessionInv, TypeOK, PhaseInv, BeforeLive, Handshaking
    <3>3. \/ main' \in {"closing", "returned"} /\ result'.err \in {"error", "refused"}
          \/ /\ main' \in {"hello", "challenge", "auth", "welcome"} /\ main # "live"
             /\ result'.err = result.err
          \/ main' = "live" /\ main # "live" /\ result'.err = result.err
      <4>1. CASE TakeFirstError
        <5>1. errs # << >> /\ errs \in Seq({"error", "refused"})
          BY <1>2, <4>1 DEF TakeFirstError, SessionInv, TypeOK
        <5> QED BY <5>1, <3>2, <4>1 DEF TakeFirstError, Fail
      <4>2. CASE Dial \/ HandshakeWrite \/ HandshakeFails \/ HandshakeRead
        BY <3>2, <4>2 DEF Dial, HandshakeWrite, HandshakeFails, HandshakeRead, Fail, Handshaking
      <4> QED BY <2>1, <4>1, <4>2
    <3>4. result'.err = "refused" => "authError" \in said
      BY <1>2, <3>1 DEF SessionInv, RefusalInv, OutcomeIsThePanels
    <3> QED
      BY <3>1, <3>2, <3>3, <3>4 DEF Contract!Next, Contract!Establish, Contract!End
  <2>2. CASE Close
    BY <2>2 DEF Close
  <2>3. CASE \E l \in Loops : Post(l)
    BY <2>3 DEF Post
  <2>4. CASE Reading \/ Sending \/ SendTick \/ SendDone \/ Pinging
    BY <2>4 DEF Reading, Sending, Pinging, ReadMessage, ReadFails, SendTick, SendDone,
                SendFails, PingTick, Pong, PingFails, LoopCancelled
  <2>5. CASE \E m \in Messages : PanelSends(m)
    BY <2>5 DEF PanelSends, Contract!Next, Contract!PanelRefuses
  <2>6. CASE Degrade \/ Cancel \/ UNCHANGED vars
    BY <2>6 DEF Degrade, Cancel, vars
  <2> QED BY <1>2, <2>1, <2>2, <2>3, <2>4, <2>5, <2>6 DEF Next, Handshake, Finished
<1> QED BY <1>1, <1>2, SessionInvariant, PTL DEF Spec, KeepsContract, Contract!Spec
==========================================================================
