------------------------- MODULE TransportProofs -------------------------
(***************************************************************************)
(* The safety of Client.Run for every set of routes, every list a panel or *)
(* an environment may send and every limit: the inductive invariant IInv,  *)
(* and the properties and the two refinements that follow from it.         *)
(***************************************************************************)
EXTENDS Transport, RouteListProofs

LEMMA InitIInv == Init => IInv
<1> SUFFICES ASSUME Init PROVE IInv
  OBVIOUS
<1>1. StoreTypeOK /\ RoutesNormal
  BY StoreInitInv DEF Init, StoreInv
<1>2. TypeOK
  <2>1. 0 \in 0..MaxLevel
    BY TransportAssumption
  <2>2. cancelled \in BOOLEAN /\ contact \in BOOLEAN /\ working \in Answering \cup {{}}
    BY DEF Init
  <2>3. pc \in Places /\ refused \subseteq Transports \X (Nat \ {0})
    BY DEF Init, Places
  <2>4. idx \in Nat \ {0} /\ attempts \in Nat /\ rejected \in Nat
        /\ lastErr \in {"none", "error", "refused"} /\ endpoints \in Seq(Text)
    BY DEF Init
  <2> QED BY <1>1, <2>1, <2>2, <2>3, <2>4 DEF Init, TypeOK
<1>3. RoundInv /\ CountInv /\ ContactInv
  BY DEF Init, RoundInv, CountInv, ContactInv, NoBusyLoop,
         BackoffAfterContact, Asking, Looping, Decided, Live
<1> QED BY <1>1, <1>2, <1>3 DEF IInv

(* A round that is not under way satisfies everything said about rounds.   *)
LEMMA OutsideRounds ==
    ASSUME pc \in {"down", "round", "stopped"}
    PROVE  RoundInv /\ CountInv /\ ContactInv
BY DEF RoundInv, CountInv, ContactInv, NoBusyLoop, BackoffAfterContact,
       Asking, Looping, Decided, Live

(* The start of a round. *)
LEMMA StartRoundInv == IInv /\ StartRound => IInv'
<1> SUFFICES ASSUME IInv, StartRound PROVE IInv'
  OBVIOUS
<1>1. /\ endpoints' = mem.wsURLs /\ endpoints' \in Seq(Text)
      /\ endpoints' # << >> /\ Len(endpoints') <= MaxRoutes
      /\ Len(endpoints') \in Nat \ {0} /\ pc' = "ws"
  BY DEF StartRound, IInv, TypeOK, StoreTypeOK, RoutesNormal, Normal, RouteState
<1>2. /\ StoreTypeOK' /\ RoutesNormal'
  BY DEF StartRound, storeVars, IInv, TypeOK, StoreTypeOK, RoutesNormal
<1>3. idx' = 1 /\ attempts' = 0 /\ rejected' = 0 /\ refused' = {}
      /\ contact' = FALSE /\ lastErr' = "none"
      /\ UNCHANGED << level, cancelled, working >>
  BY DEF StartRound
<1>4. TypeOK'
  <2>1. pc' \in Places /\ refused' \subseteq Transports \X (Nat \ {0})
    BY <1>1, <1>3 DEF Places
  <2>2. level' \in 0..MaxLevel /\ cancelled' \in BOOLEAN /\ working' \in Answering \cup {{}}
    BY <1>3 DEF IInv, TypeOK
  <2>3. contact' \in BOOLEAN
    BY <1>3
  <2>4. idx' \in Nat \ {0} /\ attempts' \in Nat /\ rejected' \in Nat
        /\ lastErr' \in {"none", "error", "refused"}
    BY <1>3
  <2> QED BY <1>1, <1>2, <2>1, <2>2, <2>3, <2>4 DEF TypeOK
<1>5. RoundInv'
  BY <1>1, <1>3 DEF RoundInv, Asking, Looping, Live
<1>6. CountInv'
  <2>1. Asked' = {}
    BY <1>1, <1>3 DEF Asked
  <2>2. Ended' = 0
    BY <1>1, <1>3 DEF Ended, Live
  <2> QED BY <1>1, <1>3, <2>1, <2>2 DEF CountInv
<1>7. ContactInv'
  BY <1>1, <1>3 DEF ContactInv, Live, NoBusyLoop, BackoffAfterContact
<1> QED BY <1>2, <1>4, <1>5, <1>6, <1>7 DEF IInv

(* Where Advance leads, and what it adds to the attempts that have ended.  *)
LEMMA AdvanceAsked ==
    ASSUME TypeOK, RoundInv, NEW transport \in Transports,
           pc \in {transport, "wsLive", "pulseLive"},
           pc = "wsLive" => transport = "ws",
           pc = "pulseLive" => transport = "pulse",
           Advance(transport), endpoints' = endpoints, lastErr' # "none"
    PROVE  /\ pc' \in {"ws", "pulse", "decide"}
           /\ idx' \in Nat \ {0}
           /\ pc' # "decide" => idx' \in 1..Len(endpoints)
           /\ Asked' = Asked \cup {<< transport, idx >>}
           /\ << transport, idx >> \notin Asked
           /\ << transport, idx >> \in Transports \X (1..Len(endpoints))
<1>1. /\ idx \in 1..Len(endpoints) /\ Len(endpoints) \in Nat
      /\ Len(endpoints) > 0
  BY DEF RoundInv, Looping, Live, TypeOK, Transports
<1>2. CASE transport = "ws"
  <2>1. Asked = {"ws"} \X (1..(idx - 1))
    BY <1>2 DEF Asked, Live
  <2>2. CASE idx < Len(endpoints)
    <3>1. idx' = idx + 1 /\ pc' = "ws" /\ idx' - 1 = idx
      BY <1>1, <1>2, <2>2 DEF Advance
    <3>2. Asked' = {"ws"} \X (1..idx)
      BY <3>1 DEF Asked
    <3>3. 1..idx = (1..(idx - 1)) \cup {idx} /\ idx \notin 1..(idx - 1)
      BY <1>1
    <3> QED BY <1>1, <1>2, <2>1, <2>2, <3>1, <3>2, <3>3 DEF Transports
  <2>3. CASE ~(idx < Len(endpoints))
    <3>1. idx' = 1 /\ pc' = "pulse" /\ idx = Len(endpoints)
      BY <1>1, <1>2, <2>3 DEF Advance
    <3>2. Asked' = ({"ws"} \X (1..idx)) \cup ({"pulse"} \X (1..0))
      BY <3>1 DEF Asked
    <3>3. 1..idx = (1..(idx - 1)) \cup {idx} /\ idx \notin 1..(idx - 1)
          /\ 1..0 = {}
      BY <1>1
    <3> QED BY <1>1, <1>2, <2>1, <3>1, <3>2, <3>3 DEF Transports
  <2> QED BY <2>2, <2>3
<1>3. CASE transport = "pulse"
  <2>1. Asked = ({"ws"} \X (1..Len(endpoints))) \cup ({"pulse"} \X (1..(idx - 1)))
    BY <1>3 DEF Asked, Live
  <2>2. 1..idx = (1..(idx - 1)) \cup {idx} /\ idx \notin 1..(idx - 1)
    BY <1>1
  <2>3. CASE idx < Len(endpoints)
    <3>1. idx' = idx + 1 /\ pc' = "pulse" /\ idx' - 1 = idx
      BY <1>1, <1>3, <2>3 DEF Advance
    <3>2. Asked' = ({"ws"} \X (1..Len(endpoints))) \cup ({"pulse"} \X (1..idx))
      BY <3>1 DEF Asked
    <3> QED BY <1>1, <1>3, <2>1, <2>2, <2>3, <3>1, <3>2 DEF Transports
  <2>4. CASE ~(idx < Len(endpoints))
    <3>1. idx' = 1 /\ pc' = "decide" /\ idx = Len(endpoints)
      BY <1>1, <1>3, <2>4 DEF Advance
    <3>2. Asked' = ({"ws"} \X (1..Len(endpoints))) \cup ({"pulse"} \X (1..idx))
      BY <3>1 DEF Asked, Transports
    <3> QED BY <1>1, <1>3, <2>1, <2>2, <3>1, <3>2 DEF Transports
  <2> QED BY <2>3, <2>4
<1> QED BY <1>2, <1>3 DEF Transports

(* An attempt that ends keeps the counters in step with the sets: it is    *)
(* counted once, as refused or not, and was in neither set before.         *)
LEMMA EndsInv ==
    ASSUME IInv, NEW transport \in Transports,
           NEW outcome \in {"error", "refused"},
           pc \in {transport, "wsLive", "pulseLive"},
           pc = "wsLive" => transport = "ws",
           pc = "pulseLive" => transport = "pulse",
           Ends(transport, outcome),
           attempts' \in Nat, attempts' = Ended + 1,
           level' \in 0..MaxLevel, contact => level' = 0
    PROVE  IInv'
<1>1. /\ pc' \in {"ws", "pulse", "decide"} /\ idx' \in Nat \ {0}
      /\ pc' # "decide" => idx' \in 1..Len(endpoints)
      /\ Asked' = Asked \cup {<< transport, idx >>}
      /\ << transport, idx >> \notin Asked
      /\ << transport, idx >> \in Transports \X (1..Len(endpoints))
  BY AdvanceAsked DEF Ends, IInv
<1>2. /\ lastErr' = outcome /\ endpoints' = endpoints
      /\ UNCHANGED << storeVars, cancelled, contact, working >>
  BY DEF Ends
<1>3. /\ refused \subseteq Asked /\ Ended \in Nat /\ rejected \in Nat
      /\ rejected <= Ended /\ (rejected = Ended <=> refused = Asked)
      /\ endpoints # << >> /\ Len(endpoints) <= MaxRoutes
      /\ refused \subseteq Transports \X (1..Len(endpoints))
  BY DEF IInv, CountInv, RoundInv, TypeOK, Looping, Asking, Live, Transports
<1>4. Ended' = Ended + 1
  BY <1>1 DEF Ended, Live
<1>5. refused' \subseteq Asked' /\ rejected' <= Ended' /\ rejected' \in Nat
      /\ (rejected' = Ended' <=> refused' = Asked')
      /\ refused' \subseteq Transports \X (1..Len(endpoints))
  <2>1. CASE outcome = "refused"
    <3>1. refused' = refused \cup {<< transport, idx >>} /\ rejected' = rejected + 1
      BY <2>1 DEF Ends
    <3>2. refused' = Asked' <=> refused = Asked
      <4> DEFINE new == << transport, idx >>
      <4>1. /\ refused' = refused \cup {new} /\ Asked' = Asked \cup {new}
            /\ new \notin Asked /\ refused \subseteq Asked
        BY <1>1, <1>3, <3>1
      <4> HIDE DEF new
      <4> QED BY <4>1
    <3> QED BY <1>1, <1>3, <1>4, <3>1, <3>2
  <2>2. CASE outcome = "error"
    <3>1. refused' = refused /\ rejected' = rejected
      BY <2>2 DEF Ends
    <3>2. refused' # Asked'
      BY <1>1, <1>3, <3>1
    <3> QED BY <1>1, <1>3, <1>4, <3>1, <3>2
  <2> QED BY <2>1, <2>2
<1>6. StoreTypeOK' /\ RoutesNormal'
  BY <1>2 DEF storeVars, IInv, TypeOK, StoreTypeOK, RoutesNormal
<1>7. TypeOK'
  <2>1. refused' \subseteq Transports \X (Nat \ {0})
    BY <1>5
  <2>2. endpoints' \in Seq(Text) /\ cancelled' \in BOOLEAN /\ contact' \in BOOLEAN
        /\ working' \in Answering \cup {{}}
    BY <1>2 DEF IInv, TypeOK
  <2> QED BY <1>1, <1>2, <1>5, <1>6, <2>1, <2>2 DEF TypeOK, Places
<1>8. RoundInv'
  BY <1>1, <1>2, <1>3, <1>5 DEF RoundInv, Looping, Live
<1>9. CountInv'
  BY <1>1, <1>3, <1>4, <1>5 DEF CountInv
<1>10. ContactInv'
  BY <1>1, <1>2 DEF ContactInv, Live, NoBusyLoop, BackoffAfterContact
<1> QED BY <1>6, <1>7, <1>8, <1>9, <1>10 DEF IInv

(* A failed attempt, and the end of a live session, are such ends.         *)
LEMMA AttemptFailsInv ==
    ASSUME IInv, NEW transport \in Transports,
           NEW outcome \in {"error", "refused"},
           AttemptFails(transport, outcome)
    PROVE  IInv'
<1>1. pc = transport /\ pc \notin Live /\ pc \in {"ws", "pulse"}
  BY DEF AttemptFails, Attempting, Transports, Live
<1>2. attempts' = Ended + 1 /\ attempts' \in Nat
  BY <1>1 DEF AttemptFails, Ended, IInv, TypeOK
<1>3. level' \in 0..MaxLevel /\ (contact => level' = 0)
  BY <1>1 DEF AttemptFails, IInv, TypeOK, ContactInv
<1>4. Ends(transport, outcome) /\ pc # "wsLive" /\ pc # "pulseLive"
  BY <1>1 DEF AttemptFails, Live
<1> QED BY <1>1, <1>2, <1>3, <1>4, EndsInv

LEMMA SessionEndsInv ==
    ASSUME IInv, NEW transport \in Transports,
           pc = IF transport = "ws" THEN "wsLive" ELSE "pulseLive",
           NEW outcome \in {"error", "refused"},
           SessionEnds(transport, outcome)
    PROVE  IInv'
<1>1. pc \in Live /\ (pc = "wsLive" => transport = "ws")
      /\ (pc = "pulseLive" => transport = "pulse")
  BY DEF Live, Transports
<1>2. attempts' = Ended + 1 /\ attempts' \in Nat
  BY <1>1 DEF SessionEnds, Ended, IInv, TypeOK
<1>3. level' \in 0..MaxLevel /\ level' = 0
  BY TransportAssumption DEF SessionEnds
<1>4. Ends(transport, outcome)
  BY DEF SessionEnds
<1> QED BY <1>1, <1>2, <1>3, <1>4, EndsInv

(* A welcome opens a session: the attempt is counted, but has not ended.   *)
LEMMA WelcomedInv ==
    ASSUME IInv, NEW transport \in Transports, NEW list \in Lists,
           Established(transport, list),
           pc' \in Live,
           pc' = "pulseLive" <=> transport = "pulse"
    PROVE  IInv'
<1>1. /\ pc = transport
      /\ pc' \in IF transport = "ws" THEN {"wsLive", "wsDoomed"} ELSE {"pulseLive"}
      /\ attempts' = attempts + 1 /\ contact' = TRUE
      /\ UNCHANGED << endpoints, idx, rejected, lastErr, refused, level,
                      cancelled, working >>
      /\ ApplyWelcome(list)
  BY DEF Established, Attempting, Live, Transports
<1>2. pc \in {"ws", "pulse"} /\ pc' \in Live /\ pc \notin Live
  BY <1>1 DEF Transports, Live
<1>3. StoreTypeOK' /\ RoutesNormal'
  BY <1>1, ApplyWelcomeInv DEF IInv, TypeOK, StoreInv
<1>4. Asked' = Asked
  BY <1>1 DEF Asked, Transports
<1>5. Ended' = Ended /\ Ended = attempts /\ attempts \in Nat
  BY <1>1, <1>2 DEF Ended, IInv, TypeOK
<1>6. TypeOK'
  <2>1. contact' \in BOOLEAN
    BY <1>1
  <2>2. pc' \in Places /\ attempts' \in Nat
    BY <1>1, <1>2, <1>5 DEF Places
  <2> QED BY <1>1, <1>3, <2>1, <2>2 DEF IInv, TypeOK
<1>7. RoundInv'
  BY <1>1, <1>2 DEF IInv, RoundInv, Asking, Looping
<1>8. CountInv'
  BY <1>1, <1>2, <1>4, <1>5 DEF IInv, CountInv, Looping, Live
<1>9. ContactInv'
  BY <1>1, <1>2 DEF ContactInv, NoBusyLoop, BackoffAfterContact, Live
<1> QED BY <1>3, <1>6, <1>7, <1>8, <1>9 DEF IInv

(* The steps that leave the round for good forget it.                      *)
LEMMA ResetInv ==
    ASSUME IInv, ForgetMemory, ResetRound, level' = 0,
           pc' \in {"down", "stopped"}, cancelled' \in BOOLEAN, working' = working
    PROVE  IInv'
<1>1. StoreTypeOK' /\ RoutesNormal'
  BY ForgetMemoryInv DEF IInv, TypeOK, StoreInv
<1>2. RoundInv' /\ CountInv' /\ ContactInv'
  BY DEF RoundInv, CountInv, ContactInv, NoBusyLoop, BackoffAfterContact,
         Asking, Looping, Decided, Live
<1>3. TypeOK'
  <2>1. contact' \in BOOLEAN
    BY DEF ResetRound
  <2>2. working' \in Answering \cup {{}}
    BY DEF IInv, TypeOK
  <2>3. pc' \in Places
    BY DEF Places, Final
  <2>4. level' \in 0..MaxLevel
    BY TransportAssumption
  <2>5. endpoints' \in Seq(Text) /\ idx' \in Nat \ {0} /\ attempts' \in Nat
        /\ rejected' \in Nat /\ lastErr' \in {"none", "error", "refused"}
        /\ refused' \subseteq Transports \X (Nat \ {0})
    BY DEF ResetRound
  <2> QED BY <1>1, <2>1, <2>2, <2>3, <2>4, <2>5 DEF TypeOK
<1> QED BY <1>1, <1>2, <1>3 DEF IInv

(* The steps that touch the store or an environment flag only.             *)
LEMMA AsideInv ==
    ASSUME IInv, StoreTypeOK', RoutesNormal',
           UNCHANGED << roundVars, pc, level >>,
           cancelled' \in BOOLEAN, working' \in Answering \cup {{}}
    PROVE  IInv'
<1> USE DEF roundVars
<1>1. TypeOK'
  BY DEF IInv, TypeOK
<1>2. RoundInv' /\ ContactInv'
  BY DEF IInv, RoundInv, ContactInv, NoBusyLoop, BackoffAfterContact,
         Asking, Looping
<1>3. CountInv'
  BY DEF IInv, CountInv, Asked, Ended, Looping, Decided
<1> QED BY <1>1, <1>2, <1>3 DEF IInv

(* The steps between rounds, and those that only move the program counter. *)
LEMMA PlaceInv ==
    ASSUME IInv, UNCHANGED << storeVars, roundVars, cancelled, working >>,
           \/ pc' \in {"round", "stopped"} /\ level' = level
           \/ GiveUp
           \/ BackOff
    PROVE  IInv'
<1>1. StoreTypeOK' /\ RoutesNormal'
  BY DEF storeVars, IInv, TypeOK, StoreTypeOK, RoutesNormal
<1>2. CASE pc' \in {"round", "stopped"} /\ level' = level
  <2>1. TypeOK'
    BY <1>1, <1>2 DEF roundVars, IInv, TypeOK, Places, Final
  <2>2. RoundInv' /\ CountInv' /\ ContactInv'
    BY <1>2 DEF RoundInv, CountInv, ContactInv, NoBusyLoop, BackoffAfterContact,
                Asking, Looping, Decided, Live
  <2> QED BY <1>1, <2>1, <2>2 DEF IInv
<1>3. CASE GiveUp
  <2>1. pc = "decide" /\ pc' = "rejected" /\ Decided /\ rejected = attempts
        /\ level' = level
    BY <1>3 DEF GiveUp, Decided
  <2>2. Ended = attempts /\ refused = Asked
    BY <2>1 DEF Ended, Live, IInv, CountInv
  <2>3. Asked' = Asked
    BY <2>1 DEF Asked, roundVars, Live
  <2>4. TypeOK'
    BY <1>1, <2>1 DEF roundVars, IInv, TypeOK, Places, Final
  <2>5. RoundInv'
    BY <2>1 DEF roundVars, IInv, RoundInv, Asking, Looping, Live
  <2>6. CountInv' /\ ContactInv'
    BY <2>1, <2>2, <2>3 DEF roundVars, CountInv, ContactInv, NoBusyLoop,
       BackoffAfterContact, Looping, Decided, Live
  <2> QED BY <1>1, <2>4, <2>5, <2>6 DEF IInv
<1>4. CASE BackOff
  <2>1. pc = "decide" /\ pc' = "wait"
        /\ level' = IF level < MaxLevel THEN level + 1 ELSE level
    BY <1>4 DEF BackOff
  <2>2. level \in 0..MaxLevel /\ (contact => level = 0)
    BY <2>1 DEF IInv, TypeOK, ContactInv
  <2>3. level' \in 0..MaxLevel /\ level' >= 1 /\ (contact => level' = 1)
    BY <2>1, <2>2, TransportAssumption
  <2>4. TypeOK'
    BY <1>1, <2>1, <2>3 DEF roundVars, IInv, TypeOK, Places
  <2>5. RoundInv' /\ CountInv'
    BY <2>1 DEF RoundInv, CountInv, Asking, Looping, Decided, Live
  <2>6. ContactInv'
    BY <2>1, <2>3 DEF roundVars, ContactInv, NoBusyLoop, BackoffAfterContact, Live
  <2> QED BY <1>1, <2>4, <2>5, <2>6 DEF IInv
<1> QED BY <1>2, <1>3, <1>4

LEMMA PulseRetryInv == IInv /\ PulseRetry => IInv'
<1> SUFFICES ASSUME IInv, PulseRetry PROVE IInv'
  OBVIOUS
<1>1. /\ pc = "pulseLive" /\ pc' = "decide" /\ level' = 0 /\ lastErr' = "none"
      /\ UNCHANGED << storeVars, endpoints, idx, attempts, rejected, refused,
                      contact, cancelled, working >>
      /\ contact
  BY DEF PulseRetry, IInv, ContactInv, Live
<1>2. StoreTypeOK' /\ RoutesNormal'
  BY <1>1 DEF storeVars, IInv, TypeOK, StoreTypeOK, RoutesNormal
<1>3. TypeOK'
  <2>1. level' \in 0..MaxLevel /\ pc' \in Places
    BY <1>1, TransportAssumption DEF Places
  <2> QED BY <1>1, <1>2, <2>1 DEF IInv, TypeOK
<1>4. RoundInv'
  BY <1>1 DEF IInv, RoundInv, Asking, Looping, Live
<1>5. CountInv' /\ ContactInv'
  BY <1>1 DEF CountInv, ContactInv, NoBusyLoop, BackoffAfterContact,
              Looping, Decided, Live
<1> QED BY <1>2, <1>3, <1>4, <1>5 DEF IInv

LEMMA NextIInv == IInv /\ [Next]_vars => IInv'
<1> SUFFICES ASSUME IInv, [Next]_vars PROVE IInv'
  OBVIOUS
<1>1. cancelled \in BOOLEAN /\ working \in Answering \cup {{}} /\ StoreInv
  BY DEF IInv, TypeOK, StoreInv
<1>2. CASE Start
  <2>1. PICK extra \in Extras : Boot(extra)
    BY <1>2 DEF Start
  <2>2. StoreTypeOK' /\ RoutesNormal'
    BY <1>1, <2>1, OpenStateInv DEF Boot, StoreInv
  <2>3. TypeOK'
    BY <2>1, <2>2 DEF Boot, roundVars, IInv, TypeOK, Places
  <2>4. RoundInv' /\ CountInv' /\ ContactInv'
    BY <2>1 DEF Boot, RoundInv, CountInv, ContactInv, NoBusyLoop,
                BackoffAfterContact, Asking, Looping, Decided, Live
  <2> QED BY <2>2, <2>3, <2>4 DEF IInv
<1>3. CASE StartRound
  BY <1>3, StartRoundInv
<1>4. CASE AttemptWs
  BY <1>4, AttemptFailsInv, WelcomedInv DEF AttemptWs, WsWelcomed, Transports, Live
<1>5. CASE AttemptPulse
  BY <1>5, AttemptFailsInv, WelcomedInv DEF AttemptPulse, PulseWelcomed, Transports, Live
<1>6. CASE WsSessionEnds
  BY <1>6, SessionEndsInv DEF WsSessionEnds, Transports
<1>7. CASE PulseSessionEnds
  BY <1>7, SessionEndsInv DEF PulseSessionEnds, Transports
<1>8. CASE Panic
  BY <1>1, <1>8, ResetInv DEF Panic
<1>9. CASE Kill
  BY <1>1, <1>9, ResetInv DEF Kill
<1>10. CASE OperatorStarts
  <2>1. cancelled' \in BOOLEAN
    BY <1>10 DEF OperatorStarts
  <2> QED BY <1>10, <2>1, ResetInv DEF OperatorStarts
<1>11. CASE Pulses
  <2>1. PICK list \in Lists : PulseWelcome(list)
    BY <1>11 DEF Pulses
  <2>2. StoreTypeOK' /\ RoutesNormal'
    BY <1>1, <2>1, ApplyWelcomeInv DEF PulseWelcome, StoreInv
  <2> QED BY <1>1, <2>1, <2>2, AsideInv DEF PulseWelcome
<1>12. CASE PulseRetry
  BY <1>12, PulseRetryInv
<1>13. CASE RetryAtOnce \/ WaitOver \/ Stop
  BY <1>13, PlaceInv DEF RetryAtOnce, WaitOver, Stop
<1>14. CASE GiveUp
  BY <1>14, PlaceInv DEF GiveUp
<1>15. CASE BackOff
  BY <1>15, PlaceInv DEF BackOff
<1>16. CASE Signal
  <2>1. cancelled' \in BOOLEAN /\ StoreTypeOK' /\ RoutesNormal'
    BY <1>1, <1>16 DEF Signal, storeVars, StoreInv, StoreTypeOK, RoutesNormal
  <2> QED BY <1>1, <1>16, <2>1, AsideInv DEF Signal
<1>17. CASE DiskToggles
  <2>1. StoreTypeOK' /\ RoutesNormal'
    BY <1>1, <1>17, DiskChangesInv DEF DiskToggles, StoreInv
  <2> QED BY <1>1, <1>17, <2>1, AsideInv DEF DiskToggles
<1>18. CASE BecomeCalm
  <2>1. working' \in Answering \cup {{}} /\ StoreTypeOK' /\ RoutesNormal'
    BY <1>1, <1>18 DEF BecomeCalm, storeVars, StoreInv, StoreTypeOK, RoutesNormal
  <2> QED BY <1>1, <1>18, <2>1, AsideInv DEF BecomeCalm
<1>19. CASE UNCHANGED vars
  <2>1. StoreTypeOK' /\ RoutesNormal'
    BY <1>1, <1>19 DEF vars, StoreInv, StoreTypeOK, RoutesNormal
  <2>2. UNCHANGED << roundVars, pc, level >> /\ cancelled' = cancelled /\ working' = working
    BY <1>19 DEF vars, roundVars
  <2> QED BY <1>1, <2>1, <2>2, AsideInv
<1> QED BY <1>2, <1>3, <1>4, <1>5, <1>6, <1>7, <1>8, <1>9, <1>10, <1>11, <1>12,
           <1>13, <1>14, <1>15, <1>16, <1>17, <1>18, <1>19 DEF Next, Decide

(* IInv holds in every reachable state.                                    *)
THEOREM IInvariant == Spec => []IInv
  BY InitIInv, NextIInv, PTL DEF Spec

(* The variables have their types (no counter overruns, every program      *)
(* place is a known one).                                                  *)
THEOREM TypeCorrect == Spec => []TypeOK
<1>1. IInv => TypeOK
  BY DEF IInv
<1> QED BY <1>1, IInvariant, PTL

(* Exit code 78 is always unanimous: every route of the round refused the  *)
(* agent over both transports (client.go:103-111).                         *)
THEOREM RejectionTheorem == Spec => []RejectionIsUnanimous
<1>1. IInv => RejectionIsUnanimous
  BY DEF IInv, TypeOK, RoundInv, CountInv, RejectionIsUnanimous, Asked, Live
<1> QED BY <1>1, IInvariant, PTL

(* The agent never goes round an unreachable panel without waiting         *)
(* (client.go:97-105).                                                     *)
THEOREM NoBusyLoopTheorem == Spec => []NoBusyLoop
<1>1. IInv => NoBusyLoop
  BY DEF IInv, ContactInv
<1> QED BY <1>1, IInvariant, PTL

(* A round with contact is followed by the shortest wait (client.go:70-72, *)
(* 89-91).                                                                 *)
THEOREM BackoffTheorem == Spec => []BackoffAfterContact
<1>1. IInv => BackoffAfterContact
  BY DEF IInv, ContactInv
<1> QED BY <1>1, IInvariant, PTL

--------------------------------------------------------------------------
(* The refinement of RejectionVote. *)

(* What the mapped variables are inside and outside a round.               *)
LEMMA MapAsking ==
    ASSUME Asking
    PROVE  /\ votePhase = "asking"
           /\ voteVoters = Transports \X DOMAIN endpoints
           /\ voteRefusals = refused
BY DEF Asking, Live, votePhase, voteVoters, voteRefusals

LEMMA MapIdle ==
    ASSUME pc \in {"down", "round", "wait", "stopped"}
    PROVE  votePhase = "idle" /\ voteVoters = {} /\ voteRefusals = {}
BY DEF Asking, Live, votePhase, voteVoters, voteRefusals

LEMMA MapRejected ==
    ASSUME pc = "rejected"
    PROVE  /\ votePhase = "halted"
           /\ voteVoters = Transports \X DOMAIN endpoints
           /\ voteRefusals = refused
BY DEF votePhase, voteVoters, voteRefusals

(* An attempt that ends is a refusal by a new voter, or nothing.           *)
LEMMA EndsVote ==
    ASSUME IInv, NEW transport \in Transports,
           NEW outcome \in {"error", "refused"},
           pc \in {transport, "wsLive", "pulseLive"},
           pc = "wsLive" => transport = "ws",
           pc = "pulseLive" => transport = "pulse",
           Ends(transport, outcome)
    PROVE  [Vote!Next]_(Vote!vars)
<1>1. /\ pc' \in {"ws", "pulse", "decide"} /\ endpoints' = endpoints
      /\ << transport, idx >> \notin Asked
      /\ << transport, idx >> \in Transports \X (1..Len(endpoints))
  BY AdvanceAsked DEF Ends, IInv
<1>2. Asking /\ Asking' /\ refused \subseteq Asked
  BY <1>1 DEF Asking, Live, Transports, IInv, CountInv, Looping
<1>3. DOMAIN endpoints = 1..Len(endpoints)
  BY DEF IInv, TypeOK
<1>4. /\ votePhase = "asking" /\ voteVoters = Transports \X DOMAIN endpoints
      /\ voteRefusals = refused
  BY <1>2, MapAsking
<1>5. /\ votePhase' = "asking" /\ voteVoters' = Transports \X DOMAIN endpoints
      /\ voteRefusals' = refused'
  BY <1>1, <1>2 DEF Asking, Live, votePhase, voteVoters, voteRefusals
<1>6. CASE outcome = "refused"
  <2>1. refused' = refused \cup {<< transport, idx >>}
    BY <1>6 DEF Ends
  <2>2. << transport, idx >> \in voteVoters \ voteRefusals
    BY <1>1, <1>2, <1>3, <1>4
  <2>3. Vote!Refuse
    BY <1>4, <1>5, <2>1, <2>2 DEF Vote!Refuse
  <2> QED BY <2>3 DEF Vote!Next
<1>7. CASE outcome = "error"
  <2>1. refused' = refused
    BY <1>7 DEF Ends
  <2> QED BY <1>4, <1>5, <2>1 DEF Vote!vars
<1> QED BY <1>6, <1>7

(* A step that stays in the round, or stays out of one, is none.           *)
LEMMA SameVote ==
    ASSUME \/ Asking /\ Asking' /\ UNCHANGED << endpoints, refused >>
           \/ /\ pc \in {"down", "round", "wait", "stopped"}
              /\ pc' \in {"down", "round", "wait", "stopped"}
           \/ UNCHANGED << pc, endpoints, refused >>
    PROVE  UNCHANGED (Vote!vars)
<1>1. CASE Asking /\ Asking' /\ UNCHANGED << endpoints, refused >>
  BY <1>1 DEF Asking, Live, votePhase, voteVoters, voteRefusals, Vote!vars
<1>2. CASE /\ pc \in {"down", "round", "wait", "stopped"}
           /\ pc' \in {"down", "round", "wait", "stopped"}
  BY <1>2 DEF Asking, Live, votePhase, voteVoters, voteRefusals, Vote!vars
<1>3. CASE UNCHANGED << pc, endpoints, refused >>
  BY <1>3 DEF Asking, Live, votePhase, voteVoters, voteRefusals, Vote!vars
<1> QED BY <1>1, <1>2, <1>3

LEMMA LeavesVote ==
    ASSUME pc \in Places, pc' \in {"down", "round", "wait", "stopped"}
    PROVE  [Vote!Next]_(Vote!vars)
<1>1. votePhase' = "idle" /\ voteVoters' = {} /\ voteRefusals' = {}
  BY DEF Asking, Live, votePhase, voteVoters, voteRefusals
<1>2. CASE Asking
  <2>1. Vote!Abandon
    BY <1>1, <1>2, MapAsking DEF Vote!Abandon
  <2> QED BY <2>1 DEF Vote!Next
<1>3. CASE pc = "rejected"
  <2>1. Vote!Revive
    BY <1>1, <1>3, MapRejected DEF Vote!Revive
  <2> QED BY <2>1 DEF Vote!Next
<1>4. CASE pc \in {"down", "round", "wait", "stopped"}
  BY <1>4, SameVote
<1> QED BY <1>2, <1>3, <1>4 DEF Places, Final, Live, Asking

LEMMA StepVote == IInv /\ [Next]_vars => [Vote!Next]_(Vote!vars)
<1> SUFFICES ASSUME IInv, [Next]_vars PROVE [Vote!Next]_(Vote!vars)
  OBVIOUS
<1>1. pc \in Places
  BY DEF IInv, TypeOK
<1>2. CASE StartRound
  <2>1. /\ endpoints' = mem.wsURLs /\ endpoints' # << >> /\ pc' = "ws"
        /\ refused' = {} /\ pc = "round"
        /\ endpoints' \in Seq(Text) /\ Len(endpoints') <= MaxRoutes
    BY <1>2 DEF StartRound, IInv, TypeOK, StoreTypeOK, RoutesNormal, Normal, RouteState
  <2>2. votePhase' = "asking" /\ voteVoters' = Transports \X DOMAIN endpoints'
        /\ voteRefusals' = {}
    BY <2>1 DEF Asking, votePhase, voteVoters, voteRefusals
  <2>3. DOMAIN endpoints' \subseteq 1..MaxRoutes /\ DOMAIN endpoints' # {}
    <3>1. DOMAIN endpoints' = 1..Len(endpoints') /\ Len(endpoints') \in Nat \ {0}
      BY <2>1
    <3>2. 1 \in 1..Len(endpoints')
      BY <3>1
    <3>3. 1..Len(endpoints') \subseteq 1..MaxRoutes
      BY <2>1, <3>1, RouteAssumption
    <3> QED BY <3>1, <3>2, <3>3
  <2>4. voteVoters' \in (SUBSET (Transports \X (1..MaxRoutes))) \ {{}}
    <3>1. PICK d \in DOMAIN endpoints' : TRUE
      BY <2>3
    <3>2. << "ws", d >> \in voteVoters'
      BY <2>2, <3>1 DEF Transports
    <3>3. voteVoters' \subseteq Transports \X (1..MaxRoutes)
      BY <2>2, <2>3
    <3> QED BY <3>2, <3>3
  <2>5. votePhase = "idle"
    BY <2>1, MapIdle
  <2>6. Vote!Open
    BY <2>2, <2>4, <2>5 DEF Vote!Open
  <2> QED BY <2>6 DEF Vote!Next
<1>3. CASE \E transport \in Transports, outcome \in {"error", "refused"} :
             AttemptFails(transport, outcome)
  <2>1. PICK transport \in Transports, outcome \in {"error", "refused"} :
             AttemptFails(transport, outcome)
    BY <1>3
  <2>2. pc = transport /\ Ends(transport, outcome)
    BY <2>1 DEF AttemptFails, Attempting
  <2> QED BY <2>2, EndsVote DEF Transports
<1>4. CASE WsSessionEnds
  <2>1. PICK outcome \in {"error", "refused"} : Ends("ws", outcome)
    BY <1>4 DEF WsSessionEnds, SessionEnds
  <2> QED BY <1>4, <2>1, EndsVote DEF WsSessionEnds, Transports, Live
<1>5. CASE PulseSessionEnds
  <2>1. PICK outcome \in {"error", "refused"} : Ends("pulse", outcome)
    BY <1>5 DEF PulseSessionEnds, SessionEnds
  <2> QED BY <1>5, <2>1, EndsVote DEF PulseSessionEnds, Transports, Live
<1>6. CASE \E list \in Lists : WsWelcomed(list) \/ PulseWelcomed(list)
  BY <1>6, SameVote
     DEF WsWelcomed, PulseWelcomed, Established, Attempting, Asking, Live
<1>7. CASE PulseRetry
  BY <1>7, SameVote DEF PulseRetry, Asking, Live
<1>8. CASE GiveUp
  <2>1. pc = "decide" /\ pc' = "rejected" /\ UNCHANGED roundVars
        /\ Decided /\ rejected = attempts
    BY <1>8 DEF GiveUp, Decided
  <2>2. refused = Transports \X (1..Len(endpoints))
    BY <2>1 DEF IInv, CountInv, Ended, Live, Asked
  <2>3. Asking /\ DOMAIN endpoints = 1..Len(endpoints)
    BY <2>1 DEF Asking, IInv, TypeOK
  <2>4. votePhase' = "halted" /\ voteVoters' = Transports \X DOMAIN endpoints
        /\ voteRefusals' = refused
    BY <2>1 DEF roundVars, votePhase, voteVoters, voteRefusals
  <2>5. Vote!Halt
    BY <2>2, <2>3, <2>4, MapAsking DEF Vote!Halt
  <2> QED BY <2>5 DEF Vote!Next
<1>9. CASE RetryAtOnce \/ BackOff \/ WaitOver \/ Stop \/ Panic \/ Kill \/ OperatorStarts
  BY <1>1, <1>9, LeavesVote
     DEF RetryAtOnce, BackOff, WaitOver, Stop, Panic, Kill, OperatorStarts
<1>10. CASE Start
  BY <1>10, SameVote DEF Start, Boot
<1>11. CASE Pulses \/ Signal \/ DiskToggles \/ BecomeCalm
  BY <1>11, SameVote
     DEF Pulses, PulseWelcome, Signal, DiskToggles, BecomeCalm, roundVars
<1>12. CASE UNCHANGED vars
  BY <1>12, SameVote DEF vars
<1> QED BY <1>2, <1>3, <1>4, <1>5, <1>6, <1>7, <1>8, <1>9, <1>10, <1>11, <1>12
        DEF Next, Decide, AttemptWs, AttemptPulse, Transports

(* The client implements the vote, for every instance (client.go:60-124).  *)
THEOREM RoundsAreVotesTheorem == Spec => RoundsAreVotes
<1>1. Init => Vote!Init
  BY MapIdle DEF Init, Vote!Init
<1> QED BY <1>1, StepVote, IInvariant, PTL DEF Spec, Vote!Spec, RoundsAreVotes

--------------------------------------------------------------------------
(* The history of the list. *)

(* The lists are computed alike. *)
LEMMA SameLists ==
    /\ \A st, urls : History!SetEndpoints(st, urls) = SetEndpoints(st, urls)
    /\ \A st : History!Normalised(st) = Normalised(st)
    /\ \A st : History!Loaded(st) = Loaded(st)
    /\ \A current, extra : History!Merged(current, extra) = Merged(current, extra)
    /\ \A wsURLs, wsURL : History!Enrolled(wsURLs, wsURL) = Enrolled(wsURLs, wsURL)
<1> USE DEF Rank, History!Rank, Cardinality, History!Cardinality
<1>1. \A urls : History!Kept(urls) = Kept(urls)
  BY DEF Kept, History!Kept, FirstUses, History!FirstUses
<1>2. \A st, urls : History!SetEndpoints(st, urls) = SetEndpoints(st, urls)
  BY <1>1 DEF SetEndpoints, History!SetEndpoints
<1>3. \A st : History!Normalised(st) = Normalised(st)
  BY <1>2 DEF Normalised, History!Normalised
<1>4. \A st : History!Loaded(st) = Loaded(st)
  BY <1>3 DEF Loaded, History!Loaded
<1>5. \A current, extra : History!Merged(current, extra) = Merged(current, extra)
  BY DEF Merged, History!Merged
<1>6. \A wsURLs, wsURL :
         History!EnrolledRoutes(wsURLs, wsURL) = EnrolledRoutes(wsURLs, wsURL)
  BY DEF EnrolledRoutes, History!EnrolledRoutes
<1>7. \A wsURLs, wsURL : History!Enrolled(wsURLs, wsURL) = Enrolled(wsURLs, wsURL)
  BY <1>3, <1>6 DEF Enrolled, History!Enrolled
<1> QED BY <1>2, <1>3, <1>4, <1>5, <1>7

(* While a process runs its memory is shown, otherwise the file.           *)
LEMMA ShownState ==
    /\ Running => shownMem = mem /\ shownSave = lastSave
    /\ ~Running => shownMem = disk /\ shownSave = "ok"
    /\ Running' => shownMem' = mem' /\ shownSave' = lastSave'
    /\ ~Running' => shownMem' = disk' /\ shownSave' = "ok"
BY DEF shownMem, shownSave

(* A step that leaves the store and does not end a process is none.        *)
LEMMA SameHistory ==
    ASSUME UNCHANGED storeVars, Running' = Running
    PROVE  UNCHANGED (History!vars)
BY DEF storeVars, shownMem, shownSave, History!vars, History!storeVars

(* A process that runs and hears a list; one that ends.                    *)
LEMMA WelcomeInHistory ==
    ASSUME Running, Running', NEW list \in Lists, ApplyWelcome(list)
    PROVE  History!Welcome(list)
<1>1. shownMem = mem /\ shownSave = lastSave /\ shownMem' = mem' /\ shownSave' = lastSave'
  BY ShownState
<1> QED BY <1>1, SameLists
        DEF ApplyWelcome, Save, History!Welcome, History!ApplyWelcome, History!Save

LEMMA EndInHistory ==
    ASSUME Running, ~Running', UNCHANGED << disk, writable >>
    PROVE  History!Die
<1>1. shownMem' = disk /\ shownSave' = "ok"
  BY ShownState
<1> QED BY <1>1 DEF History!Die, History!ForgetMemory

(* A file that changes hands between processes is not touched.             *)
LEMMA SameFile ==
    ASSUME ~Running, ~Running', UNCHANGED << disk, writable >>
    PROVE  UNCHANGED (History!vars)
<1>1. shownMem = disk /\ shownMem' = disk /\ shownSave = "ok" /\ shownSave' = "ok"
  BY ShownState
<1>2. Running' = Running
  BY DEF Running
<1> QED BY <1>1, <1>2 DEF History!vars, History!storeVars

LEMMA StepHistory == IInv /\ [Next]_vars => [History!Next]_(History!vars)
<1> SUFFICES ASSUME IInv, [Next]_vars PROVE [History!Next]_(History!vars)
  OBVIOUS
<1>1. CASE Start
  <2>1. PICK extra \in Extras : Boot(extra)
    BY <1>1 DEF Start
  <2>2. ~Running /\ Running' /\ OpenState(extra)
    BY <2>1 DEF Boot, Running, Final
  <2>3. shownMem' = mem' /\ shownSave' = lastSave'
    BY <2>2, ShownState
  <2>4. History!Start(extra)
    BY <2>2, <2>3, SameLists
       DEF OpenState, Save, History!Start, History!OpenState, History!Save
  <2> QED BY <2>4 DEF History!Next
<1>2. CASE AttemptWs
  <2>1. CASE \E outcome \in {"error", "refused"} : AttemptFails("ws", outcome)
    <3>1. UNCHANGED storeVars /\ Running' = Running
      BY <2>1 DEF AttemptFails, Attempting, Ends, Advance, Running, Final
    <3> QED BY <3>1, SameHistory
  <2>2. CASE \E list \in Lists : WsWelcomed(list)
    <3>1. PICK list \in Lists : WsWelcomed(list)
      BY <2>2
    <3>2. Running /\ Running' /\ ApplyWelcome(list)
      BY <3>1 DEF WsWelcomed, Established, Attempting, Running, Final
    <3> QED BY <3>2, WelcomeInHistory DEF History!Next
  <2> QED BY <1>2, <2>1, <2>2 DEF AttemptWs
<1>3. CASE AttemptPulse
  <2>1. CASE \E outcome \in {"error", "refused"} : AttemptFails("pulse", outcome)
    <3>1. UNCHANGED storeVars /\ Running' = Running
      BY <2>1 DEF AttemptFails, Attempting, Ends, Advance, Running, Final
    <3> QED BY <3>1, SameHistory
  <2>2. CASE \E list \in Lists : PulseWelcomed(list)
    <3>1. PICK list \in Lists : PulseWelcomed(list)
      BY <2>2
    <3>2. Running /\ Running' /\ ApplyWelcome(list)
      BY <3>1 DEF PulseWelcomed, Established, Attempting, Running, Final
    <3> QED BY <3>2, WelcomeInHistory DEF History!Next
  <2> QED BY <1>3, <2>1, <2>2 DEF AttemptPulse
<1>4. CASE Pulses
  <2>1. PICK list \in Lists : PulseWelcome(list)
    BY <1>4 DEF Pulses
  <2>2. Running /\ Running' /\ ApplyWelcome(list)
    BY <2>1 DEF PulseWelcome, Running, Final
  <2> QED BY <2>2, WelcomeInHistory DEF History!Next
<1>5. CASE WsSessionEnds \/ PulseSessionEnds
  <2>1. UNCHANGED storeVars /\ Running' = Running
    BY <1>5 DEF WsSessionEnds, PulseSessionEnds, SessionEnds, Ends, Advance,
                Running, Final
  <2> QED BY <2>1, SameHistory
<1>6. CASE StartRound \/ PulseRetry \/ RetryAtOnce \/ BackOff \/ WaitOver
  <2>1. UNCHANGED storeVars /\ Running' = Running
    BY <1>6 DEF StartRound, PulseRetry, RetryAtOnce, BackOff, WaitOver,
                Running, Final
  <2> QED BY <2>1, SameHistory
<1>7. CASE Signal \/ BecomeCalm \/ UNCHANGED vars
  <2>1. UNCHANGED storeVars /\ pc' = pc
    BY <1>7 DEF Signal, BecomeCalm, vars, storeVars
  <2> QED BY <2>1, SameHistory DEF Running
<1>8. CASE GiveUp \/ Stop \/ Panic \/ Kill
  <2>1. Running /\ ~Running' /\ UNCHANGED << disk, writable >>
    BY <1>8 DEF GiveUp, Stop, Panic, Kill, ForgetMemory, storeVars, Running,
                Final, Live
  <2> QED BY <2>1, EndInHistory DEF History!Next
<1>9. CASE OperatorStarts
  <2>1. ~Running /\ ~Running' /\ UNCHANGED << disk, writable >>
    BY <1>9 DEF OperatorStarts, ForgetMemory, Running, Final
  <2> QED BY <2>1, SameFile
<1>10. CASE DiskToggles
  <2>1. /\ writable' = ~writable /\ UNCHANGED << mem, disk, lastSave >>
        /\ Running' = Running
    BY <1>10 DEF DiskToggles, DiskChanges, Running
  <2>2. UNCHANGED << shownMem, shownSave >>
    BY <2>1 DEF shownMem, shownSave
  <2>3. History!DiskToggles
    BY <2>1, <2>2 DEF History!DiskToggles, History!DiskChanges
  <2> QED BY <2>3 DEF History!Next
<1> QED BY <1>1, <1>2, <1>3, <1>4, <1>5, <1>6, <1>7, <1>8, <1>9, <1>10
        DEF Next, Decide

(* The client implements the history of the list, for every instance: what *)
(* holds of the list there, over restarts and failed saves, holds of the   *)
(* list of a running client (client.go:167-180, cmd_run.go:38-95).         *)
THEOREM ListHasHistoryTheorem == Spec => ListHasHistory
<1>1. Init => History!Init
  <2> SUFFICES ASSUME Init PROVE History!Init
    OBVIOUS
  <2>1. ~Running
    BY DEF Init, Running
  <2>2. shownMem = disk /\ shownSave = "ok"
    BY <2>1, ShownState
  <2> QED BY <2>1, <2>2, SameLists
          DEF Init, StoreInit, History!Init, History!StoreInit
<1> QED BY <1>1, StepHistory, IInvariant, PTL DEF Spec, History!Spec, ListHasHistory
==========================================================================
