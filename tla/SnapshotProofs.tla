-------------------------- MODULE SnapshotProofs -------------------------
(***************************************************************************)
(* The server of incoming mode, and the collector whose snapshots it (and  *)
(* the session of outgoing mode) sends: the server for any number of       *)
(* requests, slots and links, and for all deadlines that leave a probe     *)
(* less time than the write of its result; the collector for any number of *)
(* calls, interfaces and bytes.                                            *)
(***************************************************************************)
EXTENDS PullServer, Collector, FiniteSetTheorems, TLAPS

--------------------------------------------------------------------------
(* The server. *)

(* What the steps of a handler disturb: one request, and who holds a slot. *)
HandlerInv(r) ==
    /\ phase[r] \in {"idle", "opening", "body", "fetch"}
    /\ age[r] \in Nat /\ began[r] \in Nat
    /\ asked[r] \in Links \cup {NoLink}
    /\ reply[r] \in {"none", "refused", "result", "lost", "cut"}
    /\ phase[r] # "idle" => reply[r] = "none"
    /\ reply[r] = "cut" => ~Running
    /\ phase[r] = "fetch" => began[r] <= age[r] /\ age[r] <= began[r] + ProbeTicks
    /\ r \in instances =>
          asked[r] \in Links /\ ParsesRoute(asked[r]) /\ BuildsConfig(asked[r])
    /\ reply[r] = "lost" => began[r] > 0

(* The functions of the requests are replaced at one request, or left.     *)
OneRequest(r) ==
    /\ phase' = [phase EXCEPT ![r] = phase'[r]]
    /\ age' = [age EXCEPT ![r] = age'[r]]
    /\ began' = [began EXCEPT ![r] = began'[r]]
    /\ asked' = [asked EXCEPT ![r] = asked'[r]]
    /\ reply' = [reply EXCEPT ![r] = reply'[r]]
    /\ instances' \ {r} = instances \ {r}
    /\ UNCHANGED << server, since, panelURL >>

(* A step of one handler of a running server keeps the invariant when it   *)
(* keeps it of its own request and of the slots.                           *)
LEMMA StepOfOne ==
    ASSUME ServerInv, NEW r \in Requests, Running, OneRequest(r),
           HandlerInv(r)', slots' \in Nat, instances' \subseteq Requests,
           IsFiniteSet(Holders'), SlotsAreCounted'
    PROVE  ServerInv'
<1>1. ASSUME NEW q \in Requests, q # r
      PROVE  /\ phase'[q] = phase[q] /\ age'[q] = age[q] /\ began'[q] = began[q]
             /\ asked'[q] = asked[q] /\ reply'[q] = reply[q]
             /\ q \in instances' <=> q \in instances
  BY <1>1 DEF OneRequest, ServerInv, TypeOK
<1>2. \A q \in Requests : HandlerInv(q)'
  <2> SUFFICES ASSUME NEW q \in Requests, q # r PROVE HandlerInv(q)'
    OBVIOUS
  <2>1. HandlerInv(q)
    BY DEF ServerInv, TypeOK, ReplyInv, AgeInv, ProbeInv, ResultArrives, HandlerInv
  <2>2. Running' = Running
    BY DEF OneRequest, Running
  <2> QED BY <1>1, <2>1, <2>2 DEF HandlerInv
<1>3. TypeOK'
  <2>1. /\ phase' \in [Requests -> {"idle", "opening", "body", "fetch"}]
        /\ age' \in [Requests -> Nat] /\ began' \in [Requests -> Nat]
        /\ asked' \in [Requests -> Links \cup {NoLink}]
        /\ reply' \in [Requests -> {"none", "refused", "result", "lost", "cut"}]
    BY DEF ServerInv, TypeOK, OneRequest, HandlerInv
  <2>2. /\ server' \in {"serving", "closing", "stopped", "late", "failed"}
        /\ since' \in 0..GraceTicks /\ panelURL' \in BOOLEAN
    BY DEF ServerInv, TypeOK, OneRequest
  <2> QED BY <2>1, <2>2 DEF TypeOK
<1>4. ReplyInv' /\ AgeInv' /\ ResultArrives'
  BY <1>2 DEF HandlerInv, ReplyInv, AgeInv, ResultArrives
<1>5. ProbeInv'
  BY <1>2 DEF HandlerInv, ProbeInv
<1>6. StopIsClean'
  BY DEF OneRequest, Running, StopIsClean
<1> QED BY <1>3, <1>4, <1>5, <1>6 DEF ServerInv

(* Who holds a slot when request r has reached another phase.              *)
LEMMA HoldersOf ==
    ASSUME ServerInv, NEW r \in Requests, OneRequest(r)
    PROVE  Holders' = IF phase'[r] \in {"body", "fetch"}
                      THEN Holders \cup {r} ELSE Holders \ {r}
<1>1. \A q \in Requests : q # r => phase'[q] = phase[q]
  BY DEF OneRequest, ServerInv, TypeOK
<1> QED BY <1>1 DEF Holders

(* The handler of r ends without having had a slot.                        *)
LEMMA OverInv ==
    ASSUME ServerInv, NEW r \in Requests, Running, phase[r] = "opening",
           NEW what \in {"none", "refused", "result"}, Over(r, what),
           UNCHANGED << began, slots, instances >>
    PROVE  ServerInv'
<1>1. OneRequest(r)
  BY DEF Over, OneRequest, ServerInv, TypeOK
<1>2. r \notin Holders /\ r \notin instances
  BY DEF Holders, ServerInv, SlotsAreCounted
<1>3. phase'[r] = "idle" /\ age'[r] = 0 /\ asked'[r] = NoLink /\ reply'[r] = what
      /\ began'[r] = began[r]
  BY DEF Over, ServerInv, TypeOK
<1>4. Holders' = Holders
  BY <1>1, <1>2, <1>3, HoldersOf
<1>5. SlotsAreCounted' /\ IsFiniteSet(Holders') /\ slots' \in Nat
      /\ instances' \subseteq Requests
  BY <1>4 DEF SlotsAreCounted, ServerInv, TypeOK
<1>6. HandlerInv(r)'
  BY <1>2, <1>3 DEF HandlerInv, ServerInv, TypeOK
<1> QED BY <1>1, <1>5, <1>6, StepOfOne

(* The handler of r ends and gives its slot back.                          *)
LEMMA LeaveInv ==
    ASSUME ServerInv, NEW r \in Requests, Running, r \in Holders,
           NEW what \in {"none", "refused", "result", "lost"},
           Leave(r, what), UNCHANGED began, what = "lost" => began[r] > 0
    PROVE  ServerInv'
<1>1. OneRequest(r)
  BY DEF Leave, Over, OneRequest, ServerInv, TypeOK
<1>2. phase'[r] = "idle" /\ age'[r] = 0 /\ asked'[r] = NoLink /\ reply'[r] = what
      /\ began'[r] = began[r] /\ r \notin instances'
  BY DEF Leave, Over, ServerInv, TypeOK
<1>3. Holders' = Holders \ {r}
  BY <1>1, <1>2, HoldersOf
<1>4. IsFiniteSet(Holders') /\ Cardinality(Holders') = Cardinality(Holders) - 1
      /\ Cardinality(Holders') \in Nat
  BY <1>3, FS_RemoveElement, FS_CardinalityType DEF ServerInv
<1>5. slots' = slots - 1 /\ instances' = instances \ {r}
  BY DEF Leave
<1>6. SlotsAreCounted' /\ slots' \in Nat /\ instances' \subseteq Requests
  BY <1>3, <1>4, <1>5, ServerAssumption DEF SlotsAreCounted, ServerInv, TypeOK
<1>7. HandlerInv(r)'
  BY <1>2 DEF HandlerInv, ServerInv, TypeOK
<1> QED BY <1>1, <1>4, <1>6, <1>7, StepOfOne

(* The process ends: nobody holds anything any more.                       *)
LEMMA EndInv ==
    ASSUME ServerInv, Running, NEW how \in {"stopped", "late", "failed"},
           EndAs(how), how = "stopped" => Holders = {}
    PROVE  ServerInv'
<1>1. phase' = [r \in Requests |-> "idle"] /\ instances' = {} /\ slots' = 0
      /\ server' = how /\ UNCHANGED << since, panelURL, began >>
  BY DEF EndAs
<1>2. Holders' = {}
  BY <1>1 DEF Holders
<1>3. SlotsAreCounted' /\ IsFiniteSet(Holders')
  BY <1>1, <1>2, FS_EmptySet, ServerAssumption DEF SlotsAreCounted
<1>4. \A r \in Requests :
         reply'[r] = IF r \in Holders THEN "cut" ELSE reply[r]
  BY DEF EndAs, Holders
<1>5. reply' \in [Requests -> {"none", "refused", "result", "lost", "cut"}]
  BY DEF EndAs, ServerInv, TypeOK
<1>6. TypeOK'
  BY <1>1, <1>5 DEF EndAs, ServerInv, TypeOK
<1>7. ~Running'
  BY <1>1 DEF Running
<1>8. ReplyInv' /\ AgeInv' /\ ProbeInv'
  BY <1>1, <1>7 DEF ReplyInv, AgeInv, ProbeInv
<1>9. ResultArrives'
  BY <1>1, <1>4 DEF ServerInv, ResultArrives
<1>10. StopIsClean'
  BY <1>1, <1>4 DEF ServerInv, ReplyInv, StopIsClean
<1> QED BY <1>3, <1>6, <1>8, <1>9, <1>10 DEF ServerInv

--------------------------------------------------------------------------

LEMMA InitServer == Init => ServerInv
<1> SUFFICES ASSUME Init PROVE ServerInv
  OBVIOUS
<1>1. Holders = {}
  BY DEF Init, Holders
<1>2. SlotsAreCounted /\ IsFiniteSet(Holders)
  BY <1>1, FS_EmptySet, ServerAssumption DEF Init, SlotsAreCounted
<1>3. TypeOK
  BY ServerAssumption DEF Init, TypeOK
<1>4. ReplyInv /\ AgeInv /\ ProbeInv /\ ResultArrives /\ StopIsClean
  BY DEF Init, ReplyInv, AgeInv, ProbeInv, ResultArrives, StopIsClean
<1> QED BY <1>2, <1>3, <1>4 DEF ServerInv

(* A connection is made, and its request reaches the handler.              *)
LEMMA OpeningInv ==
    ASSUME ServerInv, NEW r \in Requests,
           Accept(r) \/ GoesAway(r) \/ AnswerAtOnce(r) \/ TakeSlot(r) \/ RefuseBusy(r)
    PROVE  ServerInv'
<1>1. CASE Accept(r)
  <2>1. OneRequest(r) /\ Running
    BY <1>1 DEF Accept, OneRequest, ServerInv, TypeOK, Running
  <2>2. r \notin Holders /\ r \notin instances /\ instances' = instances
    BY <1>1 DEF Accept, Holders, ServerInv, SlotsAreCounted
  <2>3. phase'[r] = "opening" /\ age'[r] = age[r] /\ asked'[r] = asked[r]
        /\ reply'[r] = "none" /\ began'[r] = 0
    BY <1>1 DEF Accept, ServerInv, TypeOK
  <2>4. Holders' = Holders
    BY <2>1, <2>2, <2>3, HoldersOf
  <2>5. SlotsAreCounted' /\ IsFiniteSet(Holders') /\ slots' \in Nat
        /\ instances' \subseteq Requests
    BY <1>1, <2>4 DEF Accept, SlotsAreCounted, ServerInv, TypeOK
  <2>6. HandlerInv(r)'
    BY <2>2, <2>3 DEF HandlerInv, ServerInv, TypeOK
  <2> QED BY <2>1, <2>5, <2>6, StepOfOne
<1>2. CASE GoesAway(r)
  BY <1>2, OverInv DEF GoesAway
<1>3. CASE AnswerAtOnce(r)
  BY <1>3, OverInv DEF AnswerAtOnce
<1>4. CASE TakeSlot(r)
  <2>1. OneRequest(r) /\ Running
    BY <1>4 DEF TakeSlot, OneRequest, ServerInv, TypeOK
  <2>2. r \notin Holders /\ r \notin instances /\ instances' = instances
    BY <1>4 DEF TakeSlot, Holders, ServerInv, SlotsAreCounted
  <2>3. phase'[r] = "body" /\ age'[r] = 0 /\ asked'[r] = asked[r]
        /\ reply'[r] = reply[r] /\ began'[r] = began[r] /\ reply[r] = "none"
    BY <1>4 DEF TakeSlot, ServerInv, TypeOK, ReplyInv
  <2>4. Holders' = Holders \cup {r}
    BY <2>1, <2>3, HoldersOf
  <2>5. IsFiniteSet(Holders') /\ Cardinality(Holders') = Cardinality(Holders) + 1
    BY <2>2, <2>4, FS_AddElement DEF ServerInv
  <2>6. SlotsAreCounted' /\ slots' \in Nat /\ instances' \subseteq Requests
    BY <1>4, <2>2, <2>4, <2>5, ServerAssumption
       DEF TakeSlot, SlotsAreCounted, ServerInv, TypeOK
  <2>7. HandlerInv(r)'
    BY <2>2, <2>3 DEF HandlerInv, ServerInv, TypeOK
  <2> QED BY <2>1, <2>5, <2>6, <2>7, StepOfOne
<1>5. CASE RefuseBusy(r)
  BY <1>5, OverInv DEF RefuseBusy
<1> QED BY <1>1, <1>2, <1>3, <1>4, <1>5

(* The handler of a probe, between its slot and its end.                   *)
LEMMA ProbingInv ==
    ASSUME ServerInv, NEW r \in Requests,
           \/ RefuseBody(r) \/ ProbeUnstarted(r) \/ StartProbe(r)
           \/ FetchEnds(r) \/ PanelHangsUp(r)
    PROVE  ServerInv'
<1>1. r \in Holders /\ Running
  BY DEF RefuseBody, ProbeUnstarted, StartProbe, FetchEnds, PanelHangsUp, Holders
<1>2. CASE RefuseBody(r)
  BY <1>1, <1>2, LeaveInv DEF RefuseBody
<1>3. CASE ProbeUnstarted(r)
  BY <1>1, <1>3, LeaveInv DEF ProbeUnstarted
<1>4. CASE StartProbe(r)
  <2>1. PICK l \in Links : /\ ParsesRoute(l) /\ BuildsConfig(l)
                           /\ asked' = [asked EXCEPT ![r] = l]
    BY <1>4 DEF StartProbe
  <2>2. OneRequest(r)
    BY <1>4, <2>1 DEF StartProbe, OneRequest, ServerInv, TypeOK
  <2>3. phase'[r] = "fetch" /\ age'[r] = age[r] /\ asked'[r] = l
        /\ reply'[r] = reply[r] /\ began'[r] = age[r] /\ reply[r] = "none"
    BY <1>4, <2>1 DEF StartProbe, ServerInv, TypeOK, ReplyInv
  <2>4. Holders' = Holders
    BY <1>1, <2>2, <2>3, HoldersOf
  <2>5. SlotsAreCounted' /\ IsFiniteSet(Holders') /\ slots' \in Nat
        /\ instances' \subseteq Requests
    BY <1>1, <1>4, <2>4 DEF StartProbe, SlotsAreCounted, ServerInv, TypeOK
  <2>6. HandlerInv(r)'
    BY <2>1, <2>3, ServerAssumption DEF HandlerInv, ServerInv, TypeOK
  <2> QED BY <1>1, <2>2, <2>5, <2>6, StepOfOne
<1>5. CASE FetchEnds(r)
  <2>1. age[r] >= WriteTicks => began[r] > 0
    <3>1. age[r] <= began[r] + ProbeTicks /\ age[r] \in Nat /\ began[r] \in Nat
      BY <1>5 DEF FetchEnds, ServerInv, TypeOK, AgeInv
    <3> QED BY <3>1, ServerAssumption
  <2> QED BY <1>1, <1>5, <2>1, LeaveInv DEF FetchEnds
<1>6. CASE PanelHangsUp(r)
  BY <1>1, <1>6, LeaveInv DEF PanelHangsUp
<1> QED BY <1>2, <1>3, <1>4, <1>5, <1>6

(* Time passes only where nothing is due.                                  *)
LEMMA TickInv == ASSUME ServerInv, Tick PROVE ServerInv'
<1>1. UNCHANGED << server, panelURL, phase, began, asked, reply, slots, instances >>
  BY DEF Tick
<1>2. Holders' = Holders
  BY <1>1 DEF Holders
<1>3. SlotsAreCounted' /\ IsFiniteSet(Holders')
  BY <1>1, <1>2 DEF SlotsAreCounted, ServerInv
<1>4. age' \in [Requests -> Nat]
  BY DEF Tick, ServerInv, TypeOK
<1>5. since' \in 0..GraceTicks
  BY ServerAssumption DEF Tick, ServerInv, TypeOK
<1>6. TypeOK'
  BY <1>1, <1>4, <1>5 DEF ServerInv, TypeOK
<1>7. AgeInv'
  <2> SUFFICES ASSUME NEW r \in Requests, phase[r] = "fetch"
               PROVE  began[r] <= age'[r] /\ age'[r] <= began[r] + ProbeTicks
    BY <1>1 DEF AgeInv
  <2>1. age'[r] = age[r] + 1 /\ age[r] # began[r] + ProbeTicks
    BY DEF Tick, Due
  <2>2. began[r] <= age[r] /\ age[r] <= began[r] + ProbeTicks
        /\ age[r] \in Nat /\ began[r] \in Nat
    BY DEF ServerInv, TypeOK, AgeInv
  <2> QED BY <2>1, <2>2, ServerAssumption
<1>8. ReplyInv' /\ ProbeInv' /\ ResultArrives' /\ StopIsClean'
  BY <1>1 DEF ServerInv, ReplyInv, ProbeInv, ResultArrives, StopIsClean, Running
<1> QED BY <1>3, <1>6, <1>7, <1>8 DEF ServerInv

LEMMA NextServer == ServerInv /\ [Next]_vars => ServerInv'
<1> SUFFICES ASSUME ServerInv, [Next]_vars PROVE ServerInv'
  OBVIOUS
<1>1. ASSUME NEW r \in Requests,
             \/ Accept(r) \/ GoesAway(r) \/ AnswerAtOnce(r)
             \/ TakeSlot(r) \/ RefuseBusy(r) \/ RefuseBody(r)
             \/ ProbeUnstarted(r) \/ StartProbe(r) \/ FetchEnds(r)
             \/ PanelHangsUp(r)
      PROVE  ServerInv'
  BY <1>1, OpeningInv, ProbingInv
<1>2. CASE Tick
  BY <1>2, TickInv
<1>3. (\A r \in Requests : Quiet(r)) => Holders = {}
  BY DEF Quiet, Holders
<1>4. CASE Signal
  <2>1. CASE EndAs("stopped") /\ \A r \in Requests : Quiet(r)
    BY <1>3, <1>4, <2>1, EndInv DEF Signal, Running
  <2>2. CASE /\ server' = "closing"
             /\ UNCHANGED << since, panelURL, phase, age, began, asked, reply,
                             slots, instances >>
    <3>1. Holders' = Holders
      BY <2>2 DEF Holders
    <3>2. Running /\ Running'
      BY <1>4, <2>2 DEF Signal, Running
    <3> QED BY <2>2, <3>1, <3>2
            DEF ServerInv, TypeOK, SlotsAreCounted, ReplyInv, AgeInv, ProbeInv,
                ResultArrives, StopIsClean
  <2> QED BY <1>4, <2>1, <2>2 DEF Signal
<1>5. CASE ShutdownDone
  BY <1>3, <1>5, EndInv DEF ShutdownDone, Running
<1>6. CASE ShutdownLate
  BY <1>6, EndInv DEF ShutdownLate, Running
<1>7. CASE ListenFails
  BY <1>7, EndInv DEF ListenFails, Running
<1>8. CASE UNCHANGED vars
  <2>1. Holders' = Holders
    BY <1>8 DEF vars, Holders
  <2> QED BY <1>8, <2>1
          DEF vars, ServerInv, TypeOK, SlotsAreCounted, ReplyInv, AgeInv, ProbeInv,
              ResultArrives, StopIsClean, Running
<1> QED BY <1>1, <1>2, <1>4, <1>5, <1>6, <1>7, <1>8 DEF Next

(* Slots, instances, replies and ages in every state of the server.        *)
THEOREM ServerInvariant == Spec => []ServerInv
  BY InitServer, NextServer, PTL DEF Spec

(* Every variable of the server keeps its type; the time of a shutdown     *)
(* stays within its grace (server.go:178-198).                             *)
THEOREM ServerTypes == Spec => []TypeOK
<1>1. ServerInv => TypeOK
  BY DEF ServerInv
<1> QED BY <1>1, ServerInvariant, PTL

(* However many requests there are, the channel holds one token for each   *)
(* handler between the slot and its end, never more than its capacity, and *)
(* no instance without one (server.go:149-177, probe.go:350-354).          *)
THEOREM SlotsAreCountedTheorem == Spec => []SlotsAreCounted
<1>1. ServerInv => SlotsAreCounted
  BY DEF ServerInv
<1> QED BY <1>1, ServerInvariant, PTL

(* A result is lost to the write deadline only after a slow body: a probe  *)
(* alone never outlasts it (server.go:171-176, 181-184).                   *)
THEOREM ResultArrivesTheorem == Spec => []ResultArrives
<1>1. ServerInv => ResultArrives
  BY DEF ServerInv
<1> QED BY <1>1, ServerInvariant, PTL

(* A stop without an error has cut nobody off (server.go:193-197).         *)
THEOREM StopIsCleanTheorem == Spec => []StopIsClean
<1>1. ServerInv => StopIsClean
  BY DEF ServerInv
<1> QED BY <1>1, ServerInvariant, PTL

(* No instance trusts a server that nothing verifies, whatever link the    *)
(* panel sends (probe.go:122-127, 259-269).                                *)
THEOREM InstancesVerifyTheorem == Spec => []InstancesVerify
<1>1. ServerInv => InstancesVerify
  <2> SUFFICES ASSUME ServerInv, NEW r \in instances
               PROVE  /\ Outbound(asked[r]).security = "reality"
                             => asked[r].key /\ asked[r].sni
                      /\ Outbound(asked[r]).trust = {"roots"} => ~asked[r].insecure
    BY DEF InstancesVerify
  <2>1. ParsesRoute(asked[r]) /\ BuildsConfig(asked[r])
    BY DEF ServerInv, ProbeInv
  <2>2. CASE ParsesVLESS(asked[r])
    <3>1. asked[r].scheme = "vless" /\ asked[r].key /\ asked[r].sni
      BY <2>2 DEF ParsesVLESS
    <3>2. Outbound(asked[r]).trust = {"key"}
      BY <3>1 DEF Outbound
    <3>3. {"key"} # {"roots"}
      OBVIOUS
    <3> QED BY <3>1, <3>2, <3>3
  <2>3. CASE ParsesHysteria2(asked[r])
    <3>1. asked[r].scheme = "hysteria2" /\ (~asked[r].insecure \/ asked[r].pin)
      BY <2>1, <2>3 DEF ParsesHysteria2, BuildsConfig
    <3>2. Outbound(asked[r]).security = "tls"
          /\ Outbound(asked[r]).trust = IF asked[r].pin THEN {"pin"} ELSE {"roots"}
      BY <3>1 DEF Outbound
    <3>3. {"pin"} # {"roots"}
      OBVIOUS
    <3> QED BY <3>1, <3>2, <3>3
  <2> QED BY <2>1, <2>2, <2>3 DEF ParsesRoute
<1> QED BY <1>1, ServerInvariant, PTL

--------------------------------------------------------------------------
(* The collector. *)

(* The bytes of finitely many counters are finitely many.                  *)
LEMMA BytesFinite ==
    ASSUME NEW S, IsFiniteSet(S), NEW count, \A i \in S : count[i] \in Nat
    PROVE  IsFiniteSet(Bytes(count, S)) /\ Total(count, S) \in Nat
<1> DEFINE Of(i) == {i} \X (1..count[i])
           f == [i \in S |-> Of(i)]
           R == {Of(i) : i \in S}
<1>1. f \in Surjection(S, R)
  BY DEF Surjection
<1>2. IsFiniteSet(R)
  BY <1>1, FS_Surjection
<1>3. ASSUME NEW i \in S PROVE IsFiniteSet(Of(i))
  <2>1. IsFiniteSet({i}) /\ IsFiniteSet(1..count[i])
    BY FS_Singleton, FS_Interval, 1 \in Int, count[i] \in Int
  <2> QED BY <2>1, FS_Product
<1>4. IsFiniteSet(UNION R)
  BY <1>2, <1>3, FS_UNION
<1> QED BY <1>4, FS_CardinalityType DEF Bytes, Total

LEMMA BytesMember ==
    ASSUME NEW S, NEW count, NEW b
    PROVE  b \in Bytes(count, S) <=>
              \E i \in S : \E k \in 1..count[i] : b = << i, k >>
BY DEF Bytes

(* A counter that grows does not make the total smaller.                   *)
LEMMA TotalMono ==
    ASSUME NEW S, IsFiniteSet(S), NEW old, NEW new,
           \A i \in S : old[i] \in Nat /\ new[i] \in Nat /\ old[i] <= new[i]
    PROVE  Total(old, S) <= Total(new, S)
<1>1. Bytes(old, S) \subseteq Bytes(new, S)
  <2> SUFFICES ASSUME NEW b \in Bytes(old, S) PROVE b \in Bytes(new, S)
    OBVIOUS
  <2>1. PICK i \in S : \E k \in 1..old[i] : b = << i, k >>
    BY BytesMember
  <2>2. PICK k \in 1..old[i] : b = << i, k >>
    BY <2>1
  <2>3. k \in 1..new[i]
    OBVIOUS
  <2> QED BY <2>2, <2>3, BytesMember
<1>2. IsFiniteSet(Bytes(new, S))
  BY BytesFinite
<1> QED BY <1>1, <1>2, FS_Subset DEF Total

(* One more byte on one interface is one more in a total it belongs to.    *)
LEMMA TotalGrows ==
    ASSUME NEW S, IsFiniteSet(S), NEW old, NEW new, NEW p \in S,
           \A i \in S : old[i] \in Nat,
           \A i \in S : new[i] = IF i = p THEN old[i] + 1 ELSE old[i]
    PROVE  Total(new, S) = Total(old, S) + 1
<1> DEFINE b == << p, new[p] >>
<1>1. new[p] = old[p] + 1 /\ old[p] \in Nat
  OBVIOUS
<1>2. b \notin Bytes(old, S)
  <2> SUFFICES ASSUME NEW i \in S, NEW k \in 1..old[i], b = << i, k >>
               PROVE  FALSE
    BY BytesMember
  <2> QED BY <1>1
<1>3. ASSUME NEW c PROVE c \in Bytes(new, S) <=> c \in Bytes(old, S) \cup {b}
  <2>1. ASSUME NEW i \in S, NEW k \in 1..new[i], c = << i, k >>
        PROVE  c \in Bytes(old, S) \cup {b}
    <3>1. k \in 1..old[i] \/ (i = p /\ k = new[p])
      BY <1>1, <2>1
    <3> QED BY <2>1, <3>1, BytesMember
  <2>2. ASSUME NEW i \in S, NEW k \in 1..old[i], c = << i, k >>
        PROVE  c \in Bytes(new, S)
    <3>1. k \in 1..new[i]
      BY <1>1, <2>2
    <3> QED BY <2>2, <3>1, BytesMember
  <2>3. new[p] \in 1..new[p]
    BY <1>1
  <2> QED BY <2>1, <2>2, <2>3, BytesMember
<1>4. Bytes(new, S) = Bytes(old, S) \cup {b}
  BY <1>3
<1> HIDE DEF b
<1> QED BY <1>2, <1>4, BytesFinite, FS_AddElement DEF Total

(* What a call has read has totals, too.                                   *)
LEMMA SeenTotals ==
    ASSUME CollectorTypeOK, NEW c \in Calls, NEW S \in SUBSET Physical
    PROVE  /\ IsFiniteSet(S) /\ Total(counter, S) \in Nat
           /\ Total(seen[c], S) \in Nat
<1>1. IsFiniteSet(S)
  BY CollectorAssumption, FS_Subset
<1>2. \A i \in S : counter[i] \in Nat /\ seen[c][i] \in Nat
  BY DEF CollectorTypeOK, Interfaces
<1> QED BY <1>1, <1>2, BytesFinite

(* The totals of physical interfaces over a step of the server: a byte is  *)
(* counted once, a reset takes bytes away.                                 *)
LEMMA ServerTotals ==
    ASSUME CollectorTypeOK,
           Traffic \/ TimePasses \/ \E i \in Interfaces : Reset(i)
    PROVE  /\ moved' \in Nat /\ moved <= moved'
           /\ counter' \in [Interfaces -> Nat]
           /\ \A S \in SUBSET Physical :
                 /\ Total(counter, S) \in Nat /\ Total(counter', S) \in Nat
                 /\ Total(counter', S) <= Total(counter, S) + (moved' - moved)
                 /\ smooth' => Total(counter, S) <= Total(counter', S)
           /\ smooth' => smooth /\ \A i \in Interfaces : counter[i] <= counter'[i]
           /\ UNCHANGED << pc, seen, cur, prev, first, reported, plain >>
<1> USE DEF Interfaces
<1>1. counter \in [Interfaces -> Nat] /\ moved \in Nat
  BY DEF CollectorTypeOK
<1>2. ASSUME NEW S \in SUBSET Physical
      PROVE  IsFiniteSet(S) /\ Total(counter, S) \in Nat
  <2>1. IsFiniteSet(S)
    BY CollectorAssumption, FS_Subset
  <2>2. \A i \in S : counter[i] \in Nat
    BY <1>1
  <2> QED BY <2>1, <2>2, BytesFinite
<1>3. CASE Traffic
  <2>1. PICK p \in Physical, T \in SUBSET Virtual :
           counter' = [i \in Interfaces |->
                          IF i \in T \cup {p} THEN counter[i] + 1 ELSE counter[i]]
    BY <1>3 DEF Traffic
  <2>2. /\ moved' = moved + 1
        /\ UNCHANGED << pc, seen, cur, prev, first, reported, plain, smooth >>
    BY <1>3 DEF Traffic
  <2>3. counter' \in [Interfaces -> Nat]
        /\ \A i \in Interfaces : counter[i] <= counter'[i]
    BY <1>1, <2>1
  <2>4. ASSUME NEW S \in SUBSET Physical
        PROVE  /\ Total(counter', S) \in Nat
               /\ Total(counter, S) <= Total(counter', S)
               /\ Total(counter', S) <= Total(counter, S) + 1
    <3>1. \A i \in S : /\ counter[i] \in Nat /\ counter'[i] \in Nat
                       /\ counter[i] <= counter'[i]
                       /\ counter'[i] = IF i = p THEN counter[i] + 1 ELSE counter[i]
      BY <1>1, <2>1, <2>3, CollectorAssumption
    <3>2. Total(counter', S) \in Nat /\ Total(counter, S) <= Total(counter', S)
      BY <1>2, <3>1, BytesFinite, TotalMono
    <3>3. CASE p \in S
      BY <1>2, <3>1, <3>2, <3>3, TotalGrows
    <3>4. CASE p \notin S
      BY <1>2, <3>1, <3>2, <3>4, TotalMono
    <3> QED BY <3>2, <3>3, <3>4
  <2> QED BY <1>1, <1>2, <2>2, <2>3, <2>4
<1>4. ASSUME NEW j \in Interfaces, Reset(j)
      PROVE  /\ counter' \in [Interfaces -> Nat]
             /\ \A S \in SUBSET Physical :
                   /\ Total(counter', S) \in Nat
                   /\ Total(counter', S) <= Total(counter, S)
  <2>1. counter' = [counter EXCEPT ![j] = 0]
    BY <1>4 DEF Reset
  <2>2. \A i \in Interfaces : /\ counter[i] \in Nat /\ counter'[i] \in Nat
                              /\ counter'[i] <= counter[i]
    BY <1>1, <2>1
  <2> QED BY <1>1, <1>2, <2>1, <2>2, BytesFinite, TotalMono
<1>5. CASE \E i \in Interfaces : Reset(i)
  <2>1. moved' = moved /\ smooth' = FALSE
        /\ UNCHANGED << pc, seen, cur, prev, first, reported, plain >>
    BY <1>5 DEF Reset
  <2> QED BY <1>1, <1>2, <1>4, <1>5, <2>1
<1>6. CASE TimePasses
  <2>1. UNCHANGED << counter, moved, pc, seen, cur, prev, first, reported,
                     plain, smooth >>
    BY <1>6 DEF TimePasses
  <2> QED BY <1>1, <1>2, <2>1
<1> QED BY <1>3, <1>5, <1>6
(* The steps of the server keep the invariant.                             *)
LEMMA ServerKeeps ==
    ASSUME CollectorInv,
           Traffic \/ TimePasses \/ \E i \in Interfaces : Reset(i)
    PROVE  CollectorInv'
<1>1. CollectorTypeOK
  BY DEF CollectorInv
<1>2. /\ moved \in Nat /\ moved' \in Nat /\ moved <= moved'
      /\ counter' \in [Interfaces -> Nat]
      /\ UNCHANGED << pc, seen, cur, prev, first, reported, plain >>
      /\ smooth' => smooth /\ \A i \in Interfaces : counter[i] <= counter'[i]
  BY <1>1, ServerTotals DEF CollectorTypeOK
<1>3. \A S \in SUBSET Physical :
         /\ Total(counter, S) \in Nat /\ Total(counter', S) \in Nat
         /\ Total(counter', S) <= Total(counter, S) + (moved' - moved)
         /\ smooth' => Total(counter, S) <= Total(counter', S)
  BY <1>1, ServerTotals
<1>4. CollectorTypeOK'
  <2>1. now' \in {now, now + 1} /\ smooth' \in {smooth, FALSE}
    BY DEF Traffic, TimePasses, Reset
  <2>2. now' \in Nat
    BY <1>1, <2>1 DEF CollectorTypeOK
  <2>3. smooth' \in BOOLEAN
    BY <1>1, <2>1 DEF CollectorTypeOK
  <2> QED BY <1>1, <1>2, <2>2, <2>3 DEF CollectorTypeOK
<1>5. SampleInv' /\ AloneInv'
  BY <1>2 DEF CollectorInv, SampleInv, AloneInv
<1>6. /\ prev # NoSample => prev \in Samples /\ prev.bytes \in Nat
                            /\ prev.of \in SUBSET Physical
      /\ \A c \in Calls : pc[c] = "stamped" => /\ cur[c].bytes \in Nat
                                              /\ cur[c].of \in SUBSET Physical
      /\ reported \in Nat
  BY DEF CollectorInv, CollectorTypeOK, SampleInv, Samples
<1>7. \A c \in Calls, S \in SUBSET Physical : Total(seen[c], S) \in Nat
  BY <1>1, SeenTotals
<1>8. BytesInv'
  <2> SUFFICES ASSUME plain PROVE BytesInv'
    BY <1>2 DEF BytesInv
  <2>1. reported <= moved'
    BY <1>2, <1>6 DEF CollectorInv, BytesInv
  <2>2. ASSUME NEW S \in SUBSET Physical, NEW low \in Nat
        PROVE  /\ Excess(Total(counter', S), low) \in Nat
               /\ Excess(Total(counter, S), low) \in Nat
               /\ Excess(Total(counter', S), low)
                    <= Excess(Total(counter, S), low) + (moved' - moved)
    BY <1>2, <1>3 DEF Excess
  <2>3. (\A c \in Calls : pc[c] = "idle") => IdleBytes'
    BY <1>2, <1>6, <2>2 DEF CollectorInv, BytesInv, IdleBytes
  <2>4. ASSUME NEW c \in Calls, pc[c] = "read" PROVE ReadBytes(c)'
    <3>1. ReadBytes(c)
      BY <2>4 DEF CollectorInv, BytesInv
    <3>2. prev # NoSample => Excess(Total(seen[c], prev.of), prev.bytes) \in Nat
      BY <1>6, <1>7 DEF Excess
    <3>3. CASE prev = NoSample
      <4>1. ASSUME NEW S \in SUBSET Physical
            PROVE  Excess(Total(counter', S), Total(seen[c], S)) <= moved'
        <5> DEFINE low == Total(seen[c], S)
        <5>1. low \in Nat
          BY <1>7
        <5>2. Excess(Total(counter, S), low) <= moved
          BY <3>1, <3>3 DEF ReadBytes
        <5> HIDE DEF low
        <5>3. Excess(Total(counter', S), low) <= moved'
          BY <1>2, <2>2, <5>1, <5>2
        <5> QED BY <5>3 DEF low
      <4> QED BY <1>2, <3>3, <4>1 DEF ReadBytes
    <3>4. CASE prev # NoSample
      <4> DEFINE low == Total(seen[c], prev.of)
      <4>1. low \in Nat /\ prev.of \in SUBSET Physical
        BY <1>6, <1>7, <3>4
      <4>2. reported + Excess(low, prev.bytes)
                     + Excess(Total(counter, prev.of), low) <= moved
        BY <3>1, <3>4 DEF ReadBytes
      <4> HIDE DEF low
      <4>3. reported + Excess(low, prev.bytes)
                     + Excess(Total(counter', prev.of), low) <= moved'
        BY <1>2, <1>6, <2>2, <3>2, <3>4, <4>1, <4>2 DEF low
      <4> QED BY <1>2, <3>4, <4>3 DEF ReadBytes, low
    <3> QED BY <3>3, <3>4
  <2>5. ASSUME NEW c \in Calls, pc[c] = "stamped" PROVE StampedBytes(c)'
    <3>1. StampedBytes(c)
      BY <2>5 DEF CollectorInv, BytesInv
    <3>2. prev # NoSample => Excess(cur[c].bytes, prev.bytes) \in Nat
      BY <1>6, <2>5 DEF Excess
    <3> QED BY <1>2, <1>6, <2>2, <2>5, <3>1, <3>2 DEF StampedBytes
  <2> QED BY <1>2, <2>1, <2>3, <2>4, <2>5 DEF BytesInv
<1>9. GrowthInv'
  <2> SUFFICES ASSUME plain, smooth' PROVE GrowthInv'
    BY <1>2 DEF GrowthInv
  <2>1. smooth /\ \A i \in Interfaces : counter[i] <= counter'[i]
    BY <1>2
  <2>2. \A S \in SUBSET Physical : Total(counter, S) <= Total(counter', S)
    BY <1>3
  <2>3. prev # NoSample => /\ reported = prev.bytes - first
                           /\ prev.bytes <= Total(counter', prev.of)
    BY <1>3, <1>6, <2>1, <2>2 DEF CollectorInv, GrowthInv
  <2>4. ASSUME NEW c \in Calls, pc[c] = "read"
        PROVE  /\ \A i \in Interfaces : seen[c][i] <= counter'[i]
               /\ prev # NoSample => prev.bytes <= Total(seen[c], prev.of)
    <3>1. \A i \in Interfaces : /\ seen[c][i] \in Nat /\ counter[i] \in Nat
                                /\ counter'[i] \in Nat
                                /\ seen[c][i] <= counter[i]
      BY <1>1, <1>2, <2>1, <2>4 DEF CollectorTypeOK, CollectorInv, GrowthInv
    <3> QED BY <2>1, <2>4, <3>1 DEF CollectorInv, GrowthInv
  <2>5. ASSUME NEW c \in Calls, pc[c] = "stamped"
        PROVE  /\ cur[c].bytes <= Total(counter', cur[c].of)
               /\ prev # NoSample /\ cur[c].of = prev.of =>
                     prev.bytes <= cur[c].bytes
    BY <1>3, <1>6, <2>1, <2>2, <2>5 DEF CollectorInv, GrowthInv
  <2> QED BY <1>2, <2>3, <2>4, <2>5 DEF GrowthInv
<1> QED BY <1>4, <1>5, <1>8, <1>9 DEF CollectorInv
(* A call that reads the counters: what it can report is what the next one *)
(* could have.                                                             *)
LEMMA ReadKeeps ==
    ASSUME CollectorInv, NEW c \in Calls, ReadCounters(c)
    PROVE  CollectorInv'
<1>1. /\ pc[c] = "idle" /\ pc' = [pc EXCEPT ![c] = "read"]
      /\ seen' = [seen EXCEPT ![c] = counter]
      /\ plain' => plain /\ \A d \in Calls : pc[d] = "idle"
      /\ plain' \in BOOLEAN
      /\ UNCHANGED << counter, now, cur, prev, moved, first, reported, smooth >>
  BY DEF ReadCounters, CollectorInv, CollectorTypeOK
<1>2. CollectorTypeOK
  BY DEF CollectorInv
<1>3. CollectorTypeOK'
  BY <1>1, <1>2 DEF CollectorTypeOK
<1>4. /\ seen'[c] = counter /\ pc'[c] = "read"
      /\ \A d \in Calls : d # c => pc'[d] = pc[d]
  BY <1>1, <1>2 DEF CollectorTypeOK
<1>5. SampleInv' /\ AloneInv'
  BY <1>1, <1>4 DEF CollectorInv, SampleInv, AloneInv
<1>6. \A S \in SUBSET Physical : Total(counter, S) \in Nat
  BY <1>2, SeenTotals
<1>7. \A n \in Nat : Excess(n, n) = 0
  BY DEF Excess
<1>8. ASSUME plain'
      PROVE  BytesInv'
  <2>1. IdleBytes /\ reported <= moved
    BY <1>1, <1>8 DEF CollectorInv, BytesInv
  <2>2. ReadBytes(c)'
    <3>1. prev # NoSample => prev.of \in SUBSET Physical
      BY DEF CollectorInv, SampleInv
    <3>2. CASE prev = NoSample
      <4>1. moved \in Nat
        BY <1>2 DEF CollectorTypeOK
      <4> QED BY <1>1, <1>4, <1>6, <1>7, <3>2, <4>1 DEF ReadBytes
    <3>3. CASE prev # NoSample
      <4>1. Excess(Total(counter, prev.of), Total(counter, prev.of)) = 0
        BY <1>6, <1>7, <3>1, <3>3
      <4>2. reported + Excess(Total(counter, prev.of), prev.bytes) \in Int
        BY <1>2, <1>6, <3>1, <3>3 DEF CollectorTypeOK, Samples, Excess
      <4> QED BY <1>1, <1>4, <2>1, <3>3, <4>1, <4>2 DEF ReadBytes, IdleBytes
    <3> QED BY <3>2, <3>3
  <2>3. \A d \in Calls : d # c => pc'[d] = "idle"
    BY <1>1, <1>4, <1>8
  <2> QED BY <1>1, <1>4, <2>1, <2>2, <2>3 DEF BytesInv
<1>9. ASSUME plain', smooth'
      PROVE  GrowthInv'
  <2>1. \A i \in Interfaces : counter[i] <= counter[i]
    BY <1>2 DEF CollectorTypeOK
  <2>2. \A d \in Calls : d # c => pc'[d] = "idle"
    BY <1>1, <1>4, <1>9
  <2> QED BY <1>1, <1>4, <1>9, <2>1, <2>2 DEF CollectorInv, GrowthInv
<1> QED BY <1>3, <1>5, <1>8, <1>9 DEF CollectorInv, BytesInv, GrowthInv

(* The stamp adds up what was read. *)
LEMMA StampKeeps ==
    ASSUME CollectorInv, NEW c \in Calls, Stamp(c)
    PROVE  CollectorInv'
<1>1. PICK routes \in SUBSET Interfaces :
         cur' = [cur EXCEPT ![c] = [at |-> now,
                                    bytes |-> Total(seen[c], Selected(routes)),
                                    of |-> Selected(routes)]]
  BY DEF Stamp
<1> DEFINE S == Selected(routes)
<1>2. /\ pc[c] = "read" /\ pc' = [pc EXCEPT ![c] = "stamped"]
      /\ seen' = [seen EXCEPT ![c] = Zero]
      /\ UNCHANGED << counter, now, prev, moved, first, reported, plain, smooth >>
  BY DEF Stamp
<1>3. CollectorTypeOK
  BY DEF CollectorInv
<1>4. S \in SUBSET Physical
  BY CollectorAssumption DEF Selected, Interfaces
<1>5. Total(seen[c], S) \in Nat /\ Total(counter, S) \in Nat /\ IsFiniteSet(S)
  BY <1>3, <1>4, SeenTotals
<1> HIDE DEF S
<1>6. /\ cur'[c] = [at |-> now, bytes |-> Total(seen[c], S), of |-> S]
      /\ pc'[c] = "stamped"
      /\ \A d \in Calls : d # c => /\ pc'[d] = pc[d] /\ cur'[d] = cur[d]
                                   /\ seen'[d] = seen[d]
  BY <1>1, <1>2, <1>3 DEF CollectorTypeOK, S
<1>7. cur'[c] \in Samples /\ cur'[c].of = S /\ cur'[c].bytes = Total(seen[c], S)
  BY <1>3, <1>4, <1>5, <1>6 DEF CollectorTypeOK, Samples, Interfaces
<1>8. CollectorTypeOK'
  <2>1. cur' \in [Calls -> Samples \cup {NoSample}]
    BY <1>1, <1>3, <1>6, <1>7 DEF CollectorTypeOK
  <2>2. Zero \in [Interfaces -> Nat]
    BY DEF Zero
  <2>3. seen' \in [Calls -> [Interfaces -> Nat]]
    BY <1>2, <1>3, <2>2 DEF CollectorTypeOK
  <2>4. pc' \in [Calls -> {"idle", "read", "stamped"}]
    BY <1>2, <1>3 DEF CollectorTypeOK
  <2> QED BY <1>2, <1>3, <2>1, <2>3, <2>4 DEF CollectorTypeOK
<1>9. SampleInv'
  BY <1>2, <1>4, <1>6, <1>7 DEF CollectorInv, SampleInv
<1>10. AloneInv'
  BY <1>2, <1>6 DEF CollectorInv, AloneInv
<1>11. plain => \A d \in Calls : d # c => pc'[d] = "idle"
  BY <1>2, <1>6 DEF CollectorInv, AloneInv
<1>12. ASSUME plain PROVE BytesInv'
  <2>1. ReadBytes(c) /\ reported <= moved
    BY <1>2, <1>12 DEF CollectorInv, BytesInv
  <2>2. StampedBytes(c)'
    BY <1>2, <1>4, <1>7, <2>1 DEF ReadBytes, StampedBytes
  <2> QED BY <1>2, <1>6, <1>11, <1>12, <2>1, <2>2 DEF BytesInv
<1>13. ASSUME plain, smooth PROVE GrowthInv'
  <2>1. /\ \A i \in Interfaces : seen[c][i] <= counter[i]
        /\ prev # NoSample => prev.bytes <= Total(seen[c], prev.of)
    BY <1>2, <1>13 DEF CollectorInv, GrowthInv
  <2>2. Total(seen[c], S) <= Total(counter, S)
    <3>1. \A i \in S : /\ seen[c][i] \in Nat /\ counter[i] \in Nat
                       /\ seen[c][i] <= counter[i]
      BY <1>3, <1>4, <2>1 DEF CollectorTypeOK, Interfaces
    <3> QED BY <1>5, <3>1, TotalMono
  <2>3. prev # NoSample => /\ reported = prev.bytes - first
                           /\ prev.bytes <= Total(counter, prev.of)
    BY <1>13 DEF CollectorInv, GrowthInv
  <2> QED BY <1>2, <1>6, <1>7, <1>11, <1>13, <2>1, <2>2, <2>3 DEF GrowthInv
<1> QED BY <1>2, <1>8, <1>9, <1>10, <1>12, <1>13
        DEF CollectorInv, BytesInv, GrowthInv

(* The report of a call alone is of what passed since the sample before;   *)
(* what passed since its own sample is left for the next one.              *)
LEMMA PublishKeeps ==
    ASSUME CollectorInv, NEW c \in Calls, Publish(c)
    PROVE  CollectorInv'
<1>1. /\ pc[c] = "stamped" /\ pc' = [pc EXCEPT ![c] = "idle"]
      /\ prev' = cur[c] /\ cur' = [cur EXCEPT ![c] = NoSample]
      /\ UNCHANGED << counter, now, seen, moved >>
      /\ Account(c)
  BY DEF Publish
<1>2. CollectorTypeOK
  BY DEF CollectorInv
<1>3. /\ cur[c] \in Samples /\ cur[c].of \in SUBSET Physical
      /\ cur[c].bytes \in Nat /\ cur[c].at \in Nat /\ cur[c] # NoSample
  BY <1>1, CollectorAssumption DEF CollectorInv, SampleInv, Samples
<1>4. prev # NoSample => prev.bytes \in Nat /\ prev.at \in Nat
  BY <1>2 DEF CollectorTypeOK, Samples
<1>5. reported \in Nat /\ moved \in Nat /\ first \in Nat
      /\ plain \in BOOLEAN /\ smooth \in BOOLEAN
  BY <1>2 DEF CollectorTypeOK
<1>6. /\ pc'[c] = "idle"
      /\ \A d \in Calls : d # c => pc'[d] = pc[d] /\ cur'[d] = cur[d]
  BY <1>1, <1>2 DEF CollectorTypeOK
<1>7. prev # NoSample =>
         /\ Amount(prev, cur[c]) \in Nat
         /\ Amount(prev, cur[c]) <= Excess(cur[c].bytes, prev.bytes)
         /\ cur[c].at > prev.at /\ prev.bytes <= cur[c].bytes
               => Amount(prev, cur[c]) = cur[c].bytes - prev.bytes
  BY <1>3, <1>4 DEF Amount, Excess
<1>8. CASE prev = NoSample
  <2>1. first' = cur[c].bytes /\ UNCHANGED << reported, plain, smooth >>
    BY <1>1, <1>8 DEF Account
  <2>2. CollectorTypeOK'
    <3>1. cur' \in [Calls -> Samples \cup {NoSample}]
      BY <1>1, <1>2 DEF CollectorTypeOK
    <3>2. pc' \in [Calls -> {"idle", "read", "stamped"}]
      BY <1>1, <1>2 DEF CollectorTypeOK
    <3> QED BY <1>1, <1>2, <1>3, <2>1, <3>1, <3>2 DEF CollectorTypeOK
  <2>3. SampleInv' /\ AloneInv'
    BY <1>1, <1>3, <1>6, <2>1 DEF CollectorInv, SampleInv, AloneInv
  <2>4. reported = 0
    BY <1>8 DEF CollectorInv, SampleInv
  <2>5. plain => \A d \in Calls : pc'[d] = "idle"
    BY <1>1, <1>6 DEF CollectorInv, AloneInv
  <2>6. BytesInv'
    <3> SUFFICES ASSUME plain PROVE BytesInv'
      BY <2>1 DEF BytesInv
    <3>1. StampedBytes(c)
      BY <1>1 DEF CollectorInv, BytesInv
    <3>2. Excess(Total(counter, cur[c].of), cur[c].bytes) \in Nat
      BY <1>2, <1>3, SeenTotals DEF Excess
    <3>3. IdleBytes'
      BY <1>1, <1>8, <2>1, <2>4, <3>1, <3>2 DEF StampedBytes, IdleBytes
    <3> QED BY <1>1, <1>5, <2>1, <2>4, <2>5, <3>3 DEF BytesInv
  <2>7. GrowthInv'
    <3> SUFFICES ASSUME plain, smooth PROVE GrowthInv'
      BY <2>1 DEF GrowthInv
    <3>1. cur[c].bytes <= Total(counter, cur[c].of)
      BY <1>1 DEF CollectorInv, GrowthInv
    <3> QED BY <1>1, <1>3, <2>1, <2>4, <2>5, <3>1 DEF GrowthInv
  <2> QED BY <2>2, <2>3, <2>6, <2>7 DEF CollectorInv
<1>9. CASE prev # NoSample
  <2>1. /\ plain' = (plain /\ cur[c].of = prev.of)
        /\ reported' = IF plain' THEN reported + Amount(prev, cur[c]) ELSE 0
        /\ first' = IF plain' THEN first ELSE 0
        /\ smooth' = (smooth /\ cur[c].at > prev.at)
    BY <1>1, <1>9 DEF Account
  <2>2. CollectorTypeOK'
    <3>1. cur' \in [Calls -> Samples \cup {NoSample}]
      BY <1>1, <1>2 DEF CollectorTypeOK
    <3>2. pc' \in [Calls -> {"idle", "read", "stamped"}]
      BY <1>1, <1>2 DEF CollectorTypeOK
    <3>3. reported' \in Nat /\ first' \in Nat
      BY <1>5, <1>7, <1>9, <2>1
    <3>4. plain' \in BOOLEAN /\ smooth' \in BOOLEAN
      BY <2>1
    <3> QED BY <1>1, <1>2, <1>3, <3>1, <3>2, <3>3, <3>4 DEF CollectorTypeOK
  <2>3. SampleInv'
    BY <1>1, <1>3, <1>6 DEF CollectorInv, SampleInv
  <2>4. plain' => \A d \in Calls : pc'[d] = "idle"
    BY <1>1, <1>6, <2>1 DEF CollectorInv, AloneInv
  <2>5. AloneInv'
    BY <2>4 DEF AloneInv
  <2>6. Excess(Total(counter, cur[c].of), cur[c].bytes) \in Nat
        /\ Total(counter, cur[c].of) \in Nat
    BY <1>2, <1>3, SeenTotals DEF Excess
  <2>7. BytesInv'
    <3> SUFFICES ASSUME plain' PROVE BytesInv'
      BY DEF BytesInv
    <3>1. plain /\ cur[c].of = prev.of
      BY <2>1
    <3>2. reported + Excess(cur[c].bytes, prev.bytes)
                   + Excess(Total(counter, cur[c].of), cur[c].bytes) <= moved
      BY <1>1, <1>9, <3>1 DEF CollectorInv, BytesInv, StampedBytes
    <3>3. reported' = reported + Amount(prev, cur[c])
      BY <2>1
    <3>4. Excess(cur[c].bytes, prev.bytes) \in Nat
      BY <1>3, <1>4, <1>9 DEF Excess
    <3>5. reported' + Excess(Total(counter, cur[c].of), cur[c].bytes) <= moved
          /\ reported' <= moved
      BY <1>5, <1>7, <1>9, <2>6, <3>2, <3>3, <3>4
    <3>6. IdleBytes'
      BY <1>1, <3>5 DEF IdleBytes
    <3> QED BY <1>1, <2>4, <3>5, <3>6 DEF BytesInv
  <2>8. GrowthInv'
    <3> SUFFICES ASSUME plain', smooth' PROVE GrowthInv'
      BY DEF GrowthInv
    <3>1. plain /\ smooth /\ cur[c].of = prev.of /\ cur[c].at > prev.at
      BY <2>1
    <3>2. /\ reported = prev.bytes - first
          /\ cur[c].bytes <= Total(counter, cur[c].of)
          /\ prev.bytes <= cur[c].bytes
      BY <1>1, <1>9, <3>1 DEF CollectorInv, GrowthInv
    <3>3. reported' = cur[c].bytes - first
      BY <1>3, <1>4, <1>5, <1>7, <1>9, <2>1, <3>1, <3>2
    <3> QED BY <1>1, <2>1, <2>4, <3>2, <3>3 DEF GrowthInv
  <2> QED BY <2>2, <2>3, <2>5, <2>7, <2>8 DEF CollectorInv
<1> QED BY <1>8, <1>9

LEMMA InitCollector == CollectorInit => CollectorInv
<1> SUFFICES ASSUME CollectorInit PROVE CollectorInv
  OBVIOUS
<1> USE DEF CollectorInit
<1>1. CollectorTypeOK
  BY DEF CollectorTypeOK, Zero
<1>2. SampleInv /\ AloneInv
  BY DEF SampleInv, AloneInv
<1>3. BytesInv /\ GrowthInv
  BY DEF BytesInv, IdleBytes, GrowthInv
<1> QED BY <1>1, <1>2, <1>3 DEF CollectorInv

LEMMA NextCollector == CollectorInv /\ [CollectorNext]_collectorVars => CollectorInv'
<1> SUFFICES ASSUME CollectorInv, [CollectorNext]_collectorVars PROVE CollectorInv'
  OBVIOUS
<1>1. CASE UNCHANGED collectorVars
  BY <1>1 DEF collectorVars, CollectorInv, CollectorTypeOK, SampleInv, AloneInv,
              BytesInv, IdleBytes, ReadBytes, StampedBytes, GrowthInv
<1> QED BY <1>1, ReadKeeps, StampKeeps, PublishKeeps, ServerKeeps DEF CollectorNext

(* Whatever calls, traffic, resets and routes there are, the amounts       *)
(* reported and what can still be reported are within what passed, as long *)
(* as no two calls have overlapped (metrics.go:101-119).                   *)
THEOREM CollectorInvariant == CollectorSpec => []CollectorInv
  BY InitCollector, NextCollector, PTL DEF CollectorSpec

(* The samples are well formed, and no rate is negative (metrics.go:36-53).*)
THEOREM CollectorTypes == CollectorSpec => []CollectorTypeOK
<1>1. CollectorInv => CollectorTypeOK
  BY DEF CollectorInv
<1> QED BY <1>1, CollectorInvariant, PTL

(* For any number of interfaces, tunnels and bytes: without overlapping    *)
(* calls the rates add up to no more than what passed the physical         *)
(* interfaces (metrics.go:101-152).                                        *)
THEOREM NoByteTwiceTheorem == CollectorSpec => []NoByteTwice
<1>1. CollectorInv => NoByteTwice
  BY DEF CollectorInv, BytesInv, NoByteTwice
<1> QED BY <1>1, CollectorInvariant, PTL

(* And while no counter is reset they add up to all that was counted       *)
(* between the first sample and the last (metrics.go:113-118).             *)
THEOREM ReportsAddUpTheorem == CollectorSpec => []ReportsAddUp
<1>1. CollectorInv => ReportsAddUp
  BY DEF CollectorInv, GrowthInv, ReportsAddUp
<1> QED BY <1>1, CollectorInvariant, PTL
==========================================================================
