--------------------------- MODULE RouteProofs ---------------------------
(***************************************************************************)
(* The route list, for all sets of texts, lists and environments: the loop *)
(* of State.SetEndpoints computes RouteList!SetEndpoints, and the list     *)
(* over any number of restarts, welcomes and failed saves.                 *)
(***************************************************************************)
EXTENDS RouteHistory, RouteLoop, RouteListProofs

--------------------------------------------------------------------------
(* The loop of State.SetEndpoints. *)

USE DEF Looking, Url

LEMMA InitLoopInv == LoopInit => LoopInv
<1> SUFFICES ASSUME LoopInit PROVE LoopInv
  OBVIOUS
<1>1. call.st \in RouteState /\ call.urls \in Seq(Text)
  BY InputsAssumption DEF LoopInit
<1>2. LoopTypeOK
  BY <1>1 DEF LoopInit, LoopTypeOK
<1>3. Passed = {}
  BY <1>1, FirstUsesFinite DEF LoopInit, Passed
<1>4. Cardinality({}) = 0
  BY FS_EmptySet
<1> QED BY <1>2, <1>3, <1>4, RouteAssumption
        DEF LoopInit, LoopInv, LoopIsSetEndpoints

LEMMA NextLoopInv == LoopInv /\ [LoopNext]_loopVars => LoopInv'
<1> SUFFICES ASSUME LoopInv, [LoopNext]_loopVars PROVE LoopInv'
  OBVIOUS
<1> DEFINE urls == call.urls
           P == FirstUses(urls)
<1>1. /\ call.st \in RouteState /\ urls \in Seq(Text)
      /\ at \in Nat \ {0} /\ next \in Seq(Text) /\ Len(next) \in Nat
      /\ P \in SUBSET Nat /\ IsFiniteSet(P) /\ Cardinality(P) \in Nat
      /\ Passed \subseteq P /\ IsFiniteSet(Passed) /\ Cardinality(Passed) \in Nat
      /\ Cardinality(Passed) <= Cardinality(P)
  <2>1. call.st \in RouteState /\ urls \in Seq(Text)
        /\ at \in Nat \ {0} /\ next \in Seq(Text) /\ Len(next) \in Nat
    BY InputsAssumption DEF LoopInv, LoopTypeOK
  <2>2. P \in SUBSET Nat /\ IsFiniteSet(P) /\ Cardinality(P) \in Nat
    BY <2>1, FirstUsesFinite
  <2>3. Passed \subseteq P
    BY DEF Passed
  <2> QED BY <2>1, <2>2, <2>3, FS_Subset, FS_CardinalityType
(* A pass of the loop over a usable text not in seen stands at a first use *)
(* and over any other text it does not.                                    *)
<1>2. ASSUME Looking
      PROVE  at \in P <=> Url \in Usable \ seen
  <2>1. seen = {Trim[urls[j]] : j \in 1..(at - 1)} \cap Usable
    BY <1>2 DEF LoopInv
  <2> QED BY <1>2, <2>1 DEF FirstUses
<1>3. CASE Skip
  <2>1. at' = at + 1 /\ UNCHANGED << call, seen, next, result, pc >> /\ pc = "loop"
    BY <1>3 DEF Skip
  <2>2. at \notin P
    BY <1>2, <1>3 DEF Skip
  <2>3. Passed' = Passed
    BY <1>1, <2>1, <2>2 DEF Passed
  <2>4. LoopTypeOK'
    BY <1>1, <1>3, <2>1 DEF Skip, LoopInv, LoopTypeOK
  <2>5. seen = {Trim[urls[j]] : j \in 1..at} \cap Usable
    <3>1. 1..at = (1..(at - 1)) \cup {at}
      BY <1>1
    <3>2. seen = {Trim[urls[j]] : j \in 1..(at - 1)} \cap Usable
      BY <2>1 DEF LoopInv
    <3>3. Url \notin Usable \/ Url \in seen
      BY <1>3 DEF Skip
    <3> QED BY <3>1, <3>2, <3>3
  <2>6. at' - 1 = at
    BY <1>1, <2>1
  <2> QED BY <2>1, <2>3, <2>4, <2>5, <2>6 DEF LoopInv, LoopIsSetEndpoints
<1>4. CASE Take
  <2>1. /\ at' = at + 1 /\ at' - 1 = at
        /\ seen' = seen \cup {Url} /\ next' = Append(next, Url)
        /\ call' = call /\ result' = result /\ pc = "loop"
        /\ pc' = IF Len(next') = MaxRoutes THEN "after" ELSE "loop"
    BY <1>1, <1>4 DEF Take
  <2>2. at \in P
    BY <1>2, <1>4 DEF Take
  <2>3. Passed' = Passed \cup {at} /\ at \notin Passed
    BY <1>1, <2>1, <2>2 DEF Passed
  <2>4. Cardinality(Passed') = Cardinality(Passed) + 1
    BY <1>1, <2>3, FS_AddElement
  <2>5. Rank(P, at) = Cardinality(Passed) + 1
    <3>1. {j \in P : j <= at} = Passed'
      BY <1>1, <2>2, <2>3 DEF Passed
    <3> QED BY <3>1, <2>4 DEF Rank
  <2>6. /\ next' \in Seq(Text) /\ Len(next') = Len(next) + 1
        /\ DOMAIN next' = DOMAIN next \cup {Len(next) + 1}
        /\ \A k \in DOMAIN next : next'[k] = next[k]
        /\ next'[Len(next) + 1] = Url
    <3>1. Url \in Text
      BY <1>1, <1>4, RouteAssumption DEF Take
    <3> QED BY <1>1, <2>1, <3>1
  <2>7. Len(next) = Cardinality(Passed) /\ Len(next) < MaxRoutes
    BY <2>1 DEF LoopInv
  <2>8. \A k \in DOMAIN next' : \E p \in Passed' :
           Rank(P, p) = k /\ next'[k] = Trim[urls[p]]
    <3>1. ASSUME NEW k \in DOMAIN next
          PROVE  \E p \in Passed' : Rank(P, p) = k /\ next'[k] = Trim[urls[p]]
      BY <2>1, <2>3, <2>6 DEF LoopInv
    <3>2. Rank(P, at) = Len(next) + 1 /\ next'[Len(next) + 1] = Trim[urls[at]]
      BY <2>5, <2>6, <2>7
    <3> QED BY <2>3, <2>6, <3>1, <3>2
  <2>9. LoopTypeOK'
    <3>1. at' \in 1..(Len(urls) + 1)
      BY <1>1, <1>4, <2>1 DEF Take
    <3>2. seen' \subseteq Usable
      BY <1>4 DEF Take, LoopInv, LoopTypeOK
    <3> QED BY <2>1, <2>6, <3>1, <3>2 DEF LoopInv, LoopTypeOK
  <2>10. seen' = {Trim[urls[j]] : j \in 1..at} \cap Usable
    <3>1. 1..at = (1..(at - 1)) \cup {at}
      BY <1>1
    <3>2. seen = {Trim[urls[j]] : j \in 1..(at - 1)} \cap Usable
      BY <2>1 DEF LoopInv
    <3>3. Url \in Usable
      BY <1>4 DEF Take
    <3> QED BY <2>1, <3>1, <3>2, <3>3
  <2>11. CASE Len(next') = MaxRoutes
    <3>1. Cardinality(Passed') <= Cardinality(P)
      <4>1. Passed' \subseteq P
        BY <1>1, <2>2, <2>3
      <4> QED BY <1>1, <4>1, FS_Subset
    <3>2. Len(next') = IF Cardinality(P) < MaxRoutes
                       THEN Cardinality(P) ELSE MaxRoutes
      BY <1>1, <2>4, <2>6, <2>7, <2>11, <3>1, RouteAssumption
    <3>3. Passed' \subseteq P
      BY <1>1, <2>2, <2>3
    <3>4. \A k \in DOMAIN next' : \E p \in P :
             Rank(P, p) = k /\ next'[k] = Trim[urls[p]]
      BY <2>8, <3>3
    <3> HIDE DEF P, urls
    <3>5. next' = Kept(urls)
      BY <1>1, <2>6, <3>2, <3>4, RanksMakeKept DEF P
    <3> QED BY <2>1, <2>9, <2>11, <3>5 DEF LoopInv, LoopIsSetEndpoints, urls
  <2>12. CASE Len(next') # MaxRoutes
    <3>1. Len(next') < MaxRoutes
      BY <1>1, <2>6, <2>7, <2>12, RouteAssumption
    <3> QED BY <2>1, <2>4, <2>6, <2>7, <2>8, <2>9, <2>10, <2>12, <3>1
            DEF LoopInv, LoopIsSetEndpoints
  <2> QED BY <2>11, <2>12
<1>5. CASE Exhausted
  <2>1. at = Len(urls) + 1 /\ pc = "loop" /\ pc' = "after"
        /\ UNCHANGED << call, at, seen, next, result >>
    BY <1>1, <1>5 DEF Exhausted, LoopInv, LoopTypeOK
  <2>2. Passed = P
    BY <1>1, <2>1, FirstUsesFinite DEF Passed
  <2>3. Len(next) = IF Cardinality(P) < MaxRoutes
                    THEN Cardinality(P) ELSE MaxRoutes
    BY <1>1, <2>1, <2>2, RouteAssumption DEF LoopInv
  <2>4. \A k \in DOMAIN next : \E p \in P :
           Rank(P, p) = k /\ next[k] = Trim[urls[p]]
    BY <2>1, <2>2 DEF LoopInv
  <2> HIDE DEF P, urls
  <2>5. next = Kept(urls)
    BY <1>1, <2>3, <2>4, RanksMakeKept DEF P
  <2> QED BY <2>1, <2>5 DEF LoopInv, LoopIsSetEndpoints, LoopTypeOK, urls
<1>6. CASE FallBack
  <2>1. Kept(urls) = << >>
    BY <1>6 DEF FallBack, LoopInv
  <2>2. result = call.st
    BY <1>6 DEF FallBack, LoopInv
  <2>3. next' \in Seq(Text)
    BY <1>1, <1>6, <2>2 DEF FallBack, RouteState
  <2> QED BY <1>6, <2>1, <2>2, <2>3 DEF FallBack, LoopInv, LoopIsSetEndpoints, LoopTypeOK
<1>7. CASE Assign
  <2>1. result = call.st /\ call' = call /\ next' = next /\ pc' = "done"
    BY <1>7 DEF Assign, LoopInv
  <2>2. next = IF Kept(urls) = << >> /\ call.st.wsURL # Empty
               THEN << call.st.wsURL >> ELSE Kept(urls)
    BY <1>7, <2>1 DEF Assign, LoopInv
  <2>3. result' = SetEndpoints(call.st, urls)
    BY <1>7, <2>1, <2>2 DEF Assign, SetEndpoints
  <2>4. result' \in RouteState
    BY <1>1, <1>7, <2>1 DEF Assign, RouteState
  <2> QED BY <1>7, <2>1, <2>3, <2>4 DEF Assign, LoopInv, LoopIsSetEndpoints, LoopTypeOK
<1>8. CASE UNCHANGED loopVars
  BY <1>8 DEF loopVars, LoopInv, LoopTypeOK, LoopIsSetEndpoints, Passed
<1> QED BY <1>3, <1>4, <1>5, <1>6, <1>7, <1>8 DEF LoopNext

(* After each text the list built so far is the one the declarative        *)
(* definition builds from the positions passed (state.go:90-107).          *)
THEOREM LoopInvariant == LoopSpec => []LoopInv
  BY InitLoopInv, NextLoopInv, PTL DEF LoopSpec

(* Whenever the loop is over, the receiver holds what RouteList's          *)
(* SetEndpoints says (state.go:90-115): the other modules may use the      *)
(* operator for the code.                                                  *)
THEOREM LoopComputesSetEndpoints == LoopSpec => []LoopIsSetEndpoints
<1>1. LoopInv => LoopIsSetEndpoints
  BY DEF LoopInv
<1> QED BY <1>1, LoopInvariant, PTL

(* And a save of that list followed by a load gives the same list back.    *)
THEOREM LoopResultIsStable == LoopSpec => []SavedListIsStable
<1>1. LoopInv => SavedListIsStable
  <2> SUFFICES ASSUME LoopInv, pc = "done", result.wsURL # Empty
               PROVE  /\ Normalised(Normalised(result)) = Normalised(result)
                      /\ Loaded(Normalised(result)) = Normalised(result)
    BY DEF SavedListIsStable
  <2>1. result \in RouteState
    BY DEF LoopInv, LoopTypeOK
  <2> QED BY <2>1, NormalisedNormal, NormalIsStable
<1> QED BY <1>1, LoopInvariant, PTL

--------------------------------------------------------------------------
(* The list over restarts. *)

(* With no process the memory is the file; with one, they differ only      *)
(* after a failed save.                                                    *)
HistoryInv ==
    /\ TypeOK
    /\ RoutesNormal
    /\ ~up => mem = disk /\ lastSave = "ok"
    /\ FileFollowsMemory

LEMMA InitHistory == Init => HistoryInv
<1> SUFFICES ASSUME Init PROVE HistoryInv
  OBVIOUS
<1>1. StoreInv /\ mem = disk /\ lastSave = "ok"
  BY StoreInitInv DEF Init, StoreInit
<1>2. TypeOK
  BY <1>1 DEF Init, TypeOK, StoreInv
<1> QED BY <1>1, <1>2 DEF Init, HistoryInv, StoreInv, FileFollowsMemory

LEMMA NextHistory == HistoryInv /\ [Next]_vars => HistoryInv'
<1> SUFFICES ASSUME HistoryInv, [Next]_vars PROVE HistoryInv'
  OBVIOUS
<1>1. StoreInv
  BY DEF HistoryInv, TypeOK, StoreInv
<1>2. ASSUME NEW extra \in Extras, Start(extra) PROVE HistoryInv'
  <2>1. StoreInv' /\ (lastSave' = "ok" => disk' = mem')
    BY <1>1, <1>2, OpenStateInv DEF Start
  <2>2. up' = TRUE /\ up' \in BOOLEAN
    BY <1>2 DEF Start
  <2> QED BY <2>1, <2>2 DEF HistoryInv, TypeOK, StoreInv, FileFollowsMemory
<1>3. ASSUME NEW list \in Lists, Welcome(list) PROVE HistoryInv'
  <2>1. /\ StoreInv'
        /\ \/ UNCHANGED << mem, disk, lastSave >>
           \/ lastSave' = "ok" => disk' = mem'
    BY <1>1, <1>3, ApplyWelcomeInv DEF Welcome
  <2>2. up /\ up' = up
    BY <1>3 DEF Welcome
  <2> QED BY <2>1, <2>2 DEF HistoryInv, TypeOK, StoreInv, FileFollowsMemory
<1>4. CASE Die
  <2>1. StoreInv' /\ mem' = disk /\ disk' = disk /\ lastSave' = "ok"
    BY <1>1, <1>4, ForgetMemoryInv DEF Die, ForgetMemory
  <2>2. up' = FALSE /\ up' \in BOOLEAN
    BY <1>4 DEF Die
  <2> QED BY <2>1, <2>2 DEF HistoryInv, TypeOK, StoreInv, FileFollowsMemory
<1>5. CASE DiskToggles
  <2>1. StoreInv' /\ UNCHANGED << mem, disk, lastSave >>
    BY <1>1, <1>5, DiskChangesInv DEF DiskToggles, DiskChanges
  <2>2. UNCHANGED up
    BY <1>5 DEF DiskToggles
  <2> QED BY <2>1, <2>2 DEF HistoryInv, TypeOK, StoreInv, FileFollowsMemory
<1>6. CASE UNCHANGED vars
  BY <1>6 DEF vars, storeVars, HistoryInv, TypeOK, StoreTypeOK, RoutesNormal,
              FileFollowsMemory
<1> QED BY <1>2, <1>3, <1>4, <1>5, <1>6 DEF Next

(* Lists in memory and file are well typed and normal in every state, and  *)
(* the two agree after a save that went well (state.go:55-134).            *)
THEOREM HistoryInvariant == Spec => []HistoryInv
  BY InitHistory, NextHistory, PTL DEF Spec

(* Memory and file always hold a normal list: never empty, no repeats,     *)
(* within the limit, headed by the old field (state.go:90-121).            *)
THEOREM RoutesNormalTheorem == Spec => []RoutesNormal
<1>1. HistoryInv => RoutesNormal
  BY DEF HistoryInv
<1> QED BY <1>1, HistoryInvariant, PTL

(* The file of a running agent is behind only after a failed save          *)
(* (client.go:171-178, cmd_run.go:83-84).                                  *)
THEOREM FileFollowsMemoryTheorem == Spec => []FileFollowsMemory
<1>1. HistoryInv => FileFollowsMemory
  BY DEF HistoryInv
<1> QED BY <1>1, HistoryInvariant, PTL

--------------------------------------------------------------------------

(* A usable text at the head of a list is what SetEndpoints keeps first.   *)
LEMMA KeptFirst ==
    ASSUME NEW urls \in Seq(Text), urls # << >>, Trim[urls[1]] \in Usable
    PROVE  Kept(urls) # << >> /\ Kept(urls)[1] = Trim[urls[1]]
<1> DEFINE P == FirstUses(urls)
<1>1. 1 \in DOMAIN urls
  OBVIOUS
<1>2. Kept(urls) # << >> /\ Kept(urls) \in Seq(Usable)
  BY <1>1, KeptNonEmpty, KeptIsClean
<1>3. 1 \in DOMAIN Kept(urls)
  BY <1>2
<1>4. PICK i \in P : Rank(P, i) = 1 /\ Kept(urls)[1] = Trim[urls[i]]
  BY <1>3, KeptElement
<1>5. P \in SUBSET Nat /\ IsFiniteSet(P) /\ P \subseteq DOMAIN urls
  BY FirstUsesFinite
<1>6. 1 \in P
  BY <1>1 DEF FirstUses
<1>7. i = 1
  <2>1. CASE 1 < i
    <3>1. Rank(P, 1) < Rank(P, i) /\ Rank(P, 1) \in 1..Cardinality(P)
      BY <1>5, <1>6, <2>1, RankGrows, RankBounds
    <3> QED BY <1>4, <3>1
  <2>2. i \in Nat /\ i >= 1
    BY <1>5
  <2> QED BY <2>1, <2>2
<1> QED BY <1>2, <1>4, <1>7

(* No restart changes the first route of the agent, whatever addresses the *)
(* environment adds and whether or not the file can be written             *)
(* (cmd_run.go:77-83).                                                     *)
THEOREM FirstRouteTheorem == Spec => FirstRouteSticky
<1> DEFINE Sticky == ~up /\ up' /\ disk.wsURL \in Usable => mem'.wsURL = disk.wsURL
<1>1. HistoryInv /\ [Next]_vars => [Sticky]_vars
  <2> SUFFICES ASSUME HistoryInv, Next, ~up, up', disk.wsURL \in Usable
               PROVE  mem'.wsURL = disk.wsURL
    OBVIOUS
  <2>1. PICK extra \in Extras : Start(extra)
    BY DEF Next, Welcome, Die, DiskToggles
  <2>2. Loaded(disk) = disk /\ disk \in RouteState /\ Normal(disk)
        /\ disk.wsURL # Empty
    BY NormalIsStable DEF HistoryInv, TypeOK, StoreTypeOK, RoutesNormal
  <2>3. CASE mem' = Loaded(disk)
    BY <2>2, <2>3
  <2>4. CASE Save(SetEndpoints(disk, Merged(disk.wsURLs, extra)))
    <3> DEFINE urls == Merged(disk.wsURLs, extra)
    <3>1. urls \in Seq(Text) /\ urls # << >> /\ urls[1] = disk.wsURL
      BY <2>2, MergedIsList, StoreAssumption DEF RouteState, Normal
    <3>2. Trim[urls[1]] = disk.wsURL
      BY <3>1, RouteAssumption
    <3> HIDE DEF urls
    <3>3. Kept(urls) # << >> /\ Kept(urls)[1] = disk.wsURL
      BY <3>1, <3>2, KeptFirst
    <3>4. SetEndpoints(disk, urls).wsURL = disk.wsURL
      BY <3>3 DEF SetEndpoints
    <3>5. SetEndpoints(disk, urls) \in RouteState
          /\ Normal(SetEndpoints(disk, urls))
          /\ SetEndpoints(disk, urls).wsURL # Empty
      BY <2>2, <3>1, SetOverNormal
    <3>6. mem' = SetEndpoints(disk, urls)
      BY <2>4, <3>5, NormalIsStable DEF Save, urls
    <3> QED BY <3>4, <3>6
  <2> QED BY <2>1, <2>2, <2>3, <2>4 DEF Start, OpenState
<1> QED BY <1>1, HistoryInvariant, PTL DEF Spec, FirstRouteSticky

--------------------------------------------------------------------------
(* A start loses no address without need. *)

(* Where the texts of a merged list stand.                                 *)
LEMMA MergedAt ==
    ASSUME NEW current \in Seq(Text), current # << >>, NEW extra \in Seq(Text)
    PROVE  /\ Len(Merged(current, extra)) = Len(current) + Len(extra)
           /\ \A i \in DOMAIN extra : Merged(current, extra)[i + 1] = extra[i]
           /\ \A i \in 2..Len(current) :
                 Merged(current, extra)[Len(extra) + i] = current[i]
<1>1. << current[1] >> \in Seq(Text) /\ Tail(current) \in Seq(Text)
  OBVIOUS
<1> DEFINE front == << current[1] >> \o extra
<1>2. front \in Seq(Text) /\ Len(front) = 1 + Len(extra)
      /\ \A i \in DOMAIN extra : front[i + 1] = extra[i]
  BY <1>1
<1>3. Len(Tail(current)) = Len(current) - 1
      /\ \A i \in 1..(Len(current) - 1) : Tail(current)[i] = current[i + 1]
  OBVIOUS
<1>4. Merged(current, extra) = front \o Tail(current)
  BY DEF Merged
<1> HIDE DEF front
<1>5. Len(Merged(current, extra)) = Len(current) + Len(extra)
  <2>1. Len(front \o Tail(current)) = Len(front) + Len(Tail(current))
    <3>1. \A a, b \in Seq(Text) : Len(a \o b) = Len(a) + Len(b)
      OBVIOUS
    <3> QED BY <1>1, <1>2, <3>1
  <2>2. Len(current) \in Nat /\ Len(extra) \in Nat
    OBVIOUS
  <2> QED BY <1>2, <1>3, <1>4, <2>1, <2>2
<1>6. ASSUME NEW i \in DOMAIN extra
      PROVE  Merged(current, extra)[i + 1] = extra[i]
  <2>1. i + 1 \in 1..Len(front)
    BY <1>2
  <2>2. (front \o Tail(current))[i + 1] = front[i + 1]
    BY <1>1, <1>2, <2>1
  <2> QED BY <1>2, <1>4, <2>2
<1>7. ASSUME NEW i \in 2..Len(current)
      PROVE  Merged(current, extra)[Len(extra) + i] = current[i]
  <2>1. Len(extra) \in Nat /\ i - 1 \in 1..(Len(current) - 1)
        /\ Len(extra) + i = Len(front) + (i - 1)
    BY <1>2
  <2>2. (front \o Tail(current))[Len(front) + (i - 1)] = Tail(current)[i - 1]
    BY <1>1, <1>2, <1>3, <2>1
  <2> QED BY <1>3, <1>4, <2>1, <2>2
<1> QED BY <1>5, <1>6, <1>7

(* The k-th address of the environment comes no later than place k + 1 of  *)
(* the merged list: only the first address of the agent can be before it.  *)
LEMMA FreshRank ==
    ASSUME NEW current \in Seq(Text), current # << >>, NEW extra \in Seq(Text),
           NEW k \in DOMAIN Kept(extra), k < MaxRoutes
    PROVE  \E l \in DOMAIN Kept(Merged(current, extra)) :
              Kept(Merged(current, extra))[l] = Kept(extra)[k]
<1> DEFINE urls == Merged(current, extra)
           P == FirstUses(urls)
           Q == FirstUses(extra)
<1>1. urls \in Seq(Text) /\ Len(urls) = Len(current) + Len(extra)
      /\ \A i \in DOMAIN extra : urls[i + 1] = extra[i]
  BY MergedIsList, MergedAt
<1>2. PICK i \in Q : Rank(Q, i) = k /\ Kept(extra)[k] = Trim[extra[i]]
  BY KeptElement
<1>3. Q \in SUBSET Nat /\ IsFiniteSet(Q) /\ Q \subseteq DOMAIN extra
      /\ P \in SUBSET Nat /\ IsFiniteSet(P) /\ P \subseteq DOMAIN urls
  BY <1>1, FirstUsesFinite
<1> HIDE DEF urls
<1>4. i \in Nat /\ i \in DOMAIN extra /\ i + 1 \in DOMAIN urls
      /\ Trim[urls[i + 1]] = Kept(extra)[k] /\ Kept(extra)[k] \in Usable
  BY <1>1, <1>2, <1>3 DEF FirstUses
<1>5. PICK p \in P : p <= i + 1 /\ Trim[urls[p]] = Kept(extra)[k]
  <2>1. \E m \in FirstUses(urls) : m <= i + 1 /\ Trim[urls[m]] = Trim[urls[i + 1]]
    BY <1>1, <1>4, FirstUseOf
  <2> QED BY <1>4, <2>1
<1> DEFINE B == {j \in P : j <= p}
           A == {j \in Q : j <= i}
           f == [j \in A |-> j + 1]
           C == {f[j] : j \in A}
<1>6. IsFiniteSet(A) /\ Cardinality(A) = k
  BY <1>2, <1>3, FS_Subset, A \subseteq Q DEF Rank
<1>7. IsFiniteSet(C) /\ Cardinality(C) <= k
  <2>1. f \in Surjection(A, C)
    BY DEF Surjection
  <2> QED BY <1>6, <2>1, FS_Surjection
<1>8. IsFiniteSet(C \cup {1}) /\ Cardinality(C \cup {1}) <= k + 1
  <2> HIDE DEF C, A
  <2>1. Cardinality(C) \in Nat /\ k \in Nat
    BY <1>6, <1>7, FS_CardinalityType
  <2>2. /\ IsFiniteSet(C \cup {1})
        /\ Cardinality(C \cup {1})
             = IF 1 \in C THEN Cardinality(C) ELSE Cardinality(C) + 1
    BY <1>7, FS_AddElement
  <2> QED BY <1>7, <2>1, <2>2
<1>9. B \subseteq C \cup {1}
  <2> SUFFICES ASSUME NEW j \in B, j # 1 PROVE j - 1 \in A /\ f[j - 1] = j
    OBVIOUS
  <2>1. j \in P /\ j \in Nat \ {0} /\ p \in Nat /\ j <= i + 1 /\ j \in DOMAIN urls
    <3>1. j \in P /\ p \in P /\ j <= p
      OBVIOUS
    <3>2. j \in DOMAIN urls /\ j \in Nat /\ p \in Nat /\ i \in Nat
      BY <1>3, <1>4, <3>1
    <3>3. j \in 1..Len(urls) /\ Len(urls) \in Nat
      BY <1>1, <3>2
    <3> HIDE DEF P
    <3> QED BY <1>5, <3>1, <3>2, <3>3
  <2>2. j - 1 \in DOMAIN extra /\ j - 1 <= i /\ urls[j] = extra[j - 1]
    <3>1. j - 1 \in 1..i /\ (j - 1) + 1 = j /\ i \in 1..Len(extra)
      BY <1>4, <2>1
    <3>2. j - 1 \in DOMAIN extra
      BY <3>1
    <3> QED BY <1>1, <3>1, <3>2
  <2>3. \A q \in 1..((j - 1) - 1) : q + 1 \in 1..(j - 1) /\ urls[q + 1] = extra[q]
    <3> SUFFICES ASSUME NEW q \in 1..((j - 1) - 1)
                 PROVE  q + 1 \in 1..(j - 1) /\ urls[q + 1] = extra[q]
      OBVIOUS
    <3>1. q + 1 \in 1..(j - 1) /\ q \in 1..(j - 1)
      BY <2>1
    <3>2. j - 1 \in 1..Len(extra) /\ Len(extra) \in Nat
      BY <2>2
    <3>3. q \in DOMAIN extra
      BY <2>1, <3>1, <3>2
    <3> QED BY <1>1, <3>1, <3>3
  <2>4. Trim[urls[j]] \in Usable
        /\ \A q \in 1..(j - 1) : Trim[urls[q]] # Trim[urls[j]]
    BY <2>1 DEF FirstUses
  <2>5. j - 1 \in Q
    BY <2>2, <2>3, <2>4 DEF FirstUses
  <2> QED BY <2>1, <2>2, <2>5
<1>10. Rank(P, p) <= k + 1
  <2>1. IsFiniteSet(B) /\ Cardinality(B) <= Cardinality(C \cup {1})
    BY <1>8, <1>9, FS_Subset
  <2>2. Cardinality(B) \in Nat /\ Cardinality(C \cup {1}) \in Nat /\ k \in Nat
    BY <1>6, <1>8, <2>1, FS_CardinalityType
  <2> QED BY <1>8, <2>1, <2>2 DEF Rank
<1>11. Rank(P, p) <= MaxRoutes
  <2>1. Rank(P, p) \in 1..Cardinality(P) /\ Cardinality(P) \in Nat
    BY <1>3, RankBounds, FS_CardinalityType
  <2>2. k \in Nat
    BY <1>6, FS_CardinalityType
  <2> QED BY <1>10, <2>1, <2>2, RouteAssumption
<1> QED BY <1>1, <1>5, <1>11, RankIsKept DEF urls

(* With room left in the list, nothing usable is left out of it.           *)
LEMMA RoomKeepsAll ==
    ASSUME NEW urls \in Seq(Text), Len(Kept(urls)) < MaxRoutes,
           NEW i \in DOMAIN urls, Trim[urls[i]] \in Usable
    PROVE  \E l \in DOMAIN Kept(urls) : Kept(urls)[l] = Trim[urls[i]]
<1> DEFINE P == FirstUses(urls)
<1>1. P \in SUBSET Nat /\ IsFiniteSet(P) /\ Cardinality(P) \in Nat
  BY FirstUsesFinite
<1>2. PICK m \in P : Trim[urls[m]] = Trim[urls[i]]
  BY FirstUseOf
<1>3. Cardinality(P) < MaxRoutes
  <2> DEFINE n == IF Cardinality(P) < MaxRoutes THEN Cardinality(P) ELSE MaxRoutes
  <2>1. n \in Nat
    BY <1>1, RouteAssumption
  <2>2. DOMAIN Kept(urls) = 1..n /\ Kept(urls) \in Seq(Usable)
    BY KeptIsClean DEF Kept
  <2>3. Len(Kept(urls)) = n
    BY <2>1, <2>2
  <2> QED BY <1>1, <2>3, RouteAssumption
<1>4. Rank(P, m) \in 1..Cardinality(P)
  BY <1>1, RankBounds
<1> QED BY <1>1, <1>2, <1>3, <1>4, RankIsKept, RouteAssumption

(* A restart loses no address without need, whatever list the file holds   *)
(* and the environment adds: the first MaxRoutes - 1 addresses of the      *)
(* environment are in use after it, and an old one is dropped only when    *)
(* the list is full (cmd_run.go:77-83, state.go:105-107).                  *)
THEOREM StartKeepsRoutesTheorem == Spec => StartKeepsRoutes
<1> DEFINE Keeps ==
        \A extra \in Extras :
           Start(extra) =>
             /\ \A k \in DOMAIN Kept(extra) : k < MaxRoutes => InUse(Kept(extra)[k])
             /\ \/ Len(mem'.wsURLs) = MaxRoutes
                \/ \A i \in DOMAIN disk.wsURLs :
                     disk.wsURLs[i] \in Usable => InUse(disk.wsURLs[i])
<1>1. HistoryInv => Keeps
  <2> SUFFICES ASSUME HistoryInv, NEW extra \in Extras, Start(extra)
               PROVE  /\ \A k \in DOMAIN Kept(extra) :
                            k < MaxRoutes => InUse(Kept(extra)[k])
                      /\ \/ Len(mem'.wsURLs) = MaxRoutes
                         \/ \A i \in DOMAIN disk.wsURLs :
                              disk.wsURLs[i] \in Usable => InUse(disk.wsURLs[i])
    OBVIOUS
  <2>1. Loaded(disk) = disk /\ disk \in RouteState /\ Normal(disk)
        /\ disk.wsURL # Empty /\ disk.wsURLs \in Seq(Text) /\ disk.wsURLs # << >>
    BY NormalIsStable
       DEF HistoryInv, TypeOK, StoreTypeOK, RoutesNormal, RouteState, Normal
  <2>2. extra \in Seq(Text)
    BY StoreAssumption
  <2>3. CASE extra = << >> /\ mem' = Loaded(disk)
    <3>1. DOMAIN Kept(extra) = {}
      <4>1. FirstUses(extra) = {}
        BY <2>3 DEF FirstUses
      <4>2. Cardinality(FirstUses(extra)) = 0
        BY <4>1, FS_EmptySet
      <4> QED BY <4>2, RouteAssumption DEF Kept
    <3>2. \A i \in DOMAIN disk.wsURLs : InUse(disk.wsURLs[i])
      BY <2>1, <2>3 DEF InUse
    <3> QED BY <3>1, <3>2
  <2>4. CASE Save(SetEndpoints(disk, Merged(disk.wsURLs, extra)))
    <3> DEFINE urls == Merged(disk.wsURLs, extra)
    <3>1. urls \in Seq(Text) /\ 1 \in DOMAIN urls /\ urls[1] = disk.wsURLs[1]
      BY <2>1, <2>2, MergedIsList
    <3>2. /\ Len(urls) = Len(disk.wsURLs) + Len(extra)
          /\ \A i \in 2..Len(disk.wsURLs) : urls[Len(extra) + i] = disk.wsURLs[i]
      BY <2>1, <2>2, MergedAt
    <3>3. \A k \in DOMAIN Kept(extra) : k < MaxRoutes =>
             \E l \in DOMAIN Kept(urls) : Kept(urls)[l] = Kept(extra)[k]
      BY <2>1, <2>2, FreshRank
    <3> HIDE DEF urls
    <3>4. SetEndpoints(disk, urls) \in RouteState
          /\ Normal(SetEndpoints(disk, urls))
          /\ SetEndpoints(disk, urls).wsURL # Empty
      BY <2>1, <3>1, SetOverNormal
    <3>5. mem' = SetEndpoints(disk, urls)
      BY <2>4, <3>4, NormalIsStable DEF Save, urls
    <3>6. \A i \in DOMAIN disk.wsURLs : \E j \in DOMAIN urls : urls[j] = disk.wsURLs[i]
      <4> SUFFICES ASSUME NEW i \in DOMAIN disk.wsURLs
                   PROVE  \E j \in DOMAIN urls : urls[j] = disk.wsURLs[i]
        OBVIOUS
      <4>1. CASE i = 1
        BY <3>1, <4>1
      <4>2. CASE i # 1
        <5>1. i \in 2..Len(disk.wsURLs) /\ Len(extra) \in Nat
          BY <2>1, <2>2, <4>2
        <5>2. Len(extra) + i \in DOMAIN urls
          BY <2>1, <3>1, <3>2, <5>1
        <5> QED BY <3>2, <5>1, <5>2
      <4> QED BY <4>1, <4>2
    <3>7. \A i \in DOMAIN disk.wsURLs :
             disk.wsURLs[i] \in Usable => Trim[disk.wsURLs[i]] = disk.wsURLs[i]
      BY RouteAssumption
    <3>8. CASE Kept(urls) = << >>
      <4>1. \A i \in DOMAIN disk.wsURLs : disk.wsURLs[i] \notin Usable
        BY <3>1, <3>6, <3>7, <3>8, KeptNonEmpty
      <4>2. \A k \in DOMAIN Kept(extra) : ~(k < MaxRoutes)
        BY <3>3, <3>8
      <4> QED BY <4>1, <4>2
    <3>9. CASE Kept(urls) # << >>
      <4>1. mem'.wsURLs = Kept(urls)
        BY <3>5, <3>9 DEF SetEndpoints
      <4>2. \A k \in DOMAIN Kept(extra) : k < MaxRoutes => InUse(Kept(extra)[k])
        BY <3>3, <4>1 DEF InUse
      <4>3. ASSUME Len(mem'.wsURLs) # MaxRoutes, NEW i \in DOMAIN disk.wsURLs,
                   disk.wsURLs[i] \in Usable
            PROVE  InUse(disk.wsURLs[i])
        <5>1. Len(Kept(urls)) < MaxRoutes
          <6>1. Len(Kept(urls)) <= MaxRoutes /\ Len(Kept(urls)) \in Nat
            BY <3>1, KeptIsClean
          <6> QED BY <4>1, <4>3, <6>1, RouteAssumption
        <5>2. PICK j \in DOMAIN urls : urls[j] = disk.wsURLs[i]
          BY <3>6
        <5>3. \E l \in DOMAIN Kept(urls) : Kept(urls)[l] = disk.wsURLs[i]
          BY <3>1, <3>7, <4>3, <5>1, <5>2, RoomKeepsAll
        <5> QED BY <4>1, <5>3 DEF InUse
      <4> QED BY <4>2, <4>3
    <3> QED BY <3>8, <3>9
  <2> QED BY <2>1, <2>3, <2>4 DEF Start, OpenState
<1> QED BY <1>1, HistoryInvariant, PTL DEF StartKeepsRoutes
==========================================================================
