------------------------- MODULE RouteListProofs -------------------------
(***************************************************************************)
(* Facts about the lists of RouteList, for every set of texts, every limit *)
(* and lists of every length: what SetEndpoints keeps is a list of usable  *)
(* addresses without repeats and within the limit, what a save writes is   *)
(* normal, and a normal list is read back unchanged.  Then the operations  *)
(* of RouteStore: they keep memory and file normal, whatever the lists.    *)
(***************************************************************************)
EXTENDS RouteStore, FiniteSetTheorems, TLAPS

(* The rank of a position grows with the position, and ranks are the       *)
(* numbers from one to the number of positions.                            *)
LEMMA RankBounds ==
    ASSUME NEW P \in SUBSET Nat, IsFiniteSet(P), NEW i \in P
    PROVE  Rank(P, i) \in 1..Cardinality(P)
<1> DEFINE B == {j \in P : j <= i}
<1>1. IsFiniteSet(B) /\ Cardinality(B) <= Cardinality(P)
  BY FS_Subset, B \subseteq P
<1>2. Cardinality(B) \in Nat /\ Cardinality(P) \in Nat
  BY <1>1, FS_CardinalityType
<1>3. i \in B
  OBVIOUS
<1>4. Cardinality(B) # 0
  BY <1>1, <1>3, FS_EmptySet
<1> QED BY <1>1, <1>2, <1>4 DEF Rank

LEMMA RankGrows ==
    ASSUME NEW P \in SUBSET Nat, IsFiniteSet(P),
           NEW i \in P, NEW j \in P, i < j
    PROVE  Rank(P, i) < Rank(P, j)
<1> DEFINE A == {p \in P : p <= i}
           B == {p \in P : p <= j}
<1>1. A \subseteq B /\ B \subseteq P /\ j \in B /\ j \notin A
  <2>1. i \in Nat /\ j \in Nat /\ \A p \in P : p \in Nat
    OBVIOUS
  <2>2. A \subseteq B
    <3> SUFFICES ASSUME NEW p \in P, p <= i PROVE p <= j
      OBVIOUS
    <3> QED BY <2>1
  <2>3. j \in B /\ j \notin A
    BY <2>1
  <2> QED BY <2>2, <2>3
<1>2. IsFiniteSet(B)
  BY <1>1, FS_Subset
<1>3. IsFiniteSet(A) /\ Cardinality(A) <= Cardinality(B)
       /\ (Cardinality(B) = Cardinality(A) => B = A)
  BY <1>1, <1>2, FS_Subset
<1>4. Cardinality(A) # Cardinality(B)
  BY <1>1, <1>3
<1>5. Cardinality(A) \in Nat /\ Cardinality(B) \in Nat
  BY <1>2, <1>3, FS_CardinalityType
<1> QED BY <1>3, <1>4, <1>5 DEF Rank

(* Every number up to the number of positions is the rank of exactly one.  *)
LEMMA RankOnto ==
    ASSUME NEW P \in SUBSET Nat, IsFiniteSet(P), NEW k \in 1..Cardinality(P)
    PROVE  /\ \E i \in P : Rank(P, i) = k
           /\ \A i, j \in P : Rank(P, i) = Rank(P, j) => i = j
<1> DEFINE n == Cardinality(P)
           f == [i \in P |-> Rank(P, i)]
<1>1. n \in Nat
  BY FS_CardinalityType
<1>2. \A i, j \in P : Rank(P, i) = Rank(P, j) => i = j
  <2> SUFFICES ASSUME NEW i \in P, NEW j \in P,
                      Rank(P, i) = Rank(P, j), i # j
               PROVE  FALSE
    OBVIOUS
  <2>1. Rank(P, i) \in Nat /\ Rank(P, j) \in Nat
    BY <1>1, RankBounds
  <2>2. i < j \/ j < i
    OBVIOUS
  <2> QED BY <2>1, <2>2, RankGrows
<1>3. f \in [P -> 1..n]
  BY RankBounds
<1>4. f \in Injection(P, 1..n)
  BY <1>2, <1>3 DEF Injection, IsInjective
<1>5. IsFiniteSet(1..n) /\ Cardinality(1..n) = n
  BY <1>1, FS_Interval, 1 \in Int, n \in Int
<1>6. f \in Surjection(P, 1..n)
  BY <1>4, <1>5, FS_Injection
<1>7. \E i \in P : f[i] = k
  BY <1>6 DEF Surjection
<1> QED BY <1>2, <1>7

(* The positions whose address is kept are finitely many natural numbers.  *)
LEMMA FirstUsesFinite ==
    ASSUME NEW urls \in Seq(Text)
    PROVE  /\ FirstUses(urls) \in SUBSET Nat
           /\ FirstUses(urls) \subseteq DOMAIN urls
           /\ IsFiniteSet(FirstUses(urls))
           /\ Cardinality(FirstUses(urls)) \in Nat
<1>1. FirstUses(urls) \subseteq 1..Len(urls)
  BY DEF FirstUses
<1>2. IsFiniteSet(1..Len(urls))
  BY FS_Interval, 1 \in Int, Len(urls) \in Int
<1>3. IsFiniteSet(FirstUses(urls))
  BY <1>1, <1>2, FS_Subset
<1> QED BY <1>1, <1>3, FS_CardinalityType

(* The k-th kept address is the trimmed text at the k-th first use.        *)
LEMMA KeptElement ==
    ASSUME NEW urls \in Seq(Text), NEW k \in DOMAIN Kept(urls)
    PROVE  \E i \in FirstUses(urls) : /\ Rank(FirstUses(urls), i) = k
                                      /\ Kept(urls)[k] = Trim[urls[i]]
<1> DEFINE P == FirstUses(urls)
<1>1. k \in 1..Cardinality(P)
  BY FirstUsesFinite, RouteAssumption DEF Kept
<1>2. \E i \in P : Rank(P, i) = k
  BY <1>1, FirstUsesFinite, RankOnto
<1>3. Kept(urls)[k] = Trim[urls[CHOOSE i \in P : Rank(P, i) = k]]
  BY DEF Kept
<1> QED BY <1>2, <1>3

(* What SetEndpoints keeps (state.go:91-108): usable addresses, no repeats,*)
(* at most MaxRoutes of them.                                              *)
LEMMA KeptIsClean ==
    ASSUME NEW urls \in Seq(Text)
    PROVE  /\ Kept(urls) \in Seq(Usable)
           /\ Len(Kept(urls)) <= MaxRoutes
           /\ NoRepeats(Kept(urls))
<1> DEFINE P == FirstUses(urls)
           n == IF Cardinality(P) < MaxRoutes THEN Cardinality(P) ELSE MaxRoutes
<1>1. n \in Nat /\ n <= MaxRoutes
  BY FirstUsesFinite, RouteAssumption
<1>2. DOMAIN Kept(urls) = 1..n
  BY DEF Kept
<1>3. \A k \in 1..n : Kept(urls)[k] \in Usable
  BY <1>2, KeptElement DEF FirstUses
<1>4. Kept(urls) \in [1..n -> Usable]
  BY <1>3 DEF Kept
<1>5. Kept(urls) \in Seq(Usable) /\ Len(Kept(urls)) = n
  BY <1>1, <1>4
<1>6. NoRepeats(Kept(urls))
  <2> SUFFICES ASSUME NEW k \in 1..n, NEW l \in 1..n,
                      Kept(urls)[k] = Kept(urls)[l]
               PROVE  k = l
    BY <1>2 DEF NoRepeats
  <2>1. PICK i \in P : Rank(P, i) = k /\ Kept(urls)[k] = Trim[urls[i]]
    BY <1>2, KeptElement
  <2>2. PICK j \in P : Rank(P, j) = l /\ Kept(urls)[l] = Trim[urls[j]]
    BY <1>2, KeptElement
  <2>3. Trim[urls[i]] = Trim[urls[j]] /\ i \in Nat /\ j \in Nat
    BY <2>1, <2>2, FirstUsesFinite
  <2>4. i = j
    BY <2>3 DEF FirstUses
  <2> QED BY <2>1, <2>2, <2>4
<1> QED BY <1>1, <1>5, <1>6

(* Every usable text of a list has a first use at or before it.            *)
LEMMA FirstUseOf ==
    ASSUME NEW urls \in Seq(Text), NEW i \in DOMAIN urls,
           Trim[urls[i]] \in Usable
    PROVE  \E m \in FirstUses(urls) : m <= i /\ Trim[urls[m]] = Trim[urls[i]]
<1> DEFINE Same == {j \in DOMAIN urls : Trim[urls[j]] = Trim[urls[i]]}
<1>1. Same \subseteq Nat /\ Same # {}
  OBVIOUS
<1>2. PICK m \in Same : \A j \in Same : ~(<< j, m >> \in OpToRel(<, Nat))
  BY <1>1, NatLessThanWellFounded, WFMin
<1>3. \A j \in Same : ~(j < m)
  BY <1>1, <1>2 DEF OpToRel
<1>4. m \in FirstUses(urls)
  <2>1. \A j \in 1..(m - 1) : j \in DOMAIN urls /\ j < m
    OBVIOUS
  <2> QED BY <1>3, <2>1 DEF FirstUses
<1>5. m <= i
  BY <1>1, <1>3
<1> QED BY <1>4, <1>5

(* A first use among the first MaxRoutes of them is kept, at its rank.     *)
LEMMA RankIsKept ==
    ASSUME NEW urls \in Seq(Text), NEW i \in FirstUses(urls),
           Rank(FirstUses(urls), i) <= MaxRoutes
    PROVE  /\ Rank(FirstUses(urls), i) \in DOMAIN Kept(urls)
           /\ Kept(urls)[Rank(FirstUses(urls), i)] = Trim[urls[i]]
<1> DEFINE P == FirstUses(urls)
           k == Rank(P, i)
<1>1. P \in SUBSET Nat /\ IsFiniteSet(P) /\ Cardinality(P) \in Nat
  BY FirstUsesFinite
<1>2. k \in 1..Cardinality(P)
  BY <1>1, RankBounds
<1>3. k \in DOMAIN Kept(urls)
  BY <1>1, <1>2, RouteAssumption DEF Kept
<1>4. PICK j \in P : Rank(P, j) = k /\ Kept(urls)[k] = Trim[urls[j]]
  BY <1>3, KeptElement
<1>5. j = i
  BY <1>1, <1>2, <1>4, RankOnto
<1> QED BY <1>3, <1>4, <1>5

(* One usable text is enough for something to be kept.                     *)
LEMMA KeptNonEmpty ==
    ASSUME NEW urls \in Seq(Text), NEW i \in DOMAIN urls,
           Trim[urls[i]] \in Usable
    PROVE  Kept(urls) # << >>
<1> DEFINE P == FirstUses(urls)
<1>1. PICK m \in P : TRUE
  BY FirstUseOf
<1>2. Cardinality(P) \in Nat /\ Cardinality(P) # 0
  BY <1>1, FirstUsesFinite, FS_EmptySet
<1>3. 1 \in DOMAIN Kept(urls)
  BY <1>2, RouteAssumption DEF Kept
<1> QED BY <1>3

(* The state SetEndpoints leaves to an agent that has an address is normal:*)
(* whatever list the panel or the environment sends, the agent is never    *)
(* left without a route (state.go:109-115).                                *)
THEOREM SetEndpointsNormal ==
    ASSUME NEW st \in RouteState, st.wsURL # Empty, NEW urls \in Seq(Text),
           Kept(urls) = << >> /\ Trim[st.wsURL] \in Usable
              => st.wsURL \in Usable
    PROVE  /\ SetEndpoints(st, urls) \in RouteState
           /\ SetEndpoints(st, urls).wsURL # Empty
           /\ Normal(SetEndpoints(st, urls))
<1> DEFINE new == SetEndpoints(st, urls)
<1>1. Kept(urls) \in Seq(Text) /\ Kept(urls) \in Seq(Usable)
  BY KeptIsClean, RouteAssumption
<1>2. CASE Kept(urls) = << >>
  <2>1. new = [wsURL |-> st.wsURL, wsURLs |-> << st.wsURL >>]
    BY <1>2 DEF SetEndpoints
  <2>2. << st.wsURL >> \in Seq(Text) /\ Len(<< st.wsURL >>) = 1
    BY DEF RouteState
  <2> QED BY <1>2, <2>1, <2>2, RouteAssumption DEF RouteState, Normal, NoRepeats
<1>3. CASE Kept(urls) # << >>
  <2>1. new = [wsURL |-> Kept(urls)[1], wsURLs |-> Kept(urls)]
    BY <1>3 DEF SetEndpoints
  <2>2. Kept(urls)[1] \in Usable /\ \A i \in DOMAIN Kept(urls) : Kept(urls)[i] \in Usable
    BY <1>1, <1>3
  <2> QED BY <1>1, <1>3, <2>1, <2>2, KeptIsClean, RouteAssumption
          DEF RouteState, Normal
<1> QED BY <1>2, <1>3

(* The same of what Save writes and Load returns.                          *)
LEMMA NormalisedNormal ==
    ASSUME NEW st \in RouteState, st.wsURL # Empty
    PROVE  /\ Normalised(st) \in RouteState
           /\ Normalised(st).wsURL # Empty
           /\ Normal(Normalised(st))
<1> DEFINE urls == Append(st.wsURLs, st.wsURL)
<1>1. urls \in Seq(Text) /\ Len(urls) \in DOMAIN urls
      /\ urls[Len(urls)] = st.wsURL
  BY DEF RouteState
<1>2. Kept(urls) = << >> => Trim[st.wsURL] \notin Usable
  <2> SUFFICES ASSUME Trim[st.wsURL] \in Usable PROVE Kept(urls) # << >>
    OBVIOUS
  <2> QED BY <1>1, KeptNonEmpty
<1>3. Normalised(st) = SetEndpoints(st, urls)
  BY DEF Normalised
<1> HIDE DEF urls
<1> QED BY <1>1, <1>2, <1>3, SetEndpointsNormal

(* A list with an entry for every rank up to the limit is the kept one.    *)
LEMMA RanksMakeKept ==
    ASSUME NEW urls \in Seq(Text), NEW next \in Seq(Text),
           Len(next) = IF Cardinality(FirstUses(urls)) < MaxRoutes
                       THEN Cardinality(FirstUses(urls)) ELSE MaxRoutes,
           \A k \in DOMAIN next : \E p \in FirstUses(urls) :
              Rank(FirstUses(urls), p) = k /\ next[k] = Trim[urls[p]]
    PROVE  next = Kept(urls)
<1> DEFINE P == FirstUses(urls)
<1>1. DOMAIN next = DOMAIN Kept(urls)
  BY DEF Kept
<1>2. ASSUME NEW k \in DOMAIN next
      PROVE  next[k] = Kept(urls)[k]
  <2>1. PICK p \in P : Rank(P, p) = k /\ next[k] = Trim[urls[p]]
    OBVIOUS
  <2>2. PICK q \in P : Rank(P, q) = k /\ Kept(urls)[k] = Trim[urls[q]]
    BY <1>1, KeptElement
  <2>3. k \in 1..Cardinality(P)
    BY <2>1, FirstUsesFinite, RankBounds
  <2>4. p = q
    BY <2>1, <2>2, <2>3, FirstUsesFinite, RankOnto
  <2> QED BY <2>1, <2>2, <2>4
<1>3. next \in [DOMAIN next -> Text] /\ Kept(urls) \in Seq(Text)
  BY KeptIsClean, RouteAssumption
<1>4. next = [k \in DOMAIN next |-> next[k]]
  BY <1>3
<1>5. Kept(urls) = [k \in DOMAIN Kept(urls) |-> Kept(urls)[k]]
  BY <1>3
<1> QED BY <1>1, <1>2, <1>4, <1>5

(* A normal list survives a save and a load unchanged, so restarts neither *)
(* move, drop nor add an address (state.go:78-80 and 119-121).             *)
THEOREM NormalIsStable ==
    ASSUME NEW st \in RouteState, Normal(st), st.wsURL # Empty
    PROVE  Normalised(st) = st /\ Loaded(st) = st
<1> DEFINE urls == Append(st.wsURLs, st.wsURL)
           n == Len(st.wsURLs)
           P == FirstUses(urls)
<1>1. /\ st.wsURLs \in Seq(Text) /\ st.wsURL \in Text
      /\ n \in Nat \ {0} /\ n <= MaxRoutes
      /\ urls \in Seq(Text) /\ Len(urls) = n + 1
      /\ \A i \in 1..n : urls[i] = st.wsURLs[i]
      /\ urls[n + 1] = st.wsURL /\ urls[1] = st.wsURL
  BY DEF RouteState, Normal
<1>2. st = [wsURL |-> st.wsURL, wsURLs |-> st.wsURLs]
  BY DEF RouteState
<1>3. Normalised(st) = SetEndpoints(st, urls)
  BY DEF Normalised
<1> HIDE DEF urls, P
<1>4. CASE \A i \in 1..n : st.wsURLs[i] \in Usable
  <2>1. \A i \in 1..n : Trim[urls[i]] = urls[i] /\ urls[i] \in Usable
    BY <1>1, <1>4, RouteAssumption
  <2>2. P = 1..n
    <3>1. ASSUME NEW i \in 1..n PROVE i \in P
      <4>1. i \in DOMAIN urls /\ Trim[urls[i]] \in Usable
        BY <1>1, <2>1
      <4>2. \A j \in 1..(i - 1) : Trim[urls[j]] # Trim[urls[i]]
        BY <1>1, <2>1 DEF Normal, NoRepeats
      <4> QED BY <4>1, <4>2 DEF FirstUses, P
    <3>2. n + 1 \notin P
      <4>1. Trim[urls[n + 1]] = Trim[urls[1]] /\ 1 \in 1..((n + 1) - 1)
        BY <1>1
      <4> QED BY <4>1 DEF FirstUses, P
    <3>3. P \subseteq 1..(n + 1)
      BY <1>1 DEF FirstUses, P
    <3>4. \A i \in 1..(n + 1) : i # n + 1 => i \in 1..n
      BY <1>1
    <3> QED BY <3>1, <3>2, <3>3, <3>4
  <2>3. \A i \in 1..n : Rank(P, i) = i
    <3> SUFFICES ASSUME NEW i \in 1..n PROVE Rank(P, i) = i
      OBVIOUS
    <3>1. {j \in P : j <= i} = 1..i
      BY <1>1, <2>2
    <3>2. Cardinality(1..i) = i
      BY <1>1, FS_Interval, 1 \in Int, i \in Int
    <3> QED BY <3>1, <3>2 DEF Rank
  <2>4. Cardinality(P) = n
    BY <1>1, <2>2, FS_Interval, 1 \in Int, n \in Int
  <2>5. st.wsURLs = Kept(urls)
    <3>1. n = IF Cardinality(P) < MaxRoutes THEN Cardinality(P) ELSE MaxRoutes
      BY <1>1, <2>4, RouteAssumption
    <3>2. \A k \in DOMAIN st.wsURLs : \E p \in P :
             Rank(P, p) = k /\ st.wsURLs[k] = Trim[urls[p]]
      BY <1>1, <2>1, <2>2, <2>3
    <3> QED BY <1>1, <3>1, <3>2, RanksMakeKept DEF P
  <2>6. SetEndpoints(st, urls) = st
    BY <1>1, <1>2, <2>5 DEF SetEndpoints, Normal
  <2> QED BY <1>3, <2>6 DEF Loaded
<1>5. CASE \E i \in 1..n : st.wsURLs[i] \notin Usable
  <2>1. n = 1 /\ st.wsURLs = << st.wsURL >> /\ st.wsURL \notin Usable
    BY <1>1, <1>5 DEF Normal
  <2>2. Trim[st.wsURL] \notin Usable
    BY <1>1, <1>5 DEF Normal
  <2>3. Len(urls) = 2 /\ urls[1] = st.wsURL /\ urls[2] = st.wsURL
    BY <1>1, <2>1
  <2>4. P = {}
    BY <1>1, <2>2, <2>3 DEF FirstUses, P
  <2>5. Kept(urls) = << >>
    <3>1. DOMAIN Kept(urls) = 1..0
      BY <2>4, FS_EmptySet, RouteAssumption DEF Kept, P
    <3>2. Kept(urls) \in Seq(Text)
      BY <1>1, KeptIsClean, RouteAssumption
    <3> QED BY <3>1, <3>2
  <2>6. SetEndpoints(st, urls) = st
    BY <1>2, <2>1, <2>5 DEF SetEndpoints
  <2> QED BY <1>3, <2>6 DEF Loaded
<1> QED BY <1>1, <1>4, <1>5

--------------------------------------------------------------------------
(* The operations of RouteStore. *)

StoreInv == StoreTypeOK /\ RoutesNormal

LEMMA StoreInitInv == StoreInit => StoreInv
<1> SUFFICES ASSUME StoreInit PROVE StoreInv
  OBVIOUS
<1>1. PICK e \in Enrolments : disk = Enrolled(e.wsURLs, e.wsURL)
  BY DEF StoreInit
<1> DEFINE st == [wsURL |-> e.wsURL,
                  wsURLs |-> EnrolledRoutes(e.wsURLs, e.wsURL)]
           urls == Append(e.wsURLs, e.wsURL)
           P == {i \in DOMAIN urls : /\ urls[i] # Empty
                                     /\ \A j \in 1..(i - 1) : urls[j] # urls[i]}
           n == Cardinality(P)
<1>2. e.wsURLs \in Seq(Text) /\ e.wsURL \in Text /\ e.wsURL # Empty
  BY StoreAssumption
<1>3. urls \in Seq(Text)
  BY <1>2
<1>4. P \subseteq 1..Len(urls) /\ IsFiniteSet(P) /\ P \in SUBSET Nat
  <2>1. P \subseteq 1..Len(urls)
    BY <1>3
  <2>2. IsFiniteSet(1..Len(urls))
    BY <1>3, FS_Interval, 1 \in Int, Len(urls) \in Int
  <2> HIDE DEF P
  <2>3. IsFiniteSet(P)
    BY <2>1, <2>2, FS_Subset
  <2> QED BY <2>1, <2>3, <1>3
<1>5. n \in Nat
  BY <1>4, FS_CardinalityType
<1>6. \A k \in 1..n : urls[CHOOSE i \in P : Rank(P, i) = k] \in Text
  <2> SUFFICES ASSUME NEW k \in 1..n
               PROVE  urls[CHOOSE i \in P : Rank(P, i) = k] \in Text
    OBVIOUS
  <2> HIDE DEF P
  <2>1. \E i \in P : Rank(P, i) = k
    BY <1>4, RankOnto
  <2>2. (CHOOSE i \in P : Rank(P, i) = k) \in P
    BY <2>1
  <2> HIDE DEF urls
  <2>3. \A q \in P : urls[q] \in Text
    BY <1>3, <1>4
  <2> QED BY <2>2, <2>3
<1>7. EnrolledRoutes(e.wsURLs, e.wsURL) \in Seq(Text)
  <2>1. EnrolledRoutes(e.wsURLs, e.wsURL)
          = [k \in 1..n |-> urls[CHOOSE i \in P : Rank(P, i) = k]]
    BY DEF EnrolledRoutes
  <2> DEFINE f == [k \in 1..n |-> urls[CHOOSE i \in P : Rank(P, i) = k]]
  <2>2. f \in [1..n -> Text]
    <3> HIDE DEF P, urls, n
    <3> QED BY <1>6
  <2> HIDE DEF f, n
  <2>3. f \in Seq(Text)
    BY <1>5, <2>2
  <2> QED BY <2>1, <2>3 DEF f, n
<1>8. st \in RouteState /\ st.wsURL # Empty
  BY <1>2, <1>7 DEF RouteState
<1>9. disk = Normalised(st)
  BY <1>1 DEF Enrolled
<1> HIDE DEF st
<1>10. disk \in RouteState /\ disk.wsURL # Empty /\ Normal(disk)
  BY <1>8, <1>9, NormalisedNormal
<1>11. mem = disk /\ writable \in BOOLEAN /\ lastSave = "ok"
  BY DEF StoreInit
<1> QED BY <1>10, <1>11 DEF StoreInv, StoreTypeOK, RoutesNormal

(* What a running agent saves is in memory afterwards, cleaned; the file   *)
(* has it too, unless the save failed.                                     *)
LEMMA SaveInv ==
    ASSUME StoreInv, NEW st \in RouteState, Normal(st), st.wsURL # Empty,
           Save(st), writable' = writable
    PROVE  /\ StoreInv'
           /\ mem' = st
           /\ lastSave' = "ok" => disk' = mem'
<1>1. Normalised(st) = st
  BY NormalIsStable
<1> QED BY <1>1 DEF Save, StoreInv, StoreTypeOK, RoutesNormal

(* A list put into a normal state leaves it normal.                        *)
LEMMA SetOverNormal ==
    ASSUME NEW st \in RouteState, Normal(st), st.wsURL # Empty,
           NEW urls \in Seq(Text)
    PROVE  /\ SetEndpoints(st, urls) \in RouteState
           /\ SetEndpoints(st, urls).wsURL # Empty
           /\ Normal(SetEndpoints(st, urls))
<1>1. Trim[st.wsURL] \in Usable => st.wsURL \in Usable
  <2>1. st.wsURLs # << >> /\ st.wsURLs \in Seq(Text) /\ st.wsURL = st.wsURLs[1]
    BY DEF Normal, RouteState
  <2> QED BY <2>1 DEF Normal
<1> QED BY <1>1, SetEndpointsNormal

LEMMA ApplyWelcomeInv ==
    ASSUME StoreInv, NEW list \in Lists, ApplyWelcome(list)
    PROVE  /\ StoreInv'
           /\ writable' = writable
           /\ \/ UNCHANGED << mem, disk, lastSave >>
              \/ lastSave' = "ok" => disk' = mem'
<1>1. list \in Seq(Text)
  BY StoreAssumption
<1>2. CASE UNCHANGED << mem, disk, lastSave >> /\ UNCHANGED writable
  BY <1>2 DEF StoreInv, StoreTypeOK, RoutesNormal
<1>3. CASE Save(SetEndpoints(mem, list)) /\ UNCHANGED writable
  <2>1. mem \in RouteState /\ Normal(mem) /\ mem.wsURL # Empty
    BY DEF StoreInv, StoreTypeOK, RoutesNormal
  <2> QED BY <1>1, <1>3, <2>1, SetOverNormal, SaveInv
<1> QED BY <1>2, <1>3 DEF ApplyWelcome

LEMMA MergedIsList ==
    ASSUME NEW current \in Seq(Text), current # << >>, NEW extra \in Seq(Text)
    PROVE  /\ Merged(current, extra) \in Seq(Text)
           /\ 1 \in DOMAIN Merged(current, extra)
           /\ Merged(current, extra)[1] = current[1]
<1>1. << current[1] >> \in Seq(Text) /\ Tail(current) \in Seq(Text)
  OBVIOUS
<1> DEFINE front == << current[1] >> \o extra
<1>2. front \in Seq(Text) /\ Len(front) = 1 + Len(extra) /\ front[1] = current[1]
  BY <1>1
<1>3. Merged(current, extra) = front \o Tail(current)
  BY DEF Merged
<1> HIDE DEF front
<1> QED BY <1>1, <1>2, <1>3

(* A start finds the file normal, so loading it changes nothing.           *)
LEMMA OpenStateInv ==
    ASSUME StoreInv, NEW extra \in Extras, OpenState(extra)
    PROVE  /\ StoreInv'
           /\ writable' = writable
           /\ lastSave' = "ok" => disk' = mem'
<1>1. Loaded(disk) = disk /\ disk \in RouteState /\ Normal(disk)
      /\ disk.wsURL # Empty
  BY NormalIsStable DEF StoreInv, StoreTypeOK, RoutesNormal
<1>2. CASE extra = << >> /\ mem' = Loaded(disk) /\ disk' = disk /\ lastSave' = "ok"
           /\ UNCHANGED writable
  BY <1>1, <1>2 DEF StoreInv, StoreTypeOK, RoutesNormal
<1>3. CASE /\ extra # << >>
           /\ Save(SetEndpoints(disk, Merged(disk.wsURLs, extra)))
           /\ UNCHANGED writable
  <2>1. Merged(disk.wsURLs, extra) \in Seq(Text)
    BY <1>1, MergedIsList, StoreAssumption DEF RouteState, Normal
  <2>2. SetEndpoints(disk, Merged(disk.wsURLs, extra)) \in RouteState
        /\ Normal(SetEndpoints(disk, Merged(disk.wsURLs, extra)))
        /\ SetEndpoints(disk, Merged(disk.wsURLs, extra)).wsURL # Empty
    BY <1>1, <2>1, SetOverNormal
  <2> QED BY <1>3, <2>2, SaveInv
<1> QED BY <1>1, <1>2, <1>3 DEF OpenState

LEMMA ForgetMemoryInv ==
    ASSUME StoreInv, ForgetMemory PROVE StoreInv'
BY DEF StoreInv, StoreTypeOK, RoutesNormal, ForgetMemory

LEMMA DiskChangesInv ==
    ASSUME StoreInv, DiskChanges PROVE StoreInv'
BY DEF StoreInv, StoreTypeOK, RoutesNormal, DiskChanges
==========================================================================
