------------------------- MODULE EnrollmentProofs -------------------------
(***************************************************************************)
(* What Enrollment promises for any entrances, any number of keys, and     *)
(* requests that are late, lost or refused in any order.                   *)
(***************************************************************************)
EXTENDS Enrollment, FiniteSetTheorems, TLAPS

LEMMA InitBinding == Init => BindingInv
BY DEF Init, BindingInv, KeyInv, SpentInv, FileKeyIsBound

(* The next entrance, or the end of the process: no answer is at hand, and *)
(* a binding that was is counted as wasted.                                *)
LEMMA TryNextBinding ==
    ASSUME BindingInv, TryNext, pc \in {"asking", "waiting"},
           UNCHANGED sent, wasted \/ reply = "ok" => wasted'
    PROVE  BindingInv'
<1>1. /\ pc' \in {"asking", "down"} /\ reply' = "none"
      /\ UNCHANGED << key, bound, file >>
  BY DEF TryNext
<1>2. KeyInv'
  BY <1>1 DEF BindingInv, KeyInv, FileKeyIsBound
<1>3. SpentInv'
  BY <1>1 DEF BindingInv, SpentInv
<1> QED BY <1>2, <1>3 DEF BindingInv

(* The panel binds the first key it sees; the answer reaches only the      *)
(* process that waits for it.                                              *)
LEMMA ReceiveBinding ==
    ASSUME BindingInv, NEW r \in sent, PanelReceives(r)
    PROVE  BindingInv'
<1>1. /\ sent' = sent \ {r} /\ UNCHANGED << pc, key, at, file, calm >>
      /\ bound' = IF bound = NoKey THEN r.key ELSE bound
  BY DEF PanelReceives
<1>2. pc \in {"waiting", "saving"} => key # NoKey
  BY EnrollmentAssumption DEF BindingInv, KeyInv
<1>3. file # NoKey => bound' = bound
  BY <1>1 DEF BindingInv, KeyInv, FileKeyIsBound
<1>4. CASE pc = "waiting" /\ r = Request
  <2>1. reply' = (IF bound = NoKey THEN "ok" ELSE "refused") /\ UNCHANGED wasted
    BY <1>4 DEF PanelReceives
  <2>2. reply = "none"
    BY <1>4 DEF BindingInv, KeyInv
  <2>3. r.key = key /\ Request' = Request
    BY <1>1, <1>4 DEF Request
  <2>4. KeyInv'
    BY <1>1, <1>3, <1>4, <2>1, <2>3 DEF BindingInv, KeyInv, FileKeyIsBound
  <2>5. SpentInv'
    BY <1>1, <1>4, <2>1, <2>2, <2>3 DEF BindingInv, SpentInv
  <2> QED BY <2>4, <2>5 DEF BindingInv
<1>5. CASE ~(pc = "waiting" /\ r = Request)
  <2>1. wasted' = (wasted \/ bound = NoKey) /\ UNCHANGED reply
    BY <1>5 DEF PanelReceives
  <2>2. Request' = Request
    BY <1>1 DEF Request
  <2>3. KeyInv'
    BY <1>1, <1>2, <1>3, <2>1, <2>2 DEF BindingInv, KeyInv, FileKeyIsBound
  <2>4. SpentInv'
    BY <1>1, <2>1 DEF BindingInv, SpentInv
  <2> QED BY <2>3, <2>4 DEF BindingInv
<1> QED BY <1>4, <1>5

LEMMA NextBinding == BindingInv /\ [Next]_vars => BindingInv'
<1> SUFFICES ASSUME BindingInv, [Next]_vars PROVE BindingInv'
  OBVIOUS
<1>1. CASE Start
  <2>1. /\ pc = "down" /\ pc' \in {"enrolled", "asking"}
        /\ pc' = "asking" => key' \in Keys
        /\ UNCHANGED << reply, sent, bound, file, calm, wasted >>
    BY <1>1 DEF Start, FreshKeys
  <2>2. KeyInv'
    BY <2>1 DEF BindingInv, KeyInv, FileKeyIsBound
  <2>3. SpentInv'
    BY <2>1 DEF BindingInv, SpentInv
  <2> QED BY <2>2, <2>3 DEF BindingInv
<1>2. CASE Send
  <2>1. KeyInv'
    BY <1>2 DEF Send, BindingInv, KeyInv, FileKeyIsBound
  <2>2. SpentInv'
    BY <1>2 DEF Send, BindingInv, SpentInv
  <2> QED BY <2>1, <2>2 DEF BindingInv
<1>3. CASE Unreachable
  <2>1. reply = "none"
    BY <1>3 DEF Unreachable, BindingInv, KeyInv
  <2> QED BY <1>3, <2>1, TryNextBinding DEF Unreachable
<1>4. CASE GivesUpWaiting
  BY <1>4, TryNextBinding DEF GivesUpWaiting
<1>5. CASE Receive
  BY <1>5, ReceiveBinding DEF Receive
<1>6. CASE Lose
  BY <1>6 DEF Lose, Lost, BindingInv, KeyInv, SpentInv, FileKeyIsBound, Request
<1>7. CASE Accepted
  BY <1>7 DEF Accepted, BindingInv, KeyInv, SpentInv, FileKeyIsBound, Request
<1>8. CASE Refused
  BY <1>8, TryNextBinding DEF Refused
<1>9. CASE SaveState
  BY <1>9 DEF SaveState, BindingInv, KeyInv, SpentInv, FileKeyIsBound, Request
<1>10. CASE Die
  BY <1>10 DEF Die, BindingInv, KeyInv, SpentInv, FileKeyIsBound, Request
<1>11. CASE BecomeCalm \/ UNCHANGED vars
  BY <1>11 DEF BecomeCalm, vars, BindingInv, KeyInv, SpentInv, FileKeyIsBound, Request
<1> QED BY <1>1, <1>2, <1>3, <1>4, <1>5, <1>6, <1>7, <1>8, <1>9, <1>10, <1>11 DEF Next

(* An answer at hand belongs to the request being waited for, and what is  *)
(* about to be saved is what the panel bound (enroll.go:59-142).           *)
THEOREM BindingInvariant == Spec => []BindingInv
  BY InitBinding, NextBinding, PTL DEF Spec

(* The key in state.json is the one the panel bound, whatever was late,    *)
(* lost or killed (cmd_run.go:112-138).                                    *)
THEOREM FileKeyTheorem == Spec => []FileKeyIsBound
<1>1. BindingInv => FileKeyIsBound
  BY DEF BindingInv, KeyInv
<1> QED BY <1>1, BindingInvariant, PTL

(* A token without a state is the trace of an answer that was lost or not  *)
(* saved (cmd_run.go:118-138).                                             *)
THEOREM TokenTheorem == Spec => []TokenSpentForNothing
<1>1. BindingInv => TokenSpentForNothing
  BY DEF BindingInv, SpentInv, TokenSpentForNothing
<1> QED BY <1>1, BindingInvariant, PTL

--------------------------------------------------------------------------
(* Types. *)

(* There is an entrance to ask, whatever blanks and repeats are given.     *)
LEMMA SomeEntrance ==
    /\ Len(Entrances) \in Nat \ {0}
    /\ Len(Entrances) <= Len(Given)
<1>1. FirstGiven \subseteq 1..Len(Given) /\ Len(Given) \in Nat /\ 1 \in FirstGiven
  BY EnrollmentAssumption DEF FirstGiven
<1>2. IsFiniteSet(1..Len(Given)) /\ Cardinality(1..Len(Given)) = Len(Given)
  BY <1>1, FS_Interval, 1 \in Int, Len(Given) \in Int
<1>3. IsFiniteSet(FirstGiven) /\ Cardinality(FirstGiven) <= Len(Given)
  BY <1>1, <1>2, FS_Subset
<1>4. Cardinality(FirstGiven) \in Nat /\ Cardinality(FirstGiven) # 0
  BY <1>1, <1>3, FS_CardinalityType, FS_EmptySet
<1>5. Len(Entrances) = Cardinality(FirstGiven)
  BY <1>4 DEF Entrances
<1> QED BY <1>3, <1>4, <1>5

LEMMA TryNextTypes ==
    ASSUME TypeOK, TryNext
    PROVE  /\ pc' \in {"asking", "down"} /\ reply' = "none"
           /\ at' \in 1..Len(Entrances)
           /\ UNCHANGED << key, bound, file, calm >>
<1>1. at \in 1..Len(Entrances) /\ Len(Entrances) \in Nat \ {0}
  BY SomeEntrance DEF TypeOK
<1> QED BY <1>1 DEF TryNext

LEMMA NextTypes == TypeOK /\ BindingInv /\ [Next]_vars => TypeOK'
<1> SUFFICES ASSUME TypeOK, BindingInv, [Next]_vars PROVE TypeOK'
  OBVIOUS
<1> USE DEF TypeOK
<1>1. CASE Start
  <2>1. 1 \in 1..Len(Entrances)
    BY SomeEntrance
  <2> QED BY <1>1, <2>1 DEF Start, FreshKeys
<1>2. CASE Send
  <2>1. Request \in [key : Keys, at : 1..Len(Entrances)]
    BY <1>2 DEF Send, Request, BindingInv, KeyInv
  <2> QED BY <1>2, <2>1 DEF Send
<1>3. CASE Unreachable \/ Refused
  BY <1>3, TryNextTypes DEF Unreachable, Refused
<1>4. CASE GivesUpWaiting
  <2>1. wasted' \in BOOLEAN
    BY <1>4 DEF GivesUpWaiting
  <2> QED BY <1>4, <2>1, TryNextTypes DEF GivesUpWaiting
<1>5. ASSUME NEW r \in sent, PanelReceives(r) PROVE TypeOK'
  <2>1. bound' \in Keys \cup {NoKey} /\ sent' \subseteq sent
    BY <1>5 DEF PanelReceives
  <2>2. reply' \in {"none", "ok", "refused"}
    BY <1>5 DEF PanelReceives
  <2>3. wasted' \in BOOLEAN
    BY <1>5 DEF PanelReceives
  <2> QED BY <1>5, <2>1, <2>2, <2>3 DEF PanelReceives
<1>6. CASE Lose
  BY <1>6 DEF Lose, Lost
<1>7. CASE Accepted \/ BecomeCalm
  BY <1>7 DEF Accepted, BecomeCalm
<1>8. CASE SaveState
  BY <1>8 DEF SaveState
<1>9. CASE Die
  <2>1. wasted' \in BOOLEAN
    BY <1>9 DEF Die
  <2> QED BY <1>9, <2>1 DEF Die
<1>10. CASE UNCHANGED vars
  BY <1>10 DEF vars
<1> QED BY <1>1, <1>2, <1>3, <1>4, <1>5, <1>6, <1>7, <1>8, <1>9, <1>10
        DEF Next, Receive

(* The agent asks only entrances there are, with keys it made, however     *)
(* many of them hang, refuse or repeat (enroll.go:131-142,                 *)
(* cmd_run.go:143-161).                                                    *)
THEOREM EnrollmentTypes == Spec => []TypeOK
<1>1. Init => TypeOK
  <2> SUFFICES ASSUME Init PROVE TypeOK
    OBVIOUS
  <2>1. 1 \in 1..Len(Entrances)
    BY SomeEntrance
  <2>2. calm \in BOOLEAN /\ wasted \in BOOLEAN
    BY DEF Init
  <2>3. sent \subseteq [key : Keys, at : 1..Len(Entrances)]
    BY DEF Init
  <2> QED BY <2>1, <2>2, <2>3 DEF Init, TypeOK
<1> QED BY <1>1, NextTypes, BindingInvariant, PTL DEF Spec
===========================================================================
