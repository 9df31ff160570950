------------------------ MODULE PullIdentityProofs ------------------------
(***************************************************************************)
(* The promises of configure-pull, for any number of runs and identities.  *)
(***************************************************************************)
EXTENDS PullIdentity, TLAPS

LEMMA ContentsHold ==
    /\ Missing \in Contents /\ Garbage \in Contents
    /\ \A c \in BOOLEAN, r \in Runs \cup {Nobody} : StateOf(c, r) \in Contents
<1>1. Missing \in Contents /\ Garbage \in Contents
  BY DEF Contents
<1>2. ASSUME NEW c \in BOOLEAN, NEW r \in Runs \cup {Nobody}
      PROVE  StateOf(c, r) \in Contents
  BY DEF Contents
<1> QED BY <1>1, <1>2

LEMMA InitPull == Init => PullInv
<1> SUFFICES ASSUME Init PROVE PullInv
  OBVIOUS
<1>0. PICK b \in BOOLEAN :
          /\ file = [f \in Files |-> IF f = "state" /\ b THEN StateOf(TRUE, Nobody)
                                     ELSE Missing]
          /\ kept = b
  BY DEF Init
<1>1. TypeOK
  <2>1. Missing \in Contents /\ StateOf(TRUE, Nobody) \in Contents
    BY ContentsHold
  <2>2. file \in [Files -> Contents]
    BY <1>0, <2>1
  <2>3. tmp \in [Files -> Contents]
    BY <2>1 DEF Init
  <2>4. kept \in BOOLEAN
    BY <1>0
  <2>5. on \in [Runs -> Files]
    BY DEF Init, Files
  <2> QED BY <2>2, <2>3, <2>4, <2>5 DEF Init, TypeOK
<1>2. SoleInv /\ ProgressInv /\ PinnedInv
  BY PullAssumption DEF Init, SoleInv, ProgressInv, PinnedInv, Active, WritesPair, Writing
<1>3. KeptInv
  <2>1. ASSUME kept PROVE file["state"] = StateOf(TRUE, Nobody)
    BY <1>0, <2>1 DEF Files
  <2> QED BY <2>1 DEF Init, KeptInv, Active, Bound
<1> QED BY <1>1, <1>2, <1>3 DEF PullInv

LEMMA BeginInv ==
    ASSUME PullInv, NEW r \in Runs, Begin(r)
    PROVE  PullInv'
<1> USE DEF Disturbed
<1>1. /\ pc' = [pc EXCEPT ![r] = "load"] /\ pc'[r] = "load"
      /\ \A q \in Runs : q # r => pc'[q] = pc[q]
      /\ UNCHANGED << file, tmp, on >>
      /\ st' = [st EXCEPT ![r] = FALSE] /\ id' = [id EXCEPT ![r] = Nobody]
      /\ \A q \in Runs : q # r => st'[q] = st[q] /\ id'[q] = id[q]
      /\ ~Active(r)
  BY DEF Begin, PullInv, TypeOK
<1>2. TypeOK'
  BY <1>1 DEF Begin, PullInv, TypeOK
<1>3. CASE \E q \in Runs : Active(q)
  <2>1. sole' = Nobody /\ pinned' = Nobody /\ kept' = FALSE
    BY <1>3 DEF Begin
  <2> QED
    BY <1>2, <2>1, PullAssumption
       DEF PullInv, SoleInv, ProgressInv, PinnedInv, KeptInv
<1>4. CASE ~\E q \in Runs : Active(q)
  <2>1. sole' = r /\ UNCHANGED << pinned, kept >>
    BY <1>4 DEF Begin
  <2>2. \A q \in Runs : Active(q)' => q = r
    BY <1>1, <1>4 DEF Active
  <2>3. SoleInv'
    BY <2>1, <2>2 DEF SoleInv
  <2>4. ProgressInv'
    BY <1>1, <2>1 DEF ProgressInv, WritesPair, Writing
  <2>5. PinnedInv'
    BY <1>1, <2>1, <2>2 DEF PullInv, PinnedInv, WritesPair, Writing, Pair
  <2>6. KeptInv'
    BY <1>1, <2>1, <2>2 DEF PullInv, KeptInv, Bound
  <2> QED BY <1>2, <2>3, <2>4, <2>5, <2>6 DEF PullInv
<1> QED BY <1>3, <1>4

LEMMA LoadStateInv ==
    ASSUME PullInv, NEW r \in Runs, LoadState(r)
    PROVE  PullInv'
<1> USE DEF Step, StepToWrite
<1>1. /\ pc[r] = "load" /\ pc'[r] = "open" /\ on'[r] = "state"
      /\ \A q \in Runs : q # r => pc'[q] = pc[q] /\ on'[q] = on[q] /\ st'[q] = st[q]
      /\ UNCHANGED << file, tmp, id, sole, pinned >>
      /\ kept' => kept /\ st'[r] = Bound
      /\ kept' \in BOOLEAN
  <2>1. CASE st' = [st EXCEPT ![r] = Bound] /\ UNCHANGED kept
    BY <2>1 DEF LoadState, PullInv, TypeOK
  <2>2. CASE st' = [st EXCEPT ![r] = FALSE] /\ kept' = FALSE
    BY <2>2 DEF LoadState, PullInv, TypeOK
  <2> QED BY <2>1, <2>2 DEF LoadState
<1>2. TypeOK'
  <2>1. Bound \in BOOLEAN
    BY DEF Bound
  <2>2. st' \in [Runs -> BOOLEAN]
    BY <2>1 DEF LoadState, PullInv, TypeOK
  <2>3. pc' = [pc EXCEPT ![r] = "open"] /\ on' = [on EXCEPT ![r] = "state"]
    BY DEF LoadState
  <2>4. /\ pc' \in [Runs -> {"load", "open", "write", "rename", "check", "print",
                             "done", "failed"}]
        /\ on' \in [Runs -> Files]
    BY <2>3 DEF PullInv, TypeOK, Files
  <2> QED BY <1>1, <2>2, <2>4 DEF PullInv, TypeOK
<1>3. \A q \in Runs : Active(q)' => Active(q)
  BY <1>1 DEF Active
<1>4. \A q \in Runs : WritesPair(q)' => q # r /\ WritesPair(q)
  BY <1>1 DEF WritesPair, Writing
<1>5. SoleInv'
  BY <1>1, <1>3 DEF PullInv, SoleInv
<1>6. ProgressInv'
  <2> SUFFICES ASSUME NEW q \in Runs, sole = q
               PROVE /\ pc'[q] \in {"check", "print", "done"} \/ WritesPair(q)' =>
                           file["state"] = StateOf(st'[q], q)
                     /\ pc'[q] = "rename" => tmp[on'[q]] = Wanted(q, on[q])'
                     /\ WritesPair(q)' /\ on'[q] = "cert" => file["key"] = Half(id[q])
                     /\ pc'[q] \in {"print", "done"} => Pair(id[q])
    BY <1>1 DEF ProgressInv, Pair
  <2>1. CASE q = r
    BY <1>1, <1>4, <2>1
  <2>2. CASE q # r
    BY <1>1, <1>4, <2>2 DEF PullInv, ProgressInv, Wanted
  <2> QED BY <2>1, <2>2
<1>7. PinnedInv'
  BY <1>1, <1>3, <1>4 DEF PullInv, PinnedInv, Pair
<1>8. KeptInv'
  BY <1>1, <1>3 DEF PullInv, KeptInv, Bound, Active
<1> QED BY <1>2, <1>5, <1>6, <1>7, <1>8 DEF PullInv

(* Nobody else works while a run has the directory to itself. *)
LEMMA OthersRest ==
    ASSUME PullInv, NEW r \in Runs, Active(r)
    PROVE  /\ \A q \in Runs : sole = q => q = r
           /\ sole # Nobody => sole = r
           /\ pinned # Nobody => sole = r /\ Pair(pinned) /\ ~WritesPair(r)
           /\ kept => sole = r /\ Bound /\ (pc[r] # "load" => st[r])
BY DEF PullInv, TypeOK, SoleInv, PinnedInv, KeptInv

(* What is left to show of a step of r from pc[r]: the facts about r.      *)
LEMMA StepOfOne ==
    ASSUME PullInv, NEW r \in Runs, Active(r), TypeOK',
           \A q \in Runs : q # r => pc'[q] = pc[q] /\ st'[q] = st[q],
           sole' = sole,
           sole = r =>
              /\ pc'[r] \in {"check", "print", "done"} \/ WritesPair(r)' =>
                    file'["state"] = StateOf(st'[r], r)
              /\ pc'[r] = "rename" => tmp'[on'[r]] = Wanted(r, on[r])'
              /\ WritesPair(r)' /\ on'[r] = "cert" => file'["key"] = Half(id'[r])
              /\ pc'[r] \in {"print", "done"} => Pair(id[r])',
           pinned' # Nobody => Pair(pinned)' /\ ~WritesPair(r)' /\ sole = r,
           kept' => kept /\ Bound' /\ (Active(r)' /\ pc'[r] # "load" => st'[r])
    PROVE  PullInv'
<1>1. \A q \in Runs : q # r => (Active(q)' <=> Active(q))
  BY DEF Active
<1>2. SoleInv'
  BY <1>1 DEF PullInv, SoleInv
<1>3. ProgressInv'
  BY OthersRest DEF ProgressInv
<1>4. \A q \in Runs : sole = r /\ Active(q)' => q = r
  BY <1>1 DEF PullInv, SoleInv
<1>5. PinnedInv'
  BY <1>4 DEF PinnedInv
<1>6. KeptInv'
  BY <1>4, OthersRest DEF KeptInv
<1> QED BY <1>2, <1>3, <1>5, <1>6 DEF PullInv

LEMMA WriteInv ==
    ASSUME PullInv, NEW r \in Runs, Open(r) \/ Write(r)
    PROVE  PullInv'
<1> USE DEF Step
<1>1. /\ Active(r) /\ Writing(r) /\ Writing(r)'
      /\ pc'[r] \in {"write", "rename"}
      /\ \A q \in Runs : q # r => pc'[q] = pc[q]
      /\ UNCHANGED << on, st, id, sole, pinned, kept >>
      /\ sole = r => file' = file
      /\ pc'[r] = "rename" /\ sole = r => tmp' = [tmp EXCEPT ![on[r]] = Wanted(r, on[r])]
      /\ on[r] \in Files
  BY DEF Open, Write, Active, Writing, PullInv, TypeOK
<1>2. Wanted(r, on[r]) \in Contents /\ Garbage \in Contents
  BY DEF Wanted, Contents, PullInv, TypeOK
<1>3. /\ file' \in [Files -> Contents] /\ tmp' \in [Files -> Contents]
  BY <1>2 DEF Open, Write, PullInv, TypeOK
<1>4. pc' \in [Runs -> {"load", "open", "write", "rename", "check", "print",
                        "done", "failed"}]
  BY DEF Open, Write, PullInv, TypeOK
<1>5. TypeOK'
  BY <1>1, <1>3, <1>4 DEF PullInv, TypeOK
<1>6. WritesPair(r)' <=> WritesPair(r)
  BY <1>1 DEF WritesPair
<1>7. pc'[r] = "rename" /\ sole = r => tmp'[on'[r]] = Wanted(r, on[r])'
  BY <1>1 DEF Wanted, PullInv, TypeOK
<1>8. sole = r =>
         /\ WritesPair(r) => file'["state"] = StateOf(st[r], r)
         /\ WritesPair(r) /\ on[r] = "cert" => file'["key"] = Half(id[r])
  BY <1>1 DEF PullInv, ProgressInv
<1>9. pinned # Nobody => Pair(pinned)' /\ sole = r /\ ~WritesPair(r)
  BY <1>1, OthersRest DEF Pair
<1>10. kept => Bound' /\ (pc'[r] # "load" => st[r])
  BY <1>1, OthersRest DEF Bound, Writing
<1> QED BY <1>1, <1>5, <1>6, <1>7, <1>8, <1>9, <1>10, StepOfOne

LEMMA RenameInv ==
    ASSUME PullInv, NEW r \in Runs, Rename(r)
    PROVE  PullInv'
<1> USE DEF Step, StepToWrite
<1>1. /\ Active(r) /\ Writing(r) /\ pc[r] = "rename"
      /\ \A q \in Runs : q # r => pc'[q] = pc[q]
      /\ UNCHANGED << st, id, sole, pinned, kept >>
      /\ on[r] \in Files
      /\ file' = [file EXCEPT ![on[r]] = tmp[on[r]]]
      /\ file'[on[r]] = tmp[on[r]]
      /\ \A f \in Files : f # on[r] => file'[f] = file[f]
      /\ tmp' = [tmp EXCEPT ![on[r]] = Missing]
  BY DEF Rename, Active, Writing, PullInv, TypeOK
<1>2. /\ pc' \in [Runs -> {"load", "open", "write", "rename", "check", "print",
                           "done", "failed"}]
      /\ on' \in [Runs -> Files]
  BY DEF Rename, PullInv, TypeOK, Files
<1>3. Missing \in Contents
  BY DEF Contents
<1>4. file' \in [Files -> Contents] /\ tmp' \in [Files -> Contents]
  BY <1>1, <1>3 DEF PullInv, TypeOK
<1>5. TypeOK'
  BY <1>1, <1>2, <1>4 DEF PullInv, TypeOK
<1>6. sole = r => /\ tmp[on[r]] = Wanted(r, on[r])
                  /\ WritesPair(r) => file["state"] = StateOf(st[r], r)
                  /\ WritesPair(r) /\ on[r] = "cert" => file["key"] = Half(id[r])
  BY <1>1 DEF PullInv, ProgressInv
<1>7. CASE on[r] = "state"
  <2>1. pc'[r] = "check" /\ on'[r] = "state" /\ ~WritesPair(r)'
    BY <1>1, <1>7 DEF Rename, PullInv, TypeOK, WritesPair, Writing
  <2>2. sole = r => file'["state"] = StateOf(st[r], r)
    BY <1>1, <1>6, <1>7 DEF Wanted
  <2>3. pinned # Nobody => Pair(pinned)' /\ sole = r
    BY <1>1, <1>7, OthersRest DEF Pair, Files
  <2>4. kept => Bound' /\ st[r]
    <3>1. kept => sole = r /\ st[r]
      BY <1>1, OthersRest
    <3>2. st[r] \in BOOLEAN
      BY DEF PullInv, TypeOK
    <3>3. kept => file'["state"] = StateOf(TRUE, r)
      BY <3>1, <3>2, <2>2
    <3> QED BY <3>1, <3>3 DEF Bound
  <2> QED BY <1>1, <1>5, <2>1, <2>2, <2>3, <2>4, StepOfOne
<1>8. CASE on[r] = "key"
  <2>1. pc'[r] = "open" /\ on'[r] = "cert" /\ WritesPair(r)
    BY <1>1, <1>8 DEF Rename, PullInv, TypeOK, WritesPair
  <2>2. sole = r => file'["state"] = StateOf(st[r], r) /\ file'["key"] = Half(id[r])
    BY <1>1, <1>6, <1>8, <2>1 DEF Wanted, Files
  <2>3. pinned = Nobody
    BY <1>1, <2>1, OthersRest
  <2>4. kept => Bound' /\ st[r]
    BY <1>1, <1>8, OthersRest DEF Bound, Files
  <2> QED BY <1>1, <1>5, <2>1, <2>2, <2>3, <2>4, StepOfOne
<1>9. CASE on[r] = "cert"
  <2>1. pc'[r] = "print" /\ on'[r] = "cert" /\ WritesPair(r) /\ ~WritesPair(r)'
    BY <1>1, <1>9 DEF Rename, PullInv, TypeOK, WritesPair, Writing
  <2>2. sole = r => file'["state"] = StateOf(st[r], r) /\ Pair(id[r])'
    BY <1>1, <1>6, <1>9, <2>1 DEF Wanted, Files, Pair
  <2>3. pinned = Nobody
    BY <1>1, <2>1, OthersRest
  <2>4. kept => Bound' /\ st[r]
    BY <1>1, <1>9, OthersRest DEF Bound, Files
  <2> QED BY <1>1, <1>5, <2>1, <2>2, <2>3, <2>4, StepOfOne
<1> QED BY <1>1, <1>7, <1>8, <1>9 DEF Files

LEMMA PairInv ==
    ASSUME PullInv, NEW r \in Runs, FindPair(r) \/ MakePair(r) \/ MissPair(r)
    PROVE  PullInv'
<1> USE DEF Step, StepToWrite
<1>1. /\ Active(r) /\ pc[r] = "check"
      /\ \A q \in Runs : q # r => pc'[q] = pc[q]
      /\ UNCHANGED << file, tmp, st, sole, kept >>
  BY DEF FindPair, MakePair, MissPair, Active, PullInv, TypeOK
<1>2. /\ pc' \in [Runs -> {"load", "open", "write", "rename", "check", "print",
                           "done", "failed"}]
      /\ on' \in [Runs -> Files]
  BY DEF FindPair, MakePair, MissPair, PullInv, TypeOK, Files
<1>3. id' \in [Runs -> Ids \cup {Nobody}] /\ pinned' \in {pinned, Nobody}
  BY DEF FindPair, MakePair, MissPair, FreshIds, PullInv, TypeOK
<1>4. TypeOK'
  BY <1>1, <1>2, <1>3 DEF PullInv, TypeOK
<1>5. sole = r => file["state"] = StateOf(st[r], r)
  BY <1>1 DEF PullInv, ProgressInv
<1>6. kept => sole = r /\ Bound' /\ st[r]
  BY <1>1, OthersRest DEF Bound
<1>7. CASE FindPair(r)
  <2>1. pc'[r] = "print" /\ ~WritesPair(r)' /\ pinned' = pinned /\ Pair(id'[r])
    BY <1>7, <1>1 DEF FindPair, PullInv, TypeOK, WritesPair, Writing
  <2>2. Pair(id[r])'
    BY <1>1, <2>1 DEF Pair
  <2>3. pinned # Nobody => Pair(pinned)' /\ sole = r
    BY <1>1, <2>1, OthersRest DEF Pair
  <2> QED BY <1>1, <1>4, <1>5, <1>6, <2>1, <2>2, <2>3, StepOfOne
<1>8. CASE MakePair(r) \/ MissPair(r)
  <2>1. pc'[r] = "open" /\ on'[r] = "key"
    BY <1>8, <1>1 DEF MakePair, MissPair, PullInv, TypeOK, WritesPair, Writing
  <2>2. pinned' = Nobody
    <3>1. CASE MakePair(r)
      <4>1. pinned' = pinned /\ \A i \in Ids : ~Pair(i)
        BY <3>1 DEF MakePair
      <4>2. pinned # Nobody => Pair(pinned) /\ pinned \in Ids
        BY <1>1, OthersRest DEF PullInv, TypeOK
      <4> QED BY <4>1, <4>2
    <3>2. CASE MissPair(r)
      BY <3>2 DEF MissPair
    <3> QED BY <1>8, <3>1, <3>2
  <2> QED BY <1>1, <1>4, <1>5, <1>6, <2>1, <2>2, StepOfOne
<1> QED BY <1>7, <1>8

LEMMA EndInv ==
    ASSUME PullInv, NEW r \in Runs, Output(r) \/ Stops(r)
    PROVE  PullInv'
<1> USE DEF Step
<1>1. /\ Active(r) /\ pc'[r] \in {"done", "failed"}
      /\ \A q \in Runs : q # r => pc'[q] = pc[q] /\ st'[q] = st[q]
      /\ UNCHANGED << file, tmp, sole, kept >>
      /\ ~WritesPair(r)' /\ ~Active(r)'
  BY DEF Output, Stops, Active, PullInv, TypeOK, WritesPair, Writing
<1>2. TypeOK'
  <2>1. pc' \in [Runs -> {"load", "open", "write", "rename", "check", "print",
                          "done", "failed"}]
    BY DEF Output, Stops, PullInv, TypeOK
  <2>2. on' \in [Runs -> Files] /\ st' \in [Runs -> BOOLEAN]
        /\ id' \in [Runs -> Ids \cup {Nobody}]
    BY DEF Output, Stops, PullInv, TypeOK, Files
  <2>3. pinned' \in Ids \cup {Nobody}
    BY DEF Output, Stops, PullInv, TypeOK
  <2> QED BY <1>1, <2>1, <2>2, <2>3 DEF PullInv, TypeOK
<1>3. kept => Bound'
  BY <1>1, OthersRest DEF Bound
<1>4. CASE Output(r)
  <2>1. /\ pc[r] = "print" /\ pc'[r] = "done" /\ st' = st /\ id' = id
        /\ pinned' = IF sole = r THEN id[r] ELSE Nobody
    BY <1>4 DEF Output, PullInv, TypeOK
  <2>2. sole = r => file["state"] = StateOf(st[r], r) /\ Pair(id[r])
    BY <2>1 DEF PullInv, ProgressInv
  <2>3. sole = r => file'["state"] = StateOf(st'[r], r) /\ Pair(id[r])'
    BY <1>1, <2>1, <2>2 DEF Pair
  <2>4. pinned' # Nobody => Pair(pinned)' /\ sole = r
    BY <1>1, <2>1, <2>2 DEF Pair
  <2> QED BY <1>1, <1>2, <1>3, <2>1, <2>3, <2>4, StepOfOne
<1>5. CASE Stops(r)
  <2>1. pc'[r] = "failed" /\ pinned' = pinned
    BY <1>5 DEF Stops, PullInv, TypeOK
  <2>2. pinned # Nobody => Pair(pinned)' /\ sole = r
    BY <1>1, <2>1, OthersRest DEF Pair
  <2> QED BY <1>1, <1>2, <1>3, <2>1, <2>2, StepOfOne
<1> QED BY <1>4, <1>5

LEMMA DamageInv ==
    ASSUME PullInv, NEW f \in Files, Damage(f)
    PROVE  PullInv'
<1>1. /\ sole' = Nobody /\ pinned' = Nobody /\ kept' = FALSE
      /\ UNCHANGED << tmp, pc, on, st, id >>
  BY DEF Damage, Disturbed
<1>2. TypeOK'
  <2>1. Missing \in Contents /\ Garbage \in Contents
    BY DEF Contents
  <2>2. file' \in [Files -> Contents]
    BY <2>1 DEF Damage, PullInv, TypeOK
  <2> QED BY <1>1, <2>2 DEF PullInv, TypeOK
<1>3. SoleInv' /\ ProgressInv' /\ PinnedInv' /\ KeptInv'
  BY <1>1, PullAssumption DEF SoleInv, ProgressInv, PinnedInv, KeptInv
<1> QED BY <1>2, <1>3 DEF PullInv

--------------------------------------------------------------------------
(* What each step of configure-pull has achieved holds in every state, for *)
(* any runs, kills, overlaps and damage (cmd_configure_pull.go:24-60,      *)
(* server.go:42-103).                                                      *)
THEOREM PullInvariant == Spec => []PullInv
<1>1. ASSUME PullInv, [Next]_vars PROVE PullInv'
  <2>1. ASSUME NEW r \in Runs, Begin(r) \/ Configure(r) \/ Stops(r) PROVE PullInv'
    BY <1>1, <2>1, BeginInv, LoadStateInv, WriteInv, RenameInv, PairInv, EndInv
       DEF Configure
  <2>2. ASSUME NEW f \in Files, Damage(f) PROVE PullInv'
    BY <1>1, <2>2, DamageInv
  <2>3. CASE UNCHANGED vars
    BY <1>1, <2>3
       DEF vars, PullInv, TypeOK, SoleInv, ProgressInv, PinnedInv, KeptInv, Active,
           WritesPair, Writing, Wanted, Pair, Bound
  <2> QED BY <1>1, <2>1, <2>2, <2>3 DEF Next
<1> QED BY <1>1, InitPull, PTL DEF Spec

(* A run that had the directory to itself leaves the access key it was     *)
(* given and a whole pair of the certificate it printed (server.go:42-92). *)
THEOREM RunAloneServesTheorem == Spec => []RunAloneServes
<1>1. PullInv => RunAloneServes
  BY DEF PullInv, ProgressInv, RunAloneServes
<1> QED BY <1>1, PullInvariant, PTL

(* A pinned identity outlives later runs, killed ones included             *)
(* (server.go:41-55).                                                      *)
THEOREM PinnedIsKeptTheorem == Spec => []PinnedIsKept
<1>1. PullInv => PinnedIsKept
  BY DEF PullInv, PinnedInv, PinnedIsKept
<1> QED BY <1>1, PullInvariant, PTL

(* The binding of the enrolment survives configure-pull                    *)
(* (cmd_configure_pull.go:42-50).                                          *)
THEOREM BindingKeptTheorem == Spec => []BindingKept
<1>1. PullInv => BindingKept
  BY DEF PullInv, KeptInv, BindingKept
<1> QED BY <1>1, PullInvariant, PTL
==========================================================================
