--------------------------- MODULE PullIdentity ---------------------------
(***************************************************************************)
(* The command configure-pull (cmd_configure_pull.go): it loads the state, *)
(* adds the settings of the incoming channel, saves it, and makes sure     *)
(* there is a TLS identity (EnsureCertificate, pull/server.go), whose      *)
(* certificate it prints for the panel to pin.  Each file is written to a  *)
(* .tmp and renamed.  A run may be killed or fail at every step, and two   *)
(* runs may overlap, since nothing locks the directory.                    *)
(***************************************************************************)
EXTENDS Naturals

CONSTANTS
    Runs,       \* the installers that may run it, each with its access key
    Ids,        \* the key pairs there are to generate
    Nobody      \* no run, no identity

ASSUME PullAssumption == Nobody \notin Runs /\ Nobody \notin Ids

Files == {"state", "key", "cert"}

(* What a file or its .tmp holds: nothing, something that does not parse,  *)
(* a half of a key pair, or a state: whether it holds the binding of the   *)
(* enrolment, and the access key.                                          *)
Missing == [kind |-> "missing"]
Garbage == [kind |-> "garbage"]
Half(i) == [kind |-> "half", id |-> i]
StateOf(b, r) == [kind |-> "state", bound |-> b, access |-> r]

VARIABLES
    file,       \* the files of the state directory
    tmp,        \* their .tmp
    pc,         \* the step of each run: "load", "open", "write", "rename",
                \* "check", "print", "done" or "failed" (or not begun)
    on,         \* the file it writes
    st,         \* the state each run has in memory: whether bound
    id,         \* the identity each run has generated or found
    sole,       \* history: the run that has had the directory to itself
                \* since it started, if there is one
    pinned,     \* history: the identity the panel pinned, while nothing but
                \* runs on their own touched the directory
    kept        \* history: a binding was there, and likewise

vars == << file, tmp, pc, on, st, id, sole, pinned, kept >>

Init ==
    /\ \E b \in BOOLEAN :
          /\ file = [f \in Files |-> IF f = "state" /\ b THEN StateOf(TRUE, Nobody)
                                     ELSE Missing]
          /\ kept = b
    /\ tmp = [f \in Files |-> Missing]
    /\ pc = [r \in Runs |-> "failed"]
    /\ on = [r \in Runs |-> "state"]
    /\ st = [r \in Runs |-> FALSE]
    /\ id = [r \in Runs |-> Nobody]
    /\ sole = Nobody
    /\ pinned = Nobody

Active(r) == pc[r] \notin {"done", "failed"}
Step(r, from, to) ==
    pc[r] = from /\ pc' = [pc EXCEPT ![r] = to]
StepToWrite(r, from, f) ==
    Step(r, from, "open") /\ on' = [on EXCEPT ![r] = f]

(* Something that no run on its own does has happened to the directory. *)
Disturbed == sole' = Nobody /\ pinned' = Nobody /\ kept' = FALSE

Begin(r) ==
    /\ ~Active(r)
    /\ pc' = [pc EXCEPT ![r] = "load"]
    /\ IF \E q \in Runs : Active(q)
       THEN Disturbed
       ELSE sole' = r /\ UNCHANGED << pinned, kept >>
    /\ st' = [st EXCEPT ![r] = FALSE]
    /\ id' = [id EXCEPT ![r] = Nobody]
    /\ UNCHANGED << file, tmp, on >>

(* The state on disk parses and has a binding. *)
Bound == \E r \in Runs \cup {Nobody} : file["state"] = StateOf(TRUE, r)

(* A slip: the settings of the channel replace the state. *)
LoadStateAnew(r) ==
    /\ StepToWrite(r, "load", "state")
    /\ st' = [st EXCEPT ![r] = FALSE]
    /\ UNCHANGED << file, tmp, id, sole, pinned, kept >>

(* A missing state is an empty one, and so is one that cannot be read.     *)
LoadState(r) ==
    /\ StepToWrite(r, "load", "state")
    /\ \/ /\ st' = [st EXCEPT ![r] = Bound]
          /\ UNCHANGED kept
       \/ /\ st' = [st EXCEPT ![r] = FALSE]
          /\ kept' = FALSE
    /\ UNCHANGED << file, tmp, id, sole, pinned >>

(* Save and writeSecret: WriteFile truncates and fills the .tmp, Rename    *)
(* puts it in place.                                                       *)
Wanted(r, f) == IF f = "state" THEN StateOf(st[r], r) ELSE Half(id[r])

Open(r) ==
    /\ Step(r, "open", "write")
    /\ tmp' = [tmp EXCEPT ![on[r]] = Garbage]
    /\ UNCHANGED << file, on, st, id, sole, pinned, kept >>

(* An overlapping run may have renamed the open file.                      *)
Write(r) ==
    /\ Step(r, "write", "rename")
    /\ \/ /\ tmp[on[r]] # Missing
          /\ tmp' = [tmp EXCEPT ![on[r]] = Wanted(r, on[r])]
          /\ UNCHANGED file
       \/ /\ sole # r
          /\ file' = [file EXCEPT ![on[r]] = Wanted(r, on[r])]
          /\ UNCHANGED tmp
    /\ UNCHANGED << on, st, id, sole, pinned, kept >>

Rename(r) ==
    /\ tmp[on[r]] # Missing
    /\ \/ on[r] = "state" /\ Step(r, "rename", "check") /\ UNCHANGED on
       \/ on[r] = "key" /\ StepToWrite(r, "rename", "cert")
       \/ on[r] = "cert" /\ Step(r, "rename", "print") /\ UNCHANGED on
    /\ file' = [file EXCEPT ![on[r]] = tmp[on[r]]]
    /\ tmp' = [tmp EXCEPT ![on[r]] = Missing]
    /\ UNCHANGED << st, id, sole, pinned, kept >>

(* The pair on disk: a certificate that parses, and its key. *)
Pair(i) == file["cert"] = Half(i) /\ file["key"] = Half(i)

FreshIds == {i \in Ids : /\ i # pinned
                         /\ \A r \in Runs : id[r] # i
                         /\ \A f \in Files : file[f] # Half(i) /\ tmp[f] # Half(i)}

(* Slips: the key is not looked at; a pair is made on every run. *)
FindCertificate(r) ==
    /\ Step(r, "check", "print")
    /\ \E i \in Ids : file["cert"] = Half(i) /\ id' = [id EXCEPT ![r] = i]
    /\ UNCHANGED << file, tmp, on, st, sole, pinned, kept >>

MakePairAlways(r) ==
    /\ StepToWrite(r, "check", "key")
    /\ \E i \in FreshIds : id' = [id EXCEPT ![r] = i]
    /\ UNCHANGED << file, tmp, st, sole, pinned, kept >>

(* EnsureCertificate keeps a whole pair, and otherwise makes a new one; so *)
(* it does when a file cannot be read.                                     *)
FindPair(r) ==
    /\ Step(r, "check", "print")
    /\ \E i \in Ids : Pair(i) /\ id' = [id EXCEPT ![r] = i]
    /\ UNCHANGED << file, tmp, on, st, sole, pinned, kept >>

MakePair(r) ==
    /\ StepToWrite(r, "check", "key")
    /\ \A i \in Ids : ~Pair(i)
    /\ \E i \in FreshIds : id' = [id EXCEPT ![r] = i]
    /\ UNCHANGED << file, tmp, st, sole, pinned, kept >>

MissPair(r) ==
    /\ StepToWrite(r, "check", "key")
    /\ \E i \in FreshIds : id' = [id EXCEPT ![r] = i]
    /\ pinned' = Nobody
    /\ UNCHANGED << file, tmp, st, sole, kept >>

(* The certificate is printed, and the panel pins it. *)
Output(r) ==
    /\ Step(r, "print", "done")
    /\ pinned' = IF sole = r THEN id[r] ELSE Nobody
    /\ UNCHANGED << file, tmp, on, st, id, sole, kept >>

(* A step fails or the run is killed: it leaves what it has done.          *)
Stops(r) ==
    /\ Active(r)
    /\ pc' = [pc EXCEPT ![r] = "failed"]
    /\ on' = [on EXCEPT ![r] = "state"]
    /\ st' = [st EXCEPT ![r] = FALSE]
    /\ id' = [id EXCEPT ![r] = Nobody]
    /\ UNCHANGED << file, tmp, sole, pinned, kept >>

(* A file is damaged or deleted by something else. *)
Damage(f) ==
    /\ \E c \in {Missing, Garbage} : file' = [file EXCEPT ![f] = c]
    /\ Disturbed
    /\ UNCHANGED << tmp, pc, on, st, id >>

Configure(r) ==
    \/ LoadState(r)
    \/ Open(r) \/ Write(r) \/ Rename(r)
    \/ FindPair(r) \/ MakePair(r) \/ MissPair(r)
    \/ Output(r)

Next ==
    \/ \E r \in Runs : Begin(r) \/ Configure(r) \/ Stops(r)
    \/ \E f \in Files : Damage(f)

Spec == Init /\ [][Next]_vars

--------------------------------------------------------------------------
(* Properties. *)

Contents ==
    {Missing, Garbage} \cup {Half(i) : i \in Ids \cup {Nobody}}
        \cup {StateOf(b, r) : b \in BOOLEAN, r \in Runs \cup {Nobody}}

TypeOK ==
    /\ file \in [Files -> Contents]
    /\ tmp \in [Files -> Contents]
    /\ pc \in [Runs -> {"load", "open", "write", "rename", "check", "print",
                       "done", "failed"}]
    /\ on \in [Runs -> Files]
    /\ st \in [Runs -> BOOLEAN]
    /\ id \in [Runs -> Ids \cup {Nobody}]
    /\ sole \in Runs \cup {Nobody}
    /\ pinned \in Ids \cup {Nobody}
    /\ kept \in BOOLEAN

(* A run that had the directory to itself leaves what it told the panel:   *)
(* the access key it was given, and a whole pair of the certificate it     *)
(* printed, whatever interrupted, overlapping or damaging steps came       *)
(* before it (cmd_configure_pull.go:42-58, server.go:42-92).               *)
RunAloneServes ==
    \A r \in Runs : sole = r /\ pc[r] = "done" =>
        /\ file["state"] = StateOf(st[r], r)
        /\ Pair(id[r])

(* A pinned identity outlives later runs, killed ones included: the panel  *)
(* need not pin another, and the service never finds half of it (server.go:*)
(* 41-55, README.md:37).                                                   *)
PinnedIsKept ==
    pinned # Nobody => Pair(pinned)

(* The binding of an agent enrolled before survives the change of channel, *)
(* killed runs included (cmd_configure_pull.go:42-50).                     *)
BindingKept ==
    kept => Bound

(* The inductive invariant: what the run that has the directory to itself  *)
(* has done by each of its steps, and that no other run is under way while *)
(* an identity is pinned or a binding kept.                                *)
Writing(r) == pc[r] \in {"open", "write", "rename"}
WritesPair(r) == Writing(r) /\ on[r] # "state"

SoleInv == \A r, q \in Runs : sole = r /\ q # r => ~Active(q)

ProgressInv ==
    \A r \in Runs : sole = r =>
        /\ pc[r] \in {"check", "print", "done"} \/ WritesPair(r) =>
              file["state"] = StateOf(st[r], r)
        /\ pc[r] = "rename" => tmp[on[r]] = Wanted(r, on[r])
        /\ WritesPair(r) /\ on[r] = "cert" => file["key"] = Half(id[r])
        /\ pc[r] \in {"print", "done"} => Pair(id[r])

PinnedInv ==
    pinned # Nobody =>
        /\ Pair(pinned)
        /\ \A r \in Runs : Active(r) => sole = r /\ ~WritesPair(r)

KeptInv ==
    kept =>
        /\ Bound
        /\ \A r \in Runs : Active(r) => sole = r /\ (pc[r] # "load" => st[r])

PullInv == TypeOK /\ SoleInv /\ ProgressInv /\ PinnedInv /\ KeptInv
==========================================================================
