---------------------------- MODULE Installer ----------------------------
(***************************************************************************)
(* scripts/install.sh: an installation as a transaction on the binary, the *)
(* environment file, the unit and the state directory, with the rollback   *)
(* of its exit trap, beside the systemd service it replaces and perhaps a  *)
(* duplicate agent.  It ends committed, rolled back, failed before the     *)
(* first change, stuck in its rollback (`set -e` holds in the trap), or    *)
(* killed.  systemctl is taken to do what it is told.                      *)
(***************************************************************************)
EXTENDS Integers

CONSTANTS
    MaxInstalls,    \* bound: the installations in a behaviour
    MaxTries        \* 10: the looks at the new service

ASSUME InstallAssumption ==
    MaxInstalls \in Nat \ {0} /\ MaxTries \in Nat \ {0}

Files == {"bin", "env", "unit"}

(* What a file holds: what installation 1.. put there (0 is the one found  *)
(* at the start), nothing, or rubbish.                                     *)
Versions == 0..MaxInstalls
Missing == -1
Broken == -2
None == -3
Contents == Versions \cup {Missing, Broken}

(* state.json: whether it has the binding of an enrolment, and Pull.       *)
States == [bound : BOOLEAN, pull : BOOLEAN]
NoState == [bound |-> FALSE, pull |-> FALSE]     \* no file, or no copy of one

VARIABLES
    file, state, enabled,
    service,        \* "off", "starting", "running", "pause" (RestartSec)
    runs,           \* what the service does: "enrol", "out", "pull"
    duplicate,      \* what a second agent does: "none", "out", "pull"
    pc, n,          \* the step, and the number, of the installation
    mode,           \* what each installation is to set up: "out", "pull"
    tries,
    backup,         \* the copy of each file, or None (HAD_... = 0)
    oldState,       \* $TMP/old-state
    wasActive, wasEnabled,
    before,         \* history: files, state and enabled at the start
    saved,          \* history: an agent has saved its state since the start
    overwritten,    \* history: so has the duplicate
    cutShort        \* history: an installation was killed, or a backup or a
                    \* restore failed, and no installation has succeeded since

machine == << file, state, enabled >>
agents == << service, runs, duplicate >>
copies == << backup, oldState, wasActive, wasEnabled >>
history == << before, saved, overwritten, cutShort >>
vars == << machine, agents, pc, n, mode, tries, copies, history >>

Here == [file |-> file, state |-> state, enabled |-> enabled]

(* Nothing, an older installation, or what is left of one cut short.       *)
Init ==
    /\ file \in [Files -> {0, Missing}]
    /\ cutShort = \E f, g \in Files : file[f] # file[g]
    /\ state \in States
    /\ file["unit"] = Missing /\ ~cutShort => state = NoState
    /\ enabled = (file["unit"] # Missing)
    /\ service = IF enabled THEN "starting" ELSE "off"
    /\ runs = "enrol"
    /\ duplicate \in {"none"} \cup (IF state.pull THEN {"pull"} ELSE {})
                              \cup (IF state.bound THEN {"out"} ELSE {})
    /\ pc = "committed" /\ n = 0
    /\ mode \in [Versions -> {"out", "pull"}]
    /\ mode[0] = IF state.pull THEN "pull" ELSE "out"
    /\ tries = 0
    /\ backup = [f \in Files |-> None] /\ oldState = NoState
    /\ wasActive = FALSE /\ wasEnabled = FALSE
    /\ before = Here /\ saved = FALSE /\ overwritten = FALSE

Ended == {"committed", "rolledBack", "failed", "stuck", "killed"}
Untouched == {"download", "backup", "stop"}     \* INSTALL_CHANGED = 0
Pull == mode[n] = "pull"

Step(from, to) == pc = from /\ pc' = to

--------------------------------------------------------------------------
(* Up to the first change. *)

Begin ==
    /\ pc \in Ended /\ n < MaxInstalls
    /\ pc' = "download" /\ n' = n + 1 /\ tries' = 0
    /\ before' = Here /\ saved' = FALSE /\ overwritten' = FALSE
    /\ backup' = [f \in Files |-> None] /\ oldState' = NoState
    /\ wasActive' = FALSE /\ wasEnabled' = FALSE
    /\ UNCHANGED << machine, agents, mode, cutShort >>

Download ==
    /\ \/ Step("download", "backup")
       \/ Step("download", "failed")
    /\ UNCHANGED << machine, agents, n, mode, tries, copies, history >>

CopyOf(Bad, rest) ==
    [f \in Files |-> IF file[f] = Missing THEN None
                     ELSE IF f \in Bad THEN rest ELSE file[f]]

(* A slip: a state directory that cannot be copied is not an error. *)
BackUpLeniently ==
    /\ Step("backup", "stop")
    /\ backup' = CopyOf({}, Missing)
    /\ oldState' \in {state, NoState}
    /\ UNCHANGED << machine, agents, n, mode, tries, wasActive, wasEnabled, history >>

(* A copy of a file may fail and still count (HAD_...=1), since `set -e`   *)
(* is off in an && list; the copy of the state directory may not.          *)
BackUp ==
    /\ \/ /\ Step("backup", "stop")
          /\ oldState' = state
       \/ /\ Step("backup", "failed")
          /\ UNCHANGED oldState
    /\ \E Bad \in SUBSET {f \in Files : file[f] # Missing}, rest \in {Missing, Broken} :
          /\ backup' = CopyOf(Bad, rest)
          /\ cutShort' = (cutShort \/ Bad # {})
    /\ UNCHANGED << machine, agents, n, mode, tries, wasActive, wasEnabled,
                    before, saved, overwritten >>

(* A slip: the old service runs on. *)
StopOldNot ==
    /\ Step("stop", "port")
    /\ wasActive' = (service = "running")
    /\ wasEnabled' = enabled
    /\ UNCHANGED << machine, agents, n, mode, tries, backup, oldState, history >>

(* The service in its pause between restarts is not "active". *)
StopOld ==
    /\ Step("stop", "port")
    /\ wasActive' = (service = "running")
    /\ wasEnabled' = enabled
    /\ service' = "off"
    /\ UNCHANGED << machine, runs, duplicate, n, mode, tries, backup,
                    oldState, history >>

--------------------------------------------------------------------------
(* The changes.  Each step may fail; the trap then rolls back.             *)

(* The port may be another program's. *)
CheckPort ==
    /\ \/ Step("port", "bin") /\ (Pull => duplicate # "pull")
       \/ Step("port", "rollback") /\ Pull
    /\ UNCHANGED << machine, agents, n, mode, tries, copies, history >>

Put(f, from, to) ==
    /\ \/ /\ Step(from, to)
          /\ file' = [file EXCEPT ![f] = n]
       \/ /\ Step(from, "rollback")
          /\ \E rest \in {file[f], Broken} : file' = [file EXCEPT ![f] = rest]
    /\ UNCHANGED << state, enabled, agents, n, mode, tries, copies, history >>

InstallBinary == Put("bin", "bin", "configure")

(* configure-pull, in incoming mode only; it keeps the binding.            *)
Configure ==
    /\ IF Pull
       THEN \/ Step("configure", "env") /\ state' = [state EXCEPT !.pull = TRUE]
            \/ Step("configure", "rollback") /\ state' \in {state, [state EXCEPT !.pull = TRUE]}
       ELSE Step("configure", "env") /\ UNCHANGED state
    /\ UNCHANGED << file, enabled, agents, n, mode, tries, copies, history >>

WriteEnvironment == Put("env", "env", "unit")
WriteUnit == Put("unit", "unit", "start")

(* A slip: the service is started and not enabled. *)
StartNewOnce ==
    /\ \/ Step("start", "poll") /\ service' = "starting"
       \/ Step("start", "rollback") /\ UNCHANGED service
    /\ UNCHANGED << machine, runs, duplicate, n, mode, tries, copies, history >>

StartNew ==
    /\ \/ /\ Step("start", "poll")
          /\ enabled' = TRUE /\ service' = "starting"
       \/ /\ Step("start", "rollback")
          /\ enabled' \in BOOLEAN /\ service' \in {service, "starting"}
    /\ UNCHANGED << file, state, runs, duplicate, n, mode, tries,
                    copies, history >>

(* Active, and in incoming mode listening. *)
LooksStarted == service = "running" /\ (Pull => runs = "pull")

(* A slip: the tries are not counted. *)
PollForEver ==
    /\ UNCHANGED tries
    /\ \/ Step("poll", "duplicates") /\ LooksStarted
       \/ Step("poll", "poll") /\ ~LooksStarted
    /\ UNCHANGED << machine, agents, n, mode, copies, history >>

Poll ==
    /\ tries' = tries + 1
    /\ \/ Step("poll", "duplicates") /\ LooksStarted
       \/ Step("poll", "poll") /\ ~LooksStarted /\ tries' < MaxTries
       \/ Step("poll", "rollback") /\ ~LooksStarted /\ tries' = MaxTries
    /\ UNCHANGED << machine, agents, n, mode, copies, history >>

CleanupDuplicates ==
    /\ Step("duplicates", "firewall")
    /\ duplicate' = "none"
    /\ UNCHANGED << machine, service, runs, n, mode, tries, copies, history >>

(* Rules of the firewall are not modelled; only adding one may fail.       *)
Firewall ==
    /\ \/ /\ Step("firewall", "committed")
          /\ oldState' = NoState /\ cutShort' = FALSE
       \/ /\ Step("firewall", "rollback") /\ Pull
          /\ UNCHANGED << oldState, cutShort >>
    /\ UNCHANGED << file, state, enabled, agents, n, mode, tries, backup,
                    wasActive, wasEnabled, before, saved, overwritten >>

--------------------------------------------------------------------------
(* The trap. *)

Restorable(f) == backup[f] # Missing

(* Slips: HAD_... is not looked at; the environment file is forgotten. *)
RestoredUnasked(f) == backup[f]
RestoredButEnv(f) ==
    IF f = "env" THEN file[f] ELSE IF backup[f] = None THEN Missing ELSE backup[f]

Restored(f) == IF backup[f] = None THEN Missing ELSE backup[f]

(* The service is stopped, the files put back one by one.  The first one   *)
(* that fails ends the trap: there is no copy, the disk is full, or the    *)
(* duplicate still executes the old binary.                                *)
RestoreFiles ==
    /\ \/ /\ Step("rollback", "erase")
          /\ \A f \in Files : Restorable(f)
          /\ file' = [f \in Files |-> Restored(f)]
          /\ UNCHANGED cutShort
       \/ /\ Step("rollback", "stuck")
          /\ \E Done \in {{}, {"bin"}, {"bin", "env"}} :
                /\ \A f \in Done : Restorable(f)
                /\ file' = [f \in Files |-> IF f \in Done THEN Restored(f) ELSE file[f]]
          /\ cutShort' = TRUE
    /\ service' = "off"
    /\ UNCHANGED << state, enabled, runs, duplicate, n, mode, tries,
                    copies, before, saved, overwritten >>

EraseState ==
    /\ Step("erase", "copy")
    /\ state' = NoState
    /\ UNCHANGED << file, enabled, agents, n, mode, tries, copies, history >>

(* A directory that is there again gets the copy inside it.                *)
CopyStateBack ==
    /\ \/ /\ Step("copy", "revive")
          /\ state' = IF state = NoState THEN oldState ELSE state
          /\ UNCHANGED cutShort
       \/ /\ Step("copy", "stuck") /\ oldState # NoState
          /\ state' \in {state, oldState}
          /\ cutShort' = TRUE
    /\ UNCHANGED << file, enabled, agents, n, mode, tries, copies,
                    before, saved, overwritten >>

ReviveOld ==
    /\ Step("revive", "rolledBack")
    /\ enabled' = wasEnabled
    /\ service' = IF wasActive THEN "starting" ELSE "off"
    /\ oldState' = NoState
    /\ UNCHANGED << file, state, runs, duplicate, n, mode, tries,
                    backup, wasActive, wasEnabled, history >>

(* A signal ends sh without its trap. *)
Killed ==
    /\ pc \notin Ended
    /\ pc' = "killed"
    /\ cutShort' = (cutShort \/ pc \notin Untouched)
    /\ UNCHANGED << machine, agents, n, mode, tries, copies, before, saved, overwritten >>

--------------------------------------------------------------------------
(* systemd, the agents and the machine. *)

(* run: an incoming channel in the state goes before all else.             *)
ServiceStarts ==
    /\ service \in {"starting", "pause"}
    /\ file["bin"] \in Versions /\ file["unit"] \in Versions
    /\ service' = "running"
    /\ runs' = IF state.pull THEN "pull" ELSE IF state.bound THEN "out" ELSE "enrol"
    /\ UNCHANGED << machine, duplicate, pc, n, mode, tries, copies, history >>

ServiceDies ==
    /\ service \in {"starting", "running"}
    /\ service' \in {"pause"} \cup (IF runs = "out" THEN {"off"} ELSE {})
    /\ UNCHANGED << machine, runs, duplicate, pc, n, mode, tries, copies, history >>

(* The token of the environment file may still be good for a binding.      *)
ServiceEnrols ==
    /\ service = "running" /\ runs = "enrol"
    /\ file["env"] \in Versions
    /\ mode[file["env"]] = "out"
    /\ \/ /\ runs' = "out" /\ state' = [state EXCEPT !.bound = TRUE]
          /\ saved' = TRUE /\ UNCHANGED service
       \/ /\ service' = "pause" /\ UNCHANGED << runs, state, saved >>
    /\ UNCHANGED << file, enabled, duplicate, pc, n, mode, tries, copies,
                    before, overwritten, cutShort >>

(* The duplicate in outgoing mode got a new list of routes, and saves the  *)
(* state as it knows it.                                                   *)
DuplicateSaves ==
    /\ duplicate = "out"
    /\ state' = [bound |-> TRUE, pull |-> FALSE]
    /\ saved' = TRUE /\ overwritten' = TRUE
    /\ UNCHANGED << file, enabled, agents, pc, n, mode, tries, copies,
                    before, cutShort >>

Reboot ==
    /\ pc \in Ended
    /\ service' = IF enabled THEN "starting" ELSE "off"
    /\ duplicate' = "none"
    /\ UNCHANGED << machine, runs, pc, n, mode, tries, copies, history >>

Install ==
    \/ BackUp \/ StopOld \/ CheckPort \/ InstallBinary \/ Configure
    \/ WriteEnvironment \/ WriteUnit \/ StartNew \/ Poll \/ CleanupDuplicates
    \/ Firewall \/ RestoreFiles \/ EraseState \/ CopyStateBack \/ ReviveOld

Next ==
    \/ Begin \/ Download \/ Install \/ Killed
    \/ ServiceStarts \/ ServiceDies \/ ServiceEnrols \/ DuplicateSaves \/ Reboot

Spec == Init /\ [][Next]_vars

(* The commands of the script end, but a download has no timeout.          *)
FairSpec == Spec /\ WF_vars(Install)

--------------------------------------------------------------------------
(* Properties. *)

TypeOK ==
    /\ file \in [Files -> Contents] /\ state \in States
    /\ enabled \in BOOLEAN
    /\ service \in {"off", "starting", "running", "pause"}
    /\ runs \in {"enrol", "out", "pull"}
    /\ duplicate \in {"none", "out", "pull"}
    /\ pc \in Ended \cup Untouched
           \cup {"port", "bin", "configure", "env", "unit", "start", "poll",
                 "duplicates", "firewall", "rollback", "erase", "copy", "revive"}
    /\ n \in Versions /\ mode \in [Versions -> {"out", "pull"}]
    /\ tries \in 0..MaxTries
    /\ backup \in [Files -> Contents \cup {None}]
    /\ oldState \in States
    /\ wasActive \in BOOLEAN /\ wasEnabled \in BOOLEAN
    /\ before \in [file : [Files -> Contents], state : States, enabled : BOOLEAN]
    /\ saved \in BOOLEAN /\ overwritten \in BOOLEAN /\ cutShort \in BOOLEAN

(* A rollback that runs to its end brings back the installation as it was, *)
(* whichever step failed: the files it has good copies of, the enabled     *)
(* service, and the state, unless an agent saved one meanwhile             *)
(* (install.sh:130-155, 165-174).                                          *)
RollbackRestores ==
    pc = "rolledBack" =>
        /\ \A f \in Files : file[f] = before.file[f] \/ (cutShort /\ file[f] = Broken)
        /\ enabled = before.enabled
        /\ state = before.state \/ saved

(* The binding an installation finds is never without a copy, at no step   *)
(* of it, of its rollback, and after it was killed: it is in the state     *)
(* directory or in the backup, as long as /tmp lasts (install.sh:139-140,  *)
(* 170, 194).                                                              *)
BindingKept ==
    before.state.bound =>
        state.bound \/ oldState.bound

(* The service never runs on parts of two installations, while systemd     *)
(* restarts it, machines reboot and installations fail, unless one was cut *)
(* short (install.sh:135, 173, 254-255).                                   *)
NothingRunsMixed ==
    service = "running" /\ ~cutShort =>
        file["bin"] = file["env"] /\ file["env"] = file["unit"]

(* After an installation of incoming mode the service is the incoming one, *)
(* over restarts and reboots, unless a duplicate in outgoing mode has      *)
(* written over the state before it was removed (install.sh:191-203, 257-  *)
(* 275; cmd_run.go:68).                                                    *)
IncomingServes ==
    pc = "committed" /\ n > 0 /\ Pull /\ ~overwritten =>
        /\ state.pull /\ enabled
        /\ service = "running" => runs = "pull"

(* An installation that has begun to change things ends by itself, be the  *)
(* service it started healthy, dead or restarting for ever (install.sh:    *)
(* 174-292).                                                               *)
InstallationEnds ==
    pc \notin Ended \cup {"download"} ~> pc \in Ended

(* "A manual installation switches the agent back to outgoing mode: the    *)
(* old incoming port is no longer listened to" (install.sh:288).  It is,   *)
(* if state.json has the incoming channel: nothing removes it, and run     *)
(* goes by it (cmd_run.go:68).                                             *)
ModeRequestedRuns ==
    pc = "committed" /\ n > 0 /\ ~Pull /\ service = "running" => runs # "pull"

--------------------------------------------------------------------------
(* The inductive invariant: what the steps between a Begin and the end of  *)
(* the trap rely on.                                                       *)

Uniform(files) == files["bin"] = files["env"] /\ files["env"] = files["unit"]

Unchanged == Untouched \cup {"port", "bin"}
Written == {"start", "poll", "duplicates", "firewall"}
Restoring == {"erase", "copy", "revive"}
BackedUp == {"stop", "port", "bin", "configure", "env", "unit", "rollback"}
               \cup Written \cup Restoring

(* The limit of the looks, and a number for every installation. *)
CountInv ==
    /\ pc \notin Ended => n > 0
    /\ pc \in Unchanged \cup {"configure", "env", "unit", "start", "poll"} => tries < MaxTries

(* How far the new files are in place, and what the trap has put back.     *)
FileInv ==
    /\ pc \in Unchanged \cup {"failed"} => file = before.file
    /\ pc \in {"configure", "env", "unit"} \cup Written => file["bin"] = n
    /\ pc \in {"unit"} \cup Written => file["env"] = n
    /\ pc \in Written => file["unit"] = n
    /\ pc \in Restoring \cup {"rolledBack"} =>
          \A f \in Files : file[f] = before.file[f] \/ (cutShort /\ file[f] = Broken)

(* The copies are of what the installation found; the slips of `cp` show.  *)
BackupInv ==
    pc \in BackedUp =>
        \A f \in Files :
            IF before.file[f] = Missing THEN backup[f] = None
            ELSE backup[f] = before.file[f] \/ (cutShort /\ backup[f] \in {Missing, Broken})

EnabledInv ==
    /\ pc \in Unchanged \cup {"configure", "env", "unit", "start", "failed", "rolledBack"} =>
          enabled = before.enabled
    /\ pc \in BackedUp \ {"stop"} => wasEnabled = before.enabled

(* The state is the one found, or one an agent saved since. *)
StateInv ==
    /\ pc \in Unchanged \cup {"configure", "revive", "rolledBack", "failed"} =>
          state = before.state \/ saved
    /\ pc \in BackedUp => oldState = before.state \/ saved
    /\ pc = "copy" => state = NoState \/ (saved /\ state.bound)

(* Where the binding is. *)
BindingInv ==
    before.state.bound =>
        /\ pc \notin {"copy", "stuck", "killed"} => state.bound
        /\ pc \in BackedUp => oldState.bound
        /\ state.bound \/ oldState.bound

(* No agent is started while the files are of two installations.           *)
ServiceInv ==
    /\ pc \in {"port", "bin", "configure", "env", "unit", "start"} \cup Restoring =>
          service = "off"
    /\ pc = "rollback" /\ service # "off" => Uniform(file)
    /\ pc \in Ended \cup Unchanged /\ ~cutShort => Uniform(file)
    /\ pc # "committed" /\ ~cutShort => Uniform(before.file)

(* The incoming channel, once it is in the state, is what a restart takes. *)
IncomingInv ==
    n > 0 /\ Pull /\ ~overwritten =>
        /\ pc \in {"env", "unit", "committed"} \cup Written => state.pull
        /\ pc \in {"poll", "duplicates", "firewall", "committed"} => enabled
        /\ pc \in {"duplicates", "firewall", "committed"} /\ service = "running" =>
              runs = "pull"

InstallInv ==
    /\ TypeOK /\ CountInv /\ FileInv /\ BackupInv /\ EnabledInv /\ StateInv
    /\ BindingInv /\ ServiceInv /\ IncomingInv
==========================================================================
