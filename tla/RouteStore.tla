---------------------------- MODULE RouteStore ---------------------------
(***************************************************************************)
(* The routes of a running agent: the state in memory that the process     *)
(* shares between run and transport.Client, the copy of it in state.json,  *)
(* and the three operations that change them.  The modules that say when   *)
(* these happen extend this one.  A history variable records what the code *)
(* does not remember: how the last save ended.                             *)
(***************************************************************************)
EXTENDS RouteList

CONSTANTS
    Enrolments, \* what a panel may have answered to the enrolment
    Extras,     \* the values of NODESERVICE_WS_URLS; << >> when it is unset
    Lists       \* the route lists a welcome may carry

ASSUME StoreAssumption ==
    /\ Enrolments \subseteq [wsURLs : Seq(Text), wsURL : Text \ {Empty}]
    /\ Extras \subseteq Seq(Text)
    /\ Lists \subseteq Seq(Text)

VARIABLES
    mem,        \* the routes of the process (of the file, when none runs)
    disk,       \* the routes in state.json
    writable,   \* whether the state directory can be written
    lastSave    \* history: "ok" or "failed", since this process started

storeVars == << mem, disk, writable, lastSave >>

(* state.json after a first run: a failed save ends that run, so the file  *)
(* is always complete.                                                     *)
StoreInit ==
    /\ \E e \in Enrolments : disk = Enrolled(e.wsURLs, e.wsURL)
    /\ mem = disk
    /\ writable \in BOOLEAN
    /\ lastSave = "ok"

(* Save: cleans the state in memory, then replaces the file.  Both callers *)
(* only log a failure.                                                     *)
Save(st) ==
    /\ mem' = Normalised(st)
    /\ disk' = IF writable THEN mem' ELSE disk
    /\ lastSave' = IF writable THEN "ok" ELSE "failed"

(* run, up to transport.New: load the file, merge the environment.         *)
OpenState(extra) ==
    LET st == Loaded(disk) IN
    /\ \/ /\ extra = << >>
          /\ mem' = st
          /\ disk' = disk
          /\ lastSave' = "ok"
       \/ /\ extra # << >>
          /\ Save(SetEndpoints(st, Merged(st.wsURLs, extra)))
    /\ UNCHANGED writable

(* A slip: the list is used and not saved. *)
ApplyWelcomeUnsaved(list) ==
    /\ mem' = IF list = << >> THEN mem ELSE SetEndpoints(mem, list)
    /\ UNCHANGED << disk, writable, lastSave >>

(* Client.applyWelcome: nothing for an empty list or the list in memory.   *)
ApplyWelcome(list) ==
    /\ \/ /\ list = << >> \/ list = mem.wsURLs
          /\ UNCHANGED << mem, disk, lastSave >>
       \/ /\ list # << >> /\ list # mem.wsURLs
          /\ Save(SetEndpoints(mem, list))
    /\ UNCHANGED writable

(* The process is gone: only the file is left. *)
ForgetMemory ==
    /\ mem' = disk
    /\ lastSave' = "ok"
    /\ UNCHANGED << disk, writable >>

(* The file system fills up, is remounted read-only, or recovers. *)
DiskChanges ==
    /\ writable' = ~writable
    /\ UNCHANGED << mem, disk, lastSave >>

--------------------------------------------------------------------------

StoreTypeOK ==
    /\ mem \in RouteState
    /\ disk \in RouteState
    /\ writable \in BOOLEAN
    /\ lastSave \in {"ok", "failed"}

(* Neither the process nor the file is ever left without a route, with     *)
(* more than the limit, with a route twice, or with the old single-address *)
(* field pointing elsewhere than the head of the list (state.go:23), no    *)
(* matter what panels and environments sent and which saves failed.        *)
RoutesNormal ==
    /\ mem.wsURL # Empty /\ Normal(mem)
    /\ disk.wsURL # Empty /\ Normal(disk)
==========================================================================
