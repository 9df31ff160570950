---------------------------- MODULE PullServer ----------------------------
(***************************************************************************)
(* The server of incoming mode (Run, pull/server.go): the handlers of its  *)
(* two requests, the slots of VPN probes, the Xray instance of each probe  *)
(* (Run, vpnprobe/probe.go), the timeouts, and the shutdown.  Time goes by *)
(* in ticks of five seconds; it cannot pass a deadline before the timeout  *)
(* has had its effect.                                                     *)
(***************************************************************************)
EXTENDS Naturals, FiniteSets, VpnProbe

CONSTANTS
    Requests,   \* the requests there may be at a time
    NoLink,
    Slots,      \* 4: the capacity of probeSlot
    OpenTicks,  \* 2: 5 s for the TLS handshake, 5 s for the headers
    BodyTicks,  \* 2: ReadTimeout, 10 s
    ProbeTicks, \* 5: the context of a probe, 25 s
    WriteTicks, \* 6: WriteTimeout, 30 s from the headers on
    NewTicks,   \* 1: 5 s, net/http's patience with a connection without request
    GraceTicks  \* 1: the context of Shutdown, 5 s

ASSUME ServerAssumption ==
    /\ NoLink \notin Links
    /\ Slots \in Nat \ {0} /\ OpenTicks \in Nat /\ BodyTicks \in Nat
    /\ ProbeTicks \in Nat /\ WriteTicks \in Nat /\ NewTicks \in Nat
    /\ GraceTicks \in Nat
    /\ ProbeTicks < WriteTicks      \* server.go:171, 183

VARIABLES
    server,     \* "serving", "closing" (in Shutdown), and how Run returned:
                \* "stopped", "late" (the deadline), "failed" (the listener)
    since,      \* ticks since the signal
    panelURL,   \* whether the state holds an HTTPS address of the panel
    phase,      \* of a request: "idle", "opening", "body", "fetch"
    age,        \* ticks since the connection, from the headers on since them
    began,      \* the age at which the route was first used
    asked,      \* the link being probed
    reply,      \* what came back: "none", "refused", "result", "lost", "cut"
    slots,      \* the length of probeSlot
    instances   \* the requests with an Xray instance

vars == << server, since, panelURL, phase, age, began, asked, reply, slots,
           instances >>

Init ==
    /\ server = "serving" /\ since = 0
    /\ panelURL \in BOOLEAN
    /\ phase = [r \in Requests |-> "idle"]
    /\ age = [r \in Requests |-> 0]
    /\ began = [r \in Requests |-> 0]
    /\ asked = [r \in Requests |-> NoLink]
    /\ reply = [r \in Requests |-> "none"]
    /\ slots = 0
    /\ instances = {}

Running == server \in {"serving", "closing"}

(* The handler of r ends with a reply.                                     *)
Over(r, what) ==
    /\ phase' = [phase EXCEPT ![r] = "idle"]
    /\ age' = [age EXCEPT ![r] = 0]
    /\ asked' = [asked EXCEPT ![r] = NoLink]
    /\ reply' = [reply EXCEPT ![r] = what]
    /\ UNCHANGED << server, since, panelURL >>

(* A slip: the slot is not given back. *)
LeaveWithSlot(r, what) ==
    /\ Over(r, what)
    /\ instances' = instances \ {r}
    /\ UNCHANGED slots

(* The deferred calls, on every way out: the slot is given back, and the   *)
(* instance closed; the reply is written after them.                       *)
Leave(r, what) ==
    /\ Over(r, what)
    /\ slots' = slots - 1
    /\ instances' = instances \ {r}

--------------------------------------------------------------------------
(* Connections. *)

Accept(r) ==
    /\ server = "serving" /\ phase[r] = "idle"
    /\ phase' = [phase EXCEPT ![r] = "opening"]
    /\ began' = [began EXCEPT ![r] = 0]
    /\ reply' = [reply EXCEPT ![r] = "none"]
    /\ UNCHANGED << server, since, panelURL, age, asked, slots, instances >>

(* No request comes: hung up, or out of time. *)
GoesAway(r) ==
    /\ Running /\ phase[r] = "opening"
    /\ Over(r, "none")
    /\ UNCHANGED << began, slots, instances >>

(* A snapshot, or a wrong key on either path.                              *)
AnswerAtOnce(r) ==
    /\ Running /\ phase[r] = "opening"
    /\ \E what \in {"refused", "result"} : Over(r, what)
    /\ UNCHANGED << began, slots, instances >>

--------------------------------------------------------------------------
(* The handler of probes. *)

TakeSlot(r) ==
    /\ Running /\ phase[r] = "opening"
    /\ slots < Slots
    /\ slots' = slots + 1
    /\ phase' = [phase EXCEPT ![r] = "body"]
    /\ age' = [age EXCEPT ![r] = 0]
    /\ UNCHANGED << server, since, panelURL, began, asked, reply, instances >>

RefuseBusy(r) ==
    /\ Running /\ phase[r] = "opening"
    /\ slots = Slots
    /\ Over(r, "refused")
    /\ UNCHANGED << began, slots, instances >>

(* The body is not what it should be, out of time, or cut off.             *)
RefuseBody(r) ==
    /\ Running /\ phase[r] = "body"
    /\ Leave(r, "refused")
    /\ UNCHANGED began

(* The probe ends before there is an instance: stages "config" and         *)
(* "start"; or building it panics, which net/http recovers from.           *)
ProbeUnstarted(r) ==
    /\ Running /\ phase[r] = "body"
    /\ \E what \in {"result", "none"} : Leave(r, what)
    /\ UNCHANGED began

StartProbe(r) ==
    /\ Running /\ phase[r] = "body"
    /\ \E l \in Links :
          /\ ParsesRoute(l) /\ panelURL /\ BuildsConfig(l)
          /\ asked' = [asked EXCEPT ![r] = l]
    /\ phase' = [phase EXCEPT ![r] = "fetch"]
    /\ began' = [began EXCEPT ![r] = age[r]]
    /\ instances' = instances \cup {r}
    /\ UNCHANGED << server, since, panelURL, age, reply, slots >>

(* The probe ends at stage "connect", "download" or "done".  Its result    *)
(* is written only before the write deadline.                              *)
FetchEnds(r) ==
    /\ Running /\ phase[r] = "fetch"
    /\ \/ age[r] <= WriteTicks /\ Leave(r, "result")
       \/ age[r] >= WriteTicks /\ Leave(r, "lost")
    /\ UNCHANGED began

(* The panel hangs up: the context of the request ends the probe.          *)
PanelHangsUp(r) ==
    /\ Running /\ phase[r] = "fetch"
    /\ Leave(r, "none")
    /\ UNCHANGED began

--------------------------------------------------------------------------
(* Time. *)

(* A slip: the probe has as long as the write. *)
DueWithWrite(r) ==
    \/ (phase[r] = "opening" /\ age[r] = OpenTicks)
    \/ (phase[r] = "body" /\ age[r] = BodyTicks)
    \/ (phase[r] = "fetch" /\ age[r] = began[r] + WriteTicks)

Due(r) ==
    \/ (phase[r] = "opening" /\ age[r] = OpenTicks)
    \/ (phase[r] = "body" /\ age[r] = BodyTicks)
    \/ (phase[r] = "fetch" /\ age[r] = began[r] + ProbeTicks)

(* A slip: nothing ends a body that is never finished. *)
TimesOutUnlessBody(r) ==
    /\ Due(r)
    /\ GoesAway(r) \/ FetchEnds(r)

TimesOut(r) ==
    /\ Due(r)
    /\ GoesAway(r) \/ RefuseBody(r) \/ FetchEnds(r)

Tick ==
    /\ Running
    /\ \A r \in Requests : ~Due(r)
    /\ server = "closing" => since < GraceTicks
    /\ age' = [r \in Requests |-> IF phase[r] = "idle" THEN 0 ELSE age[r] + 1]
    /\ since' = IF server = "closing" THEN since + 1 ELSE 0
    /\ UNCHANGED << server, panelURL, phase, began, asked, reply, slots, instances >>

--------------------------------------------------------------------------
(* The end of Run, and with it of the process. *)

(* closeIdleConns: a connection whose request is long in coming counts as  *)
(* idle.                                                                   *)
Quiet(r) == phase[r] = "idle" \/ (phase[r] = "opening" /\ age[r] > NewTicks)

EndAs(how) ==
    /\ server' = how
    /\ phase' = [r \in Requests |-> "idle"]
    /\ age' = [r \in Requests |-> 0]
    /\ asked' = [r \in Requests |-> NoLink]
    /\ reply' = [r \in Requests |->
                    IF phase[r] \in {"body", "fetch"} THEN "cut" ELSE reply[r]]
    /\ slots' = 0
    /\ instances' = {}
    /\ UNCHANGED << since, panelURL, began >>

(* A slip: Close instead of Shutdown. *)
SignalCloses ==
    /\ server = "serving"
    /\ EndAs("stopped")

(* SIGTERM: the listener is closed, and the connections looked at at once. *)
Signal ==
    /\ server = "serving"
    /\ IF \A r \in Requests : Quiet(r)
       THEN EndAs("stopped")
       ELSE /\ server' = "closing"
            /\ UNCHANGED << since, panelURL, phase, age, began, asked, reply,
                            slots, instances >>

ShutdownDone ==
    /\ server = "closing"
    /\ \A r \in Requests : Quiet(r)
    /\ EndAs("stopped")

(* The last look may be half a second old. *)
ShutdownLate ==
    /\ server = "closing" /\ since = GraceTicks
    /\ EndAs("late")

(* The port is taken, the certificate cannot be read, or accepting fails.  *)
ListenFails ==
    /\ server = "serving"
    /\ EndAs("failed")

Next ==
    \/ \E r \in Requests :
          \/ Accept(r) \/ GoesAway(r) \/ AnswerAtOnce(r)
          \/ TakeSlot(r) \/ RefuseBusy(r) \/ RefuseBody(r)
          \/ ProbeUnstarted(r) \/ StartProbe(r) \/ FetchEnds(r)
          \/ PanelHangsUp(r)
    \/ Tick \/ Signal \/ ShutdownDone \/ ShutdownLate \/ ListenFails

Spec == Init /\ [][Next]_vars

(* Time passes, what times out ends, and so does Shutdown.  Nothing is     *)
(* assumed of the panel, the route or Xray.                                *)
Fairness ==
    /\ WF_vars(Tick)
    /\ \A r \in Requests : WF_vars(TimesOut(r))
    /\ WF_vars(ShutdownDone \/ ShutdownLate)

FairSpec == Spec /\ Fairness

--------------------------------------------------------------------------
(* Properties. *)

Holders == {r \in Requests : phase[r] \in {"body", "fetch"}}

TypeOK ==
    /\ server \in {"serving", "closing", "stopped", "late", "failed"}
    /\ since \in 0..GraceTicks
    /\ panelURL \in BOOLEAN
    /\ phase \in [Requests -> {"idle", "opening", "body", "fetch"}]
    /\ age \in [Requests -> Nat]
    /\ began \in [Requests -> Nat]
    /\ asked \in [Requests -> Links \cup {NoLink}]
    /\ reply \in [Requests -> {"none", "refused", "result", "lost", "cut"}]
    /\ slots \in Nat
    /\ instances \subseteq Requests

(* The channel holds one token per handler between the slot and its end,   *)
(* whichever way the handler goes, and there are never more Xray instances *)
(* than slots (server.go:156-162, probe.go:350-354).                       *)
SlotsAreCounted ==
    /\ slots = Cardinality(Holders)
    /\ slots <= Slots
    /\ instances \subseteq Holders

(* A slot and its instance come back within the time of a body and a       *)
(* probe, over however many ticks, whatever the panel and the route do, so *)
(* that four bad routes do not end the probes (server.go:149-177).         *)
SlotComesBack ==
    \A r \in Requests : r \in Holders ~> r \notin Holders

(* A finished result gets lost to the write deadline only when the body    *)
(* alone took five seconds or more (server.go:171-176, 181-184).           *)
ResultArrives ==
    \A r \in Requests : reply[r] = "lost" => began[r] > 0

(* Run returns without an error only when it has cut nobody off: a stop    *)
(* that systemd counts as a success has answered every probe               *)
(* (server.go:193-197).                                                    *)
StopIsClean ==
    server = "stopped" => \A r \in Requests : reply[r] # "cut"

(* Every instance that runs trusts nobody blindly: what a link asks for,   *)
(* its outbound is bound to a REALITY key, a pinned certificate, or the    *)
(* roots, the last only when the link did not want to go without           *)
(* (probe.go:122-127, 259-269).                                            *)
InstancesVerify ==
    \A r \in instances :
        LET l == asked[r] IN
        /\ Outbound(l).security = "reality" => l.key /\ l.sni
        /\ Outbound(l).trust = {"roots"} => ~l.insecure

--------------------------------------------------------------------------
(* The inductive invariant. *)

(* Before the end of a handler nothing is replied, and only the end of the *)
(* process cuts somebody off.                                              *)
ReplyInv ==
    \A r \in Requests :
        /\ phase[r] # "idle" => reply[r] = "none"
        /\ reply[r] = "cut" => ~Running

(* A probe runs for no longer than its context.                            *)
AgeInv ==
    \A r \in Requests :
        phase[r] = "fetch" => began[r] <= age[r] /\ age[r] <= began[r] + ProbeTicks

(* An instance runs what was parsed and built.                             *)
ProbeInv ==
    \A r \in instances :
        asked[r] \in Links /\ ParsesRoute(asked[r]) /\ BuildsConfig(asked[r])

ServerInv ==
    /\ TypeOK
    /\ IsFiniteSet(Holders) /\ SlotsAreCounted
    /\ ReplyInv /\ AgeInv /\ ProbeInv
    /\ ResultArrives /\ StopIsClean
===========================================================================
