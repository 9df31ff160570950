---------------------------- MODULE Collector ----------------------------
(***************************************************************************)
(* The network rates of the metrics collector (internal/metrics): calls    *)
(* of Collect read the counters and the routing table, stamp the sample,   *)
(* and compare it under the lock with the sample remembered.  Calls        *)
(* overlap: the panel may ask for two snapshots at once (pull/server.go),  *)
(* and a sendLoop inside Collect outlives its session (client.go).  A rate *)
(* times its interval is the amount it reports; one direction is modelled. *)
(***************************************************************************)
EXTENDS Integers, FiniteSets

CONSTANTS
    Calls,      \* the calls of Collect there may be at a time
    Physical,   \* the interfaces with a name of their own
    Virtual,    \* those with the name of a loopback, bridge or tunnel
    NoSample,
    MaxBytes,   \* bound: the bytes that pass while the agent runs
    MaxTime     \* bound: the time that passes

Interfaces == Physical \cup Virtual

(* NetSnap: the time, the sum, and the interfaces it is of.                *)
Samples == [at : Nat, bytes : Nat, of : SUBSET Interfaces]

ASSUME CollectorAssumption ==
    /\ IsFiniteSet(Physical) /\ IsFiniteSet(Virtual)
    /\ Physical \cap Virtual = {}
    /\ NoSample \notin Samples
    /\ MaxBytes \in Nat /\ MaxTime \in Nat

VARIABLES
    counter,    \* the bytes the kernel has counted on each interface
    now,
    pc,         \* of each call: "idle", "read", "stamped"
    seen,       \* the counters each call has read
    cur,        \* the sample of each call: [at, bytes, of]
    prev,       \* the sample remembered, shared under the lock
    moved,      \* history: the bytes that passed the physical interfaces
    first,      \* history: the bytes of the first sample
    reported,   \* history: the sum of all amounts reported
    plain,      \* history: no call has overlapped another, and the same
                \* interfaces were counted all the time; the sums of history
                \* are kept up as long as that is so
    smooth      \* history: no counter was reset, no interval was empty

collectorVars == << counter, now, pc, seen, cur, prev, moved, first, reported,
                    plain, smooth >>

Zero == [i \in Interfaces |-> 0]

(* The server has been up for a while. *)
CollectorInit ==
    /\ counter = [i \in Interfaces |-> 1]
    /\ now = 0
    /\ pc = [c \in Calls |-> "idle"]
    /\ seen = [c \in Calls |-> Zero]
    /\ cur = [c \in Calls |-> NoSample]
    /\ prev = NoSample
    /\ moved = 0 /\ first = 0 /\ reported = 0
    /\ plain = TRUE /\ smooth = TRUE

(* A slip: whatever holds a default route is counted. *)
SelectedByRoute(routes) ==
    IF routes # {} THEN routes ELSE Physical

(* externalCounter: the interfaces that hold a default route, tunnels left *)
(* out; every physical one when that leaves none.                          *)
Selected(routes) ==
    IF routes \ Virtual # {} THEN routes \ Virtual ELSE Physical

(* The total of externalCounter, as the number of the bytes counted.       *)
Bytes(count, S) == UNION {{i} \X (1..count[i]) : i \in S}
Total(count, S) == Cardinality(Bytes(count, S))

(* A slip: a counter that went back is not noticed. *)
AmountSigned(old, new) ==
    IF new.at <= old.at THEN 0 ELSE new.bytes - old.bytes

(* Rates, times the interval: nothing when no time has passed or the       *)
(* counter went back.                                                      *)
Amount(old, new) ==
    IF new.at <= old.at \/ new.bytes < old.bytes THEN 0
    ELSE new.bytes - old.bytes

--------------------------------------------------------------------------
(* Collect.  A call whose counters cannot be read changes nothing.         *)

ReadCounters(c) ==
    /\ pc[c] = "idle"
    /\ pc' = [pc EXCEPT ![c] = "read"]
    /\ seen' = [seen EXCEPT ![c] = counter]
    /\ plain' = (plain /\ \A d \in Calls : pc[d] = "idle")
    /\ UNCHANGED << counter, now, cur, prev, moved, first, reported, smooth >>

(* The default routes are read after the counters, and the time is taken   *)
(* last; a table that cannot be read has no routes.                        *)
Stamp(c) ==
    /\ pc[c] = "read"
    /\ pc' = [pc EXCEPT ![c] = "stamped"]
    /\ \E routes \in SUBSET Interfaces :
          cur' = [cur EXCEPT ![c] =
                     [at |-> now,
                      bytes |-> Total(seen[c], Selected(routes)),
                      of |-> Selected(routes)]]
    /\ seen' = [seen EXCEPT ![c] = Zero]
    /\ UNCHANGED << counter, now, prev, moved, first, reported, plain, smooth >>

(* What the report of a call adds to the history. *)
Account(c) ==
    IF prev = NoSample
    THEN first' = cur[c].bytes /\ UNCHANGED << reported, plain, smooth >>
    ELSE /\ plain' = (plain /\ cur[c].of = prev.of)
         /\ reported' = IF plain' THEN reported + Amount(prev, cur[c]) ELSE 0
         /\ first' = IF plain' THEN first ELSE 0
         /\ smooth' = (smooth /\ cur[c].at > prev.at)

(* A slip: the sample to compare with stays the first one. *)
PublishOnce(c) ==
    /\ pc[c] = "stamped"
    /\ pc' = [pc EXCEPT ![c] = "idle"]
    /\ Account(c)
    /\ prev' = IF prev = NoSample THEN cur[c] ELSE prev
    /\ cur' = [cur EXCEPT ![c] = NoSample]
    /\ UNCHANGED << counter, now, seen, moved >>

(* Under the lock: report, and remember this sample, be it newer or older. *)
Publish(c) ==
    /\ pc[c] = "stamped"
    /\ pc' = [pc EXCEPT ![c] = "idle"]
    /\ Account(c)
    /\ prev' = cur[c]
    /\ cur' = [cur EXCEPT ![c] = NoSample]
    /\ UNCHANGED << counter, now, seen, moved >>

--------------------------------------------------------------------------
(* The server. *)

(* A byte passes a physical interface, perhaps inside tunnels too.         *)
Traffic ==
    /\ moved < MaxBytes
    /\ moved' = moved + 1
    /\ \E p \in Physical, T \in SUBSET Virtual :
          counter' = [i \in Interfaces |->
                         IF i \in T \cup {p} THEN counter[i] + 1 ELSE counter[i]]
    /\ UNCHANGED << now, pc, seen, cur, prev, first, reported, plain, smooth >>

(* An interface goes down and comes up: its counter starts again.          *)
Reset(i) ==
    /\ counter[i] # 0
    /\ counter' = [counter EXCEPT ![i] = 0]
    /\ smooth' = FALSE
    /\ UNCHANGED << now, pc, seen, cur, prev, moved, first, reported, plain >>

TimePasses ==
    /\ now < MaxTime
    /\ now' = now + 1
    /\ UNCHANGED << counter, pc, seen, cur, prev, moved, first,
                    reported, plain, smooth >>

CollectorNext ==
    \/ \E c \in Calls : ReadCounters(c) \/ Stamp(c) \/ Publish(c)
    \/ \E i \in Interfaces : Reset(i)
    \/ Traffic \/ TimePasses

CollectorSpec == CollectorInit /\ [][CollectorNext]_collectorVars

--------------------------------------------------------------------------
(* Properties. *)

CollectorTypeOK ==
    /\ counter \in [Interfaces -> Nat]
    /\ now \in Nat
    /\ pc \in [Calls -> {"idle", "read", "stamped"}]
    /\ seen \in [Calls -> [Interfaces -> Nat]]
    /\ cur \in [Calls -> Samples \cup {NoSample}]
    /\ prev \in Samples \cup {NoSample}
    /\ moved \in Nat /\ first \in Nat /\ reported \in Nat
    /\ plain \in BOOLEAN /\ smooth \in BOOLEAN

(* No byte is reported twice, nor any that passed before the first sample: *)
(* over the whole life of the agent the rates add up to no more than what  *)
(* passed the server from outside, through resets, tunnels and a routing   *)
(* table that comes and goes.  What it takes to double-count is two calls  *)
(* that overlap, or a change of the interfaces counted (metrics.go:101-    *)
(* 152; callers: client.go:286-313, pull/server.go:134-139).               *)
NoByteTwice ==
    plain => reported <= moved

(* Nothing is left out either: the amounts add up to all that was counted  *)
(* from the first sample to the last one, unless a counter was reset or    *)
(* two samples had the same time (metrics.go:36-53, 113-118).              *)
ReportsAddUp ==
    plain /\ smooth /\ prev # NoSample => reported = prev.bytes - first

--------------------------------------------------------------------------
(* The inductive invariant. *)

(* A call has a sample when it is stamped, of physical interfaces, as the  *)
(* one remembered is; before the first is remembered nothing is reported.  *)
SampleInv ==
    /\ \A c \in Calls : pc[c] = "stamped" =>
          cur[c] \in Samples /\ cur[c].of \subseteq Physical
    /\ prev # NoSample => prev.of \subseteq Physical
    /\ prev = NoSample => reported = 0

(* Calls that have not overlapped: at most one is under way. *)
AloneInv ==
    plain => \A c, d \in Calls : pc[c] # "idle" /\ pc[d] # "idle" => c = d

Excess(new, old) == IF new > old THEN new - old ELSE 0

(* What is reported, what the call under way will report, and what the     *)
(* call after it can report at most, all passed the physical interfaces.   *)
IdleBytes ==
    prev # NoSample =>
        reported + Excess(Total(counter, prev.of), prev.bytes) <= moved

ReadBytes(c) ==
    /\ prev = NoSample =>
          \A S \in SUBSET Physical : Excess(Total(counter, S), Total(seen[c], S)) <= moved
    /\ prev # NoSample =>
          reported + Excess(Total(seen[c], prev.of), prev.bytes)
                   + Excess(Total(counter, prev.of), Total(seen[c], prev.of)) <= moved

StampedBytes(c) ==
    /\ prev = NoSample =>
          Excess(Total(counter, cur[c].of), cur[c].bytes) <= moved
    /\ prev # NoSample /\ cur[c].of = prev.of =>
          reported + Excess(cur[c].bytes, prev.bytes)
                   + Excess(Total(counter, prev.of), cur[c].bytes) <= moved

BytesInv ==
    plain =>
        /\ reported <= moved
        /\ (\A c \in Calls : pc[c] = "idle") => IdleBytes
        /\ \A c \in Calls : /\ pc[c] = "read" => ReadBytes(c)
                            /\ pc[c] = "stamped" => StampedBytes(c)

(* With no counter reset, the sums only grow from sample to sample.        *)
GrowthInv ==
    plain /\ smooth =>
        /\ prev # NoSample =>
              /\ reported = prev.bytes - first
              /\ prev.bytes <= Total(counter, prev.of)
        /\ \A c \in Calls :
              /\ pc[c] = "read" =>
                    /\ \A i \in Interfaces : seen[c][i] <= counter[i]
                    /\ prev # NoSample => prev.bytes <= Total(seen[c], prev.of)
              /\ pc[c] = "stamped" =>
                    /\ cur[c].bytes <= Total(counter, cur[c].of)
                    /\ prev # NoSample /\ cur[c].of = prev.of =>
                          prev.bytes <= cur[c].bytes

CollectorInv ==
    CollectorTypeOK /\ SampleInv /\ AloneInv /\ BytesInv /\ GrowthInv
==========================================================================
