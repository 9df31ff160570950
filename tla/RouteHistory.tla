--------------------------- MODULE RouteHistory --------------------------
(***************************************************************************)
(* The life of the route list over restarts of the agent: processes start  *)
(* with some NODESERVICE_WS_URLS, hear welcomes, die at any time, and the  *)
(* state directory is writable or not.  It says what Client.Run, whatever  *)
(* it does besides, may do to the list (Transport).                        *)
(***************************************************************************)
EXTENDS RouteStore

VARIABLE up     \* whether a process runs

vars == << storeVars, up >>

Init ==
    /\ StoreInit
    /\ up = FALSE

Start(extra) ==
    /\ ~up
    /\ OpenState(extra)
    /\ up' = TRUE

Welcome(list) ==
    /\ up
    /\ ApplyWelcome(list)
    /\ UNCHANGED up

Die ==
    /\ up
    /\ ForgetMemory
    /\ up' = FALSE

DiskToggles ==
    /\ DiskChanges
    /\ UNCHANGED up

Next ==
    \/ \E extra \in Extras : Start(extra)
    \/ \E list \in Lists : Welcome(list)
    \/ Die
    \/ DiskToggles

Spec == Init /\ [][Next]_vars

--------------------------------------------------------------------------

TypeOK ==
    /\ StoreTypeOK
    /\ up \in BOOLEAN

(* The file differs from the memory of a running agent only when the last  *)
(* save of this process failed: nothing changes the list without saving it,*)
(* and what is saved is what is used (client.go:171-178, cmd_run.go:83-84, *)
(* and Load undoes nothing of Save).                                       *)
FileFollowsMemory ==
    up /\ lastSave = "ok" => disk = mem

(* A restart keeps the first address first, whatever the environment adds  *)
(* (cmd_run.go:77: so an ordinary restart does not change the route).      *)
FirstRouteSticky ==
    [][~up /\ up' /\ disk.wsURL \in Usable => mem'.wsURL = disk.wsURL]_vars

(* A start loses no address without need: those of the environment are not *)
(* squeezed out by a full old list, so the first MaxRoutes - 1 of them are *)
(* all in use after it, and an old reserve gives way only when the list is *)
(* full (cmd_run.go:77-83, state.go:105-107).                              *)
InUse(url) == \E i \in DOMAIN mem'.wsURLs : mem'.wsURLs[i] = url

StartKeepsRoutes ==
    [][\A extra \in Extras :
         Start(extra) =>
           /\ \A k \in DOMAIN Kept(extra) : k < MaxRoutes => InUse(Kept(extra)[k])
           /\ \/ Len(mem'.wsURLs) = MaxRoutes
              \/ \A i \in DOMAIN disk.wsURLs :
                   disk.wsURLs[i] \in Usable => InUse(disk.wsURLs[i])]_vars
==========================================================================
