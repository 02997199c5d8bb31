-------------------------------- MODULE Client --------------------------------
(* The images page of the frontend and the server it polls                   *)
(* (frontend/src/hooks/useScanStatus.ts, frontend/src/pages/ImagesPage.tsx). *)
(*                                                                           *)
(* The page asks for the running flag again and again and reloads its table  *)
(* whenever the answer becomes "down".  A request is sent, served and        *)
(* answered in steps of their own, and answers may overtake each other.      *)
EXTENDS Integers, FiniteSets, Bags

CONSTANTS LoopScans,      \* scans the loop may start
          ManualScans,    \* scans this page may start
          None,
          MaxChanges,     \* bound: changes of the filter
          MaxFaults       \* bound: requests that fail

Scans == LoopScans \cup ManualScans
Versions == 0..Cardinality(Scans)
Answers == Versions \cup {None}   \* to a request for records, None before it is served

ASSUME ScansAssumption == IsFiniteSet(Scans) /\ LoopScans \cap ManualScans = {}
ASSUME NoneAssumption == None \notin Versions
ASSUME BoundAssumption == MaxChanges \in Nat /\ MaxFaults \in Nat

VARIABLES scan,      \* where each scan of the server is
          flag,      \* the running flag of the store
          version,   \* how many scans have published
          status,    \* scanStatus.running of the page, "none" before the first answer
          shown,     \* the version the table shows
          received,  \* history: the newest version the page was ever answered
          poll,      \* the answer under way to the timer's request, else "timer"
          user,      \* what the Refresh button is doing
          loads,     \* the requests for records under way
          changes, faults

serverVars == <<scan, flag, version>>
pageVars == <<status, shown, received>>
vars == <<serverVars, pageVars, poll, user, loads, changes, faults>>

Flags == {"up", "down"}

TypeOK ==
  /\ scan \in [Scans -> {"none", "spawned", "running", "published", "done"}]
  /\ flag \in Flags /\ version \in Versions
  /\ status \in Flags \cup {"none"} /\ shown \in Answers /\ received \in Versions
  /\ poll \in Flags \cup {"timer"}
  /\ user \in Flags \cup {"idle", "posting", "sent"}
  /\ IsABag(loads) /\ BagToSet(loads) \subseteq Answers
  /\ changes \in 0..MaxChanges /\ faults \in 0..MaxFaults

-----------------------------------------------------------------------------
(* The server: scans one beside the other, as ScanLifecycle has them.       *)

LoopStarts(s) ==
  /\ s \in LoopScans /\ scan[s] = "none"
  /\ scan' = [scan EXCEPT ![s] = "running"] /\ flag' = "up"
  /\ UNCHANGED <<version, pageVars, poll, user, loads, changes, faults>>

Begin(s) ==
  /\ scan[s] = "spawned"
  /\ scan' = [scan EXCEPT ![s] = "running"] /\ flag' = "up"
  /\ UNCHANGED <<version, pageVars, poll, user, loads, changes, faults>>

PublishRecords(s) ==
  /\ scan[s] = "running"
  /\ scan' = [scan EXCEPT ![s] = "published"] /\ version' = version + 1
  /\ UNCHANGED <<flag, pageVars, poll, user, loads, changes, faults>>

(* Mutant: a scan that fails in discovery leaves the flag up.               *)
EndOnSuccess(s) ==
  /\ scan[s] \in {"running", "published"}
  /\ scan' = [scan EXCEPT ![s] = "done"]
  /\ flag' = IF scan[s] = "published" THEN "down" ELSE flag
  /\ UNCHANGED <<version, pageVars, poll, user, loads, changes, faults>>

(* Published, or failed in discovery.                                       *)
End(s) ==
  /\ scan[s] \in {"running", "published"}
  /\ scan' = [scan EXCEPT ![s] = "done"] /\ flag' = "down"
  /\ UNCHANGED <<version, pageVars, poll, user, loads, changes, faults>>

-----------------------------------------------------------------------------
(* The page.                                                                *)

Load == SetToBag({None})

Fault == faults < MaxFaults /\ faults' = faults + 1

(* Mutant: reload when a scan is seen to begin.                             *)
SetStatusReloadFirst(s) ==
  /\ status' = s
  /\ loads' = IF s = "up" /\ status # "up" THEN loads (+) Load ELSE loads
  /\ UNCHANGED <<shown, received>>

(* setStatus, and the effect that runs when scanStatus.running changes.     *)
SetStatus(s) ==
  /\ status' = s
  /\ loads' = IF s = "down" /\ status # "down" THEN loads (+) Load ELSE loads
  /\ UNCHANGED <<shown, received>>

PollServe ==
  /\ poll = "timer" /\ poll' = flag
  /\ UNCHANGED <<serverVars, pageVars, user, loads, changes, faults>>

PollAnswer ==
  /\ poll \in Flags /\ poll' = "timer"
  /\ SetStatus(poll)
  /\ UNCHANGED <<serverVars, user, changes, faults>>

(* Mutant: a rejected request is not caught, the timer is not set again.    *)
PollFailsForGood ==
  /\ poll = "timer" /\ poll' = "gone" /\ Fault
  /\ UNCHANGED <<serverVars, pageVars, user, loads, changes>>

PollFails ==
  /\ poll = "timer" /\ UNCHANGED poll /\ Fault
  /\ UNCHANGED <<serverVars, pageVars, user, loads, changes>>

(* The Refresh button is disabled while the page knows of a scan.           *)
Click ==
  /\ user = "idle" /\ user' = "posting"
  /\ status # "up" /\ \E s \in ManualScans : scan[s] = "none"
  /\ UNCHANGED <<serverVars, pageVars, poll, loads, changes, faults>>

(* 202, after which the page asks for the flag at once, or 409.  The        *)
(* goroutine of the scan raises the flag later.                             *)
Post(s) ==
  /\ user = "posting" /\ scan[s] = "none"
  /\ IF flag = "down" THEN scan' = [scan EXCEPT ![s] = "spawned"] /\ user' = "sent"
                      ELSE UNCHANGED scan /\ user' = "idle"
  /\ UNCHANGED <<flag, version, pageVars, poll, loads, changes, faults>>

RefetchServe ==
  /\ user = "sent" /\ user' = flag
  /\ UNCHANGED <<serverVars, pageVars, poll, loads, changes, faults>>

RefetchAnswer ==
  /\ user \in Flags /\ user' = "idle"
  /\ SetStatus(user)
  /\ UNCHANGED <<serverVars, poll, changes, faults>>

UserFails ==
  /\ user \in {"posting", "sent"} /\ user' = "idle" /\ Fault
  /\ UNCHANGED <<serverVars, pageVars, poll, loads, changes>>

(* Another filter is another request for records.                           *)
SetFilter ==
  /\ changes < MaxChanges /\ changes' = changes + 1
  /\ loads' = loads (+) Load
  /\ UNCHANGED <<serverVars, pageVars, poll, user, faults>>

LoadServe ==
  /\ BagIn(None, loads)
  /\ loads' = (loads (-) Load) (+) SetToBag({version})
  /\ UNCHANGED <<serverVars, pageVars, poll, user, changes, faults>>

LoadAnswer(v) ==
  /\ BagIn(v, loads)
  /\ loads' = loads (-) SetToBag({v})
  /\ shown' = v
  /\ received' = IF v > received THEN v ELSE received
  /\ UNCHANGED <<serverVars, status, poll, user, changes, faults>>

(* setError: the table stays as it is.                                      *)
LoadFails ==
  /\ BagIn(None, loads) /\ Fault
  /\ loads' = loads (-) Load
  /\ UNCHANGED <<serverVars, pageVars, poll, user, changes>>

Init ==
  /\ scan = [s \in Scans |-> "none"] /\ flag = "down" /\ version = 0
  /\ status = "none" /\ shown = None /\ received = 0
  /\ poll = "timer" /\ user = "idle" /\ loads = Load
  /\ changes = 0 /\ faults = 0

ServerStep(s) == Begin(s) \/ PublishRecords(s) \/ End(s)
PollStep == PollServe \/ PollAnswer
UserStep == (\E s \in ManualScans : Post(s)) \/ RefetchServe \/ RefetchAnswer
Failure == PollFails \/ UserFails \/ LoadFails

Next ==
  \/ \E s \in Scans : LoopStarts(s) \/ ServerStep(s)
  \/ PollStep \/ Click \/ UserStep \/ Failure
  \/ SetFilter \/ LoadServe \/ \E v \in Versions : LoadAnswer(v)

Spec ==
  /\ Init /\ [][Next]_vars
  /\ \A s \in Scans : WF_vars(ServerStep(s))
  /\ WF_vars(PollStep) /\ WF_vars(UserStep)
  /\ WF_vars(LoadServe) /\ \A v \in Versions : WF_vars(LoadAnswer(v))

-----------------------------------------------------------------------------
(* Properties.                                                              *)

(* The indicator comes to rest: every scan ends and there are only so many, *)
(* so from some time on the page says that none is running and its Refresh  *)
(* button works, though polls fail or are overtaken (useScanStatus always   *)
(* sets its timer again).                                                   *)
IndicatorRests == <>[](status = "down")

Seen(s) ==
  /\ scan[s] \in {"running", "published"} /\ flag = "up" /\ status = "up"
  /\ \A t \in Scans \ {s} : scan[t] = "done"
  /\ "down" \notin {poll, user} /\ faults = MaxFaults

(* A page that sees a scan reloads its records: if it shows the last scan   *)
(* as running while the flag is up, with no older answer under way and no   *)
(* request failing any more, it is answered what that scan published.  (An  *)
(* earlier scan that ends beside it would take the flag down too soon.)     *)
SeenScanIsLoaded ==
  \A s \in Scans : Seen(s) ~> (scan[s] = "done" /\ received = version)

(* "Reload table data once a running scan finishes": in the end the page    *)
(* has been answered what the last scan published, whether or not an older  *)
(* answer comes after it.  A scan between two polls is not noticed.         *)
PageCatchesUp == <>[](received = version)
=============================================================================
