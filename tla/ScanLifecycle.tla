---------------------------- MODULE ScanLifecycle ----------------------------
(* The scans of one Image Roundup process and the store they publish to.     *)
(*                                                                           *)
(* Loop is the goroutine of RunLoopWithStartupOptions (scanner.go): a scan   *)
(* at startup, then one per tick, until SIGTERM cancels its context.  Each   *)
(* element of Manual is a slot for one POST /scan request (handler.go): the  *)
(* handler reads the running flag, answers, and leaves a goroutine behind    *)
(* that scans under a ten-minute context of its own.  Nothing but the flag   *)
(* keeps two scans apart, and the loop does not read it.                     *)
(*                                                                           *)
(* One action per step between which another goroutine can run: every        *)
(* Kubernetes list call, the registry checks as a whole (CheckPool models    *)
(* their workers), and each separately locked call into the store.           *)
EXTENDS Store

CONSTANTS Loop, Manual,
          Namespaces, Workloads,
          Containers,        \* the IDs of what really runs
          NsOf, WorkloadOf,  \* of every ID
          RSName,            \* the ID a container gets while its ReplicaSet has no known owner
          SelfIds,           \* the IDs of image-roundup's own workload
          StartSettings,     \* the scan settings the process starts with
          SettingsValues,    \* the scan settings PUT /settings may carry
          Requests,          \* the bodies POST /scan may carry
          Persisted,         \* what Load may find
          Deployed,          \* what may run when the process starts
          MaxChanges,        \* bound: deployments, updates and deletions in the cluster
          MaxFaults          \* bound: failing list calls, lost owners, expired deadlines

Procs == {Loop} \cup Manual
Settings == [included : SUBSET Namespaces, excluded : SUBSET Namespaces]
Options == [included : SUBSET Namespaces, excluded : SUBSET Namespaces,
            skip : SUBSET Ids, workload : Workloads \cup {None}]
Request == [namespace : Namespaces \cup {None}, workload : Workloads \cup {None}]

ASSUME LoopIsNotManual == Loop \notin Manual
ASSUME TopologyAssumption ==
  /\ NsOf \in [Ids -> Namespaces]
  /\ WorkloadOf \in [Ids -> Workloads]
  /\ Containers \subseteq Ids
  /\ RSName \in [Containers -> Ids]
  /\ \A c \in Containers : NsOf[RSName[c]] = NsOf[c]
  /\ \A c \in Containers : RSName[c] = c \/ RSName[c] \notin Containers
  /\ \A c, d \in Containers : RSName[c] = RSName[d] => c = d
  /\ SelfIds \subseteq Ids
ASSUME NoneIsNoName == None \notin Namespaces /\ None \notin Workloads
ASSUME InputAssumption ==
  /\ StartSettings \in Settings /\ SettingsValues \subseteq Settings
  /\ Requests \subseteq Request
  /\ Persisted \subseteq RecordMap
  /\ Deployed \subseteq [Containers -> Images \cup {None}]
ASSUME BoundAssumption == MaxChanges \in Nat /\ MaxFaults \in Nat

VARIABLES pc,         \* where each scan process is
          opts,       \* the DiscoveryOptions of its scan
          request,    \* the POST body it serves
          todo,       \* namespaces whose pods it has still to list
          found,      \* the records it has collected
          errs,       \* the scanErrors its checks returned
          cancelled,  \* its context is done
          cluster,    \* the image each container runs, None when it does not run
          changes, faults   \* how much of the two bounds is used up

procVars == <<pc, opts, request, todo, found, errs, cancelled>>
clusterVars == <<cluster, changes>>
vars == <<storeVars, procVars, clusterVars, faults>>

(* Between SetScanning(true) and the deferred SetScanning(false).           *)
Active == {"namespaces", "pods", "check", "publish", "errors", "finish", "abort"}
Positions == Active \cup {"startup", "idle", "admitted", "refused", "spawned", "after", "exited"}
FullRequest == [namespace |-> None, workload |-> None]
Scoped(req) == req # FullRequest

NoOptions == [included |-> {}, excluded |-> {}, skip |-> {}, workload |-> None]
LoopOptions == [NoOptions EXCEPT !.included = StartSettings.included,
                                 !.excluded = StartSettings.excluded]
StartupOptions == [LoopOptions EXCEPT !.skip = SelfIds]

TypeOK ==
  /\ StoreTypeOK
  /\ pc \in [Procs -> Positions]
  /\ opts \in [Procs -> Options]
  /\ request \in [Procs -> Request]
  /\ todo \in [Procs -> SUBSET Namespaces]
  /\ found \in [Procs -> RecordMap]
  /\ errs \in [Procs -> SUBSET ErrorTexts]
  /\ cancelled \in [Procs -> BOOLEAN]
  /\ cluster \in [Containers -> Images \cup {None}]
  /\ changes \in 0..MaxChanges
  /\ faults \in 0..MaxFaults

StartPc == [s \in Procs |-> IF s = Loop THEN "startup" ELSE "idle"]

Init ==
  /\ StoreInit(Persisted)
  /\ pc = StartPc
  /\ opts = [s \in Procs |-> NoOptions]
  /\ request = [s \in Procs |-> FullRequest]
  /\ todo = [s \in Procs |-> {}]
  /\ found = [s \in Procs |-> Empty]
  /\ errs = [s \in Procs |-> {}]
  /\ cancelled = [s \in Procs |-> FALSE]
  /\ cluster \in Deployed
  /\ changes = 0
  /\ faults = 0

-----------------------------------------------------------------------------
(* The environment: the cluster changes, a call fails, time passes.         *)

ChangeCluster(c, m) ==
  /\ changes < MaxChanges
  /\ cluster[c] # m
  /\ cluster' = [cluster EXCEPT ![c] = m]
  /\ changes' = changes + 1
  /\ UNCHANGED <<storeVars, procVars, faults>>

(* A failing call uses up one fault, unless the context it was made with is *)
(* already done: then it cannot but fail.                                   *)
Fails(s) ==
  \/ cancelled[s] /\ UNCHANGED faults
  \/ ~cancelled[s] /\ faults < MaxFaults /\ faults' = faults + 1

(* The ten minutes of a manual scan are over.                               *)
Deadline(s) ==
  /\ s \in Manual
  /\ pc[s] \in Active
  /\ ~cancelled[s] /\ faults < MaxFaults
  /\ faults' = faults + 1
  /\ cancelled' = [cancelled EXCEPT ![s] = TRUE]
  /\ UNCHANGED <<storeVars, pc, opts, request, todo, found, errs, clusterVars>>

(* SIGTERM: only the loop's context derives from the one it cancels.        *)
Signal ==
  /\ ~cancelled[Loop]
  /\ cancelled' = [cancelled EXCEPT ![Loop] = TRUE]
  /\ UNCHANGED <<storeVars, pc, opts, request, todo, found, errs, clusterVars, faults>>

-----------------------------------------------------------------------------
(* Starting a scan.                                                         *)

(* What a scan may read from Handler.scanOpts: PUT /settings assigns its     *)
(* fields without a lock (module SettingsPages), so any mixture of the       *)
(* settings of the start and those that were put.                           *)
ScanOpts ==
  LET values == {StartSettings} \cup SettingsValues
  IN {[included |-> v.included, excluded |-> w.excluded] : v, w \in values}

(* Mutant: a namespace left out is taken for one without a name.            *)
OptionsOfNamespace(base, req) ==
  [included |-> {req.namespace}, excluded |-> base.excluded,
   skip |-> {}, workload |-> req.workload]

(* scopedScanOptions: the namespace asked for replaces the allowlist.       *)
ScopedScanOptions(base, req) ==
  [included |-> IF req.namespace # None THEN {req.namespace} ELSE base.included,
   excluded |-> base.excluded, skip |-> {}, workload |-> req.workload]

(* Run and RunScoped raise the flag and start discovery, which asks for all *)
(* namespaces unless the options name some.                                 *)
Begin(s, o) ==
  /\ SetScanning(TRUE)
  /\ opts' = [opts EXCEPT ![s] = o]
  /\ todo' = [todo EXCEPT ![s] = o.included \ o.excluded]
  /\ pc' = [pc EXCEPT ![s] = IF o.included = {} THEN "namespaces" ELSE "pods"]
  /\ UNCHANGED <<request, found, errs, cancelled, clusterVars, faults>>

StartupScan ==
  /\ pc[Loop] = "startup"
  /\ Begin(Loop, StartupOptions)

Tick ==
  /\ pc[Loop] = "idle"
  /\ Begin(Loop, LoopOptions)

(* With the context done and a tick pending, select takes either.           *)
LoopExit ==
  /\ pc[Loop] = "idle" /\ cancelled[Loop]
  /\ pc' = [pc EXCEPT ![Loop] = "exited"]
  /\ UNCHANGED <<storeVars, opts, request, todo, found, errs, cancelled,
                 clusterVars, faults>>

(* postScan reads the flag; the listener is closed once SIGTERM arrived.    *)
Post(s) ==
  /\ pc[s] \in {"idle", "refused"} /\ ~cancelled[Loop]
  /\ pc' = [pc EXCEPT ![s] = IF scanning THEN "refused" ELSE "admitted"]
  /\ UNCHANGED <<storeVars, opts, request, todo, found, errs, cancelled,
                 clusterVars, faults>>

(* It then reads and validates the body, answers 400 or spawns and 202.     *)
Accept(s, req) ==
  /\ pc[s] = "admitted"
  /\ IF req.workload # None /\ req.namespace = None
       THEN /\ pc' = [pc EXCEPT ![s] = "idle"]
            /\ UNCHANGED request
       ELSE /\ pc' = [pc EXCEPT ![s] = "spawned"]
            /\ request' = [request EXCEPT ![s] = req]
  /\ UNCHANGED <<storeVars, opts, todo, found, errs, cancelled,
                 clusterVars, faults>>

(* Mutant: the goroutine polls the flag until no other scan runs.           *)
BeginManualWhenFree(s) ==
  /\ pc[s] = "spawned" /\ ~scanning
  /\ \E base \in ScanOpts : Begin(s, ScopedScanOptions(base, request[s]))

(* The goroutine reads scanOpts when it first runs.                         *)
BeginManual(s) ==
  /\ pc[s] = "spawned"
  /\ \E base \in ScanOpts : Begin(s, ScopedScanOptions(base, request[s]))

-----------------------------------------------------------------------------
(* Discovery.                                                               *)

(* Failing to list the namespaces is the one discovery error a scan returns. *)
ListNamespaces(s) ==
  /\ pc[s] = "namespaces"
  /\ \/ /\ ~cancelled[s]
        /\ todo' = [todo EXCEPT ![s] = Namespaces \ opts[s].excluded]
        /\ pc' = [pc EXCEPT ![s] = "pods"]
        /\ UNCHANGED faults
     \/ /\ Fails(s)
        /\ pc' = [pc EXCEPT ![s] = "abort"]
        /\ UNCHANGED todo
  /\ UNCHANGED <<storeVars, opts, request, found, errs, cancelled, clusterVars>>

(* Mutant: a container that has no image counts as well.                    *)
RunningOrNot(ns) == {c \in Containers : NsOf[c] = ns}

Running(ns) == {c \in Containers : NsOf[c] = ns /\ cluster[c] # None}

(* A namespace whose pods cannot be listed is skipped with a warning.       *)
ListPods(s, ns) ==
  /\ pc[s] = "pods" /\ ns \in todo[s]
  /\ todo' = [todo EXCEPT ![s] = @ \ {ns}]
  /\ \/ /\ ~cancelled[s]
        /\ found' = [found EXCEPT ![s] =
             [i \in Ids |-> IF i \in Running(ns)
                              THEN [image |-> cluster[i], status |-> "unknown"]
                              ELSE @[i]]]
        /\ UNCHANGED faults
     \/ /\ Fails(s)
        /\ UNCHANGED found
  /\ UNCHANGED <<storeVars, pc, opts, request, errs, cancelled, clusterVars>>

(* The records of the pods in "pods" once the owners in "lost" are unknown: *)
(* those containers go by the name of their ReplicaSet.                     *)
Resolved(pods, lost) ==
  [i \in Ids |->
     IF i \in lost THEN None
     ELSE IF \E c \in lost : RSName[c] = i THEN pods[CHOOSE c \in lost : RSName[c] = i]
     ELSE pods[i]]

WorkloadMatches(o, i) == o.workload = None \/ WorkloadOf[i] = o.workload
Selected(o, recs) ==
  [i \in Ids |-> IF i \notin o.skip /\ WorkloadMatches(o, i) THEN recs[i] ELSE None]

(* buildRSOwnerMap only warns when a list fails, and a ReplicaSet deleted   *)
(* since the pods were listed is not in it.  The workload filters come      *)
(* after, on whatever owner was resolved.                                   *)
ResolveOwners(s) ==
  LET owned == {c \in Containers : RSName[c] # c /\ found[s][c] # None}
  IN /\ pc[s] = "pods" /\ todo[s] = {}
     /\ \E lost \in SUBSET owned :
          /\ cancelled[s] => lost = owned
          /\ IF lost = {} THEN UNCHANGED faults ELSE Fails(s)
          /\ found' = [found EXCEPT ![s] = Selected(opts[s], Resolved(@, lost))]
     /\ pc' = [pc EXCEPT ![s] = "check"]
     /\ UNCHANGED <<storeVars, opts, request, todo, errs, cancelled, clusterVars>>

-----------------------------------------------------------------------------
(* Checks and publication.                                                  *)

FoundImages(recs) == {recs[i].image : i \in {j \in Ids : recs[j] # None}}

(* checkRecords looks every image up once and marks all its records.  With  *)
(* the context done, lookups fail, or are skipped and leave their records   *)
(* as discovery made them, with or without an error text for it.            *)
CheckRecords(s) ==
  /\ pc[s] = "check"
  /\ \E verdict \in [FoundImages(found[s]) -> Statuses], ctx \in SUBSET {CtxDone} :
       LET skipped == {m \in FoundImages(found[s]) : verdict[m] = "unknown"}
           failed == {m \in FoundImages(found[s]) : verdict[m] = "failed"}
       IN /\ skipped # {} => cancelled[s]
          /\ skipped = {} => ctx = {}
          /\ found' = [found EXCEPT ![s] = [i \in Ids |->
               IF @[i] = None THEN None
               ELSE [image |-> @[i].image, status |-> verdict[@[i].image]]]]
          /\ errs' = [errs EXCEPT ![s] = failed \cup ctx]
  /\ pc' = [pc EXCEPT ![s] = "publish"]
  /\ UNCHANGED <<storeVars, opts, request, todo, cancelled, clusterVars, faults>>

(* Mutant: a workload is looked for in every namespace.                     *)
MatcherOfAnyNamespace(o) ==
  {i \in Ids : IF o.workload # None THEN WorkloadMatches(o, i)
               ELSE o.included # {} => NsOf[i] \in o.included}

(* scopedRecordMatcher: the cached records a scoped scan replaces.          *)
ScopedRecordMatcher(o) ==
  {i \in Ids : /\ o.included # {} => NsOf[i] \in o.included
               /\ WorkloadMatches(o, i)}

(* Only RunScoped spares the records outside its options.                   *)
Publish(s) ==
  /\ pc[s] = "publish"
  /\ IF Scoped(request[s])
       THEN ReplaceWhere(found[s], ScopedRecordMatcher(opts[s]))
       ELSE SetRecords(found[s])
  /\ pc' = [pc EXCEPT ![s] = "errors"]
  /\ UNCHANGED <<opts, request, todo, found, errs, cancelled, clusterVars, faults>>

PublishErrors(s) ==
  /\ pc[s] = "errors"
  /\ SetErrors(errs[s])
  /\ pc' = [pc EXCEPT ![s] = "finish"]
  /\ UNCHANGED <<opts, request, todo, found, errs, cancelled, clusterVars, faults>>

(* Mutant: the flag is lowered at the end of the body instead of deferred.  *)
LowerFlagOnSuccess(s) == SetScanning(IF pc[s] = "abort" THEN scanning ELSE FALSE)

(* The deferred SetScanning(false).                                         *)
LowerFlag(s) == SetScanning(FALSE)

(* It runs on both ways out of Run, whose locals die with it.               *)
Finish(s) ==
  /\ pc[s] \in {"finish", "abort"}
  /\ LowerFlag(s)
  /\ pc' = [pc EXCEPT ![s] = IF pc[s] = "finish" THEN "after" ELSE "idle"]
  /\ opts' = [opts EXCEPT ![s] = NoOptions]
  /\ request' = [request EXCEPT ![s] = FullRequest]
  /\ todo' = [todo EXCEPT ![s] = {}]
  /\ found' = [found EXCEPT ![s] = Empty]
  /\ errs' = [errs EXCEPT ![s] = {}]
  /\ cancelled' = [cancelled EXCEPT ![s] = IF s = Loop THEN @ ELSE FALSE]
  /\ UNCHANGED <<clusterVars, faults>>

(* afterScan persists the store (module SaveFile) and the process is free.  *)
AfterScan(s) ==
  /\ pc[s] = "after"
  /\ pc' = [pc EXCEPT ![s] = "idle"]
  /\ UNCHANGED <<storeVars, opts, request, todo, found, errs, cancelled,
                 clusterVars, faults>>

-----------------------------------------------------------------------------
ScanStep(s) ==
  \/ ListNamespaces(s)
  \/ \E ns \in Namespaces : ListPods(s, ns)
  \/ ResolveOwners(s)
  \/ CheckRecords(s)
  \/ Publish(s)
  \/ PublishErrors(s)
  \/ Finish(s)
  \/ AfterScan(s)

LoopStep == StartupScan \/ Tick \/ ScanStep(Loop)

ManualStep(s) == BeginManual(s) \/ ScanStep(s)

Next ==
  \/ LoopStep
  \/ LoopExit
  \/ \E s \in Manual :
       \/ Post(s)
       \/ \E req \in Requests : Accept(s, req)
       \/ ManualStep(s)
       \/ Deadline(s)
  \/ \E c \in Containers, m \in Images \cup {None} : ChangeCluster(c, m)
  \/ Signal

Spec == Init /\ [][Next]_vars

(* Goroutines that can run do run, every list call and lookup returns or    *)
(* fails, and the ticker ticks.  Nothing obliges clients, the cluster or    *)
(* SIGTERM to act.                                                          *)
Fairness ==
  /\ WF_vars(LoopStep)
  /\ \A s \in Manual : WF_vars(ManualStep(s))

FairSpec == Spec /\ Fairness

-----------------------------------------------------------------------------
(* Properties.                                                              *)

(* The running flag never outlives the scans: while no scan is between      *)
(* SetScanning(true) and its deferred SetScanning(false), however the scans *)
(* before overlapped or failed, GET /scan reports running = false and the   *)
(* next POST is not refused for a scan that is gone (Run, RunScoped).       *)
QuiescentNotScanning == scanning => \E s \in Procs : pc[s] \in Active

Asked(req, i) ==
  /\ req.namespace # None => NsOf[i] = req.namespace
  /\ req.workload # None => WorkloadOf[i] = req.workload

(* Publishing a scoped scan replaces what the POST body asked for by what   *)
(* was found there and touches no other record, whatever settings were      *)
(* being written when it began and whatever another scan published since    *)
(* (RunScoped with scopedScanOptions and scopedRecordMatcher).              *)
ScopedPublishLocal ==
  [][\A s \in Manual :
       pc[s] = "publish" /\ pc'[s] = "errors" /\ Scoped(request[s]) =>
         \A i \in Ids : records'[i] = IF Asked(request[s], i) THEN found[s][i]
                                                             ELSE records[i]]_vars

(* With no scan overlapping another (no manual scans), the reported error   *)
(* texts and the stored check_failed records are always of the same scan,   *)
(* also after failed, cancelled and partial scans: SetRecords and SetErrors *)
(* lock separately, so only between the two may they differ.                *)
ErrorsMatchRecords ==
  lastScan /\ (\A s \in Procs : pc[s] # "errors") =>
    errors \ {CtxDone} =
      {records[i].image : i \in {j \in Ids : records[j] # None /\ records[j].status = "failed"}}

(* The running flag comes down again after every scan, so a client that     *)
(* polls it is not kept waiting forever.                                    *)
FlagClears == scanning ~> ~scanning

(* Every manual scan answered with 202 runs and ends.                       *)
AcceptedScanEnds == \A s \in Manual : pc[s] = "spawned" ~> pc[s] = "idle"

Wanted(i) == IF /\ i \in Containers
                /\ NsOf[i] \notin StartSettings.excluded
                /\ StartSettings.included # {} => NsOf[i] \in StartSettings.included
               THEN cluster[i] ELSE None
Cached(i) == IF records[i] = None THEN None ELSE records[i].image

(* A scan of what the loop scans too, with the settings of the start.       *)
LikeTheLoop(s) ==
  /\ opts[s] = ScopedScanOptions(StartSettings, request[s])
  /\ Scoped(request[s]) /\ StartSettings.included # {} =>
       request[s].namespace \in StartSettings.included

(* One under options that PUT /settings changed since, or of a namespace    *)
(* outside the allowlist.                                                   *)
Astray(s) == s \in Manual /\ pc[s] \in Active /\ ~LikeTheLoop(s)

(* Self-healing.  Overlapping scans may publish an old view over a newer    *)
(* one, failed list calls drop namespaces and lost owners rename records,   *)
(* and scans under changed settings or outside the allowlist publish what   *)
(* the loop knows nothing of; but once the cluster and the Kubernetes API   *)
(* have been quiet for long enough and no more scans of the last kind are   *)
(* asked for, the loop brings the store to exactly what runs, for good.     *)
Converges ==
  [](~cancelled[Loop]) /\ <>[](\A s \in Manual : ~Astray(s)) =>
    <>[](\A i \in Ids : Cached(i) = Wanted(i))
=============================================================================
