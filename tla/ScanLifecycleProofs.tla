------------------------- MODULE ScanLifecycleProofs -------------------------
(* Proofs about ScanLifecycle, for every cluster topology, every number of   *)
(* manual scans and every settings value.                                    *)
EXTENDS ScanLifecycle, TLAPS

-----------------------------------------------------------------------------
(* Facts about the operators of discovery and publication.                  *)

LEMMA EmptyType == Empty \in RecordMap
BY DEF Empty, RecordMap

LEMMA RecordFields ==
  ASSUME NEW m \in Images, NEW st \in Statuses
  PROVE  [image |-> m, status |-> st] \in Record
BY DEF Record

(* A container whose owner is lost reappears under another ID of its own    *)
(* namespace, so the result stays a record map.                             *)
LEMMA ResolvedType ==
  ASSUME NEW pods \in RecordMap, NEW lost \in SUBSET Containers
  PROVE  Resolved(pods, lost) \in RecordMap
<1>1. ASSUME NEW i \in Ids
      PROVE  IF i \in lost THEN TRUE
             ELSE (\E c \in lost : RSName[c] = i) =>
                    (CHOOSE c \in lost : RSName[c] = i) \in Ids
  BY TopologyAssumption
<1> QED
  BY <1>1 DEF Resolved, RecordMap

LEMMA SelectedType ==
  ASSUME NEW o, NEW recs \in RecordMap
  PROVE  Selected(o, recs) \in RecordMap
BY DEF Selected, RecordMap

-----------------------------------------------------------------------------
(* Type correctness.                                                        *)

LEMMA OptionsType ==
  /\ NoOptions \in Options
  /\ LoopOptions \in Options
  /\ StartupOptions \in Options
  /\ FullRequest \in Request
BY InputAssumption, TopologyAssumption
   DEF NoOptions, LoopOptions, StartupOptions, Options, Settings, FullRequest, Request

LEMMA ScopedOptionsType ==
  ASSUME NEW base \in ScanOpts, NEW req \in Request
  PROVE  ScopedScanOptions(base, req) \in Options
<1>1. base.included \in SUBSET Namespaces /\ base.excluded \in SUBSET Namespaces
  BY InputAssumption DEF ScanOpts, Settings
<1> QED
  BY <1>1 DEF ScopedScanOptions, Request, Options

LEMMA InitType == Init => TypeOK
<1> SUFFICES ASSUME Init PROVE TypeOK
  OBVIOUS
<1> USE DEF Init, StartPc
<1>1. StoreTypeOK
  BY InputAssumption DEF StoreInit, StoreTypeOK
<1>2. /\ pc \in [Procs -> Positions]
      /\ opts \in [Procs -> Options]
      /\ request \in [Procs -> Request]
  BY OptionsType DEF Positions
<1>3. /\ todo \in [Procs -> SUBSET Namespaces]
      /\ found \in [Procs -> RecordMap]
      /\ errs \in [Procs -> SUBSET ErrorTexts]
      /\ cancelled \in [Procs -> BOOLEAN]
  BY EmptyType
<1>4. /\ changes \in 0..MaxChanges
      /\ faults \in 0..MaxFaults
  BY InputAssumption, BoundAssumption
<1>5. cluster \in [Containers -> Images \cup {None}]
  BY InputAssumption
<1> QED
  BY <1>1, <1>2, <1>3, <1>4, <1>5 DEF TypeOK

LEMMA BeginType ==
  ASSUME TypeOK, NEW s \in Procs, NEW o \in Options, Begin(s, o)
  PROVE  TypeOK'
BY DEF TypeOK, StoreTypeOK, Begin, SetScanning, Options, Positions, Active,
       clusterVars

LEMMA ListPodsType ==
  ASSUME TypeOK, NEW s \in Procs, NEW ns \in Namespaces, ListPods(s, ns)
  PROVE  TypeOK'
<1>1. found' \in [Procs -> RecordMap]
  <2>1. ASSUME NEW i \in Running(ns)
        PROVE  [image |-> cluster[i], status |-> "unknown"] \in Record
    BY <2>1 DEF Running, TypeOK, Record, Statuses
  <2>2. found[s] \in RecordMap
    BY DEF TypeOK
  <2>3. [i \in Ids |-> IF i \in Running(ns)
                        THEN [image |-> cluster[i], status |-> "unknown"]
                        ELSE found[s][i]] \in RecordMap
    BY <2>1, <2>2 DEF RecordMap
  <2> QED
    BY <2>3 DEF ListPods, TypeOK
<1>2. faults' \in 0..MaxFaults
  BY BoundAssumption DEF ListPods, Fails, TypeOK
<1> QED
  BY <1>1, <1>2 DEF TypeOK, StoreTypeOK, ListPods, storeVars, clusterVars

LEMMA ResolveOwnersType ==
  ASSUME TypeOK, NEW s \in Procs, ResolveOwners(s)
  PROVE  TypeOK'
<1>1. PICK lost \in SUBSET {c \in Containers : RSName[c] # c /\ found[s][c] # None} :
        /\ IF lost = {} THEN UNCHANGED faults ELSE Fails(s)
        /\ found' = [found EXCEPT ![s] = Selected(opts[s], Resolved(found[s], lost))]
  BY DEF ResolveOwners
<1>2. found' \in [Procs -> RecordMap]
  <2>1. Selected(opts[s], Resolved(found[s], lost)) \in RecordMap
    BY ResolvedType, SelectedType DEF TypeOK
  <2> QED
    BY <1>1, <2>1 DEF TypeOK
<1>3. faults' \in 0..MaxFaults
  BY <1>1, BoundAssumption DEF Fails, TypeOK
<1> QED
  BY <1>2, <1>3
  DEF TypeOK, StoreTypeOK, ResolveOwners, storeVars, clusterVars, Positions, Active

LEMMA CheckRecordsType ==
  ASSUME TypeOK, NEW s \in Procs, CheckRecords(s)
  PROVE  TypeOK'
<1>1. PICK verdict \in [FoundImages(found[s]) -> Statuses], ctx \in SUBSET {CtxDone} :
        /\ found' = [found EXCEPT ![s] = [i \in Ids |->
             IF found[s][i] = None THEN None
             ELSE [image |-> found[s][i].image, status |-> verdict[found[s][i].image]]]]
        /\ errs' = [errs EXCEPT ![s] =
             {m \in FoundImages(found[s]) : verdict[m] = "failed"} \cup ctx]
  BY DEF CheckRecords
<1>2. \A i \in Ids : found[s][i] # None =>
        /\ found[s][i].image \in Images
        /\ found[s][i].image \in FoundImages(found[s])
  BY DEF TypeOK, RecordMap, Record, FoundImages
<1>3. FoundImages(found[s]) \subseteq Images
  BY DEF TypeOK, RecordMap, Record, FoundImages
<1>4. found' \in [Procs -> RecordMap]
  <2>1. [i \in Ids |->
           IF found[s][i] = None THEN None
           ELSE [image |-> found[s][i].image, status |-> verdict[found[s][i].image]]]
          \in RecordMap
    BY <1>2, RecordFields DEF RecordMap
  <2> QED
    BY <1>1, <2>1 DEF TypeOK
<1>5. errs' \in [Procs -> SUBSET ErrorTexts]
  BY <1>1, <1>3 DEF TypeOK, ErrorTexts
<1> QED
  BY <1>4, <1>5
  DEF TypeOK, StoreTypeOK, CheckRecords, storeVars, clusterVars, Positions, Active

LEMMA PublishType ==
  ASSUME TypeOK, NEW s \in Procs, Publish(s)
  PROVE  TypeOK'
<1>1. records' \in RecordMap /\ lastScan' \in BOOLEAN /\ UNCHANGED <<scanning, errors>>
  <2>1. found[s] \in RecordMap /\ records \in RecordMap
    BY DEF TypeOK, StoreTypeOK
  <2>2. CASE Scoped(request[s])
    <3>1. ReplaceWhere(found[s], ScopedRecordMatcher(opts[s]))
      BY <2>2 DEF Publish
    <3> QED
      BY <2>1, <3>1 DEF ReplaceWhere, RecordMap
  <2>3. CASE ~Scoped(request[s])
    <3>1. SetRecords(found[s])
      BY <2>3 DEF Publish
    <3> QED
      BY <2>1, <3>1 DEF SetRecords
  <2> QED
    BY <2>2, <2>3
<1> QED
  BY <1>1 DEF TypeOK, StoreTypeOK, Publish, clusterVars, Positions, Active

LEMMA FinishType ==
  ASSUME TypeOK, NEW s \in Procs, Finish(s)
  PROVE  TypeOK'
<1>1. opts' \in [Procs -> Options] /\ request' \in [Procs -> Request]
  BY OptionsType DEF TypeOK, Finish
<1>2. found' \in [Procs -> RecordMap]
  BY EmptyType DEF TypeOK, Finish
<1>3. /\ pc' \in [Procs -> Positions]
      /\ todo' \in [Procs -> SUBSET Namespaces]
      /\ errs' \in [Procs -> SUBSET ErrorTexts]
      /\ cancelled' \in [Procs -> BOOLEAN]
  BY DEF TypeOK, Finish, Positions
<1> QED
  BY <1>1, <1>2, <1>3
  DEF TypeOK, StoreTypeOK, Finish, LowerFlag, SetScanning, clusterVars

LEMMA ScanStepType ==
  ASSUME TypeOK, NEW s \in Procs, ScanStep(s)
  PROVE  TypeOK'
<1>1. CASE ListNamespaces(s)
  BY <1>1, BoundAssumption DEF TypeOK, StoreTypeOK, ListNamespaces, Fails, storeVars,
              clusterVars, Positions, Active
<1>2. CASE \E ns \in Namespaces : ListPods(s, ns)
  BY <1>2, ListPodsType
<1>3. CASE ResolveOwners(s)
  BY <1>3, ResolveOwnersType
<1>4. CASE CheckRecords(s)
  BY <1>4, CheckRecordsType
<1>5. CASE Publish(s)
  BY <1>5, PublishType
<1>6. CASE PublishErrors(s)
  BY <1>6 DEF TypeOK, StoreTypeOK, PublishErrors, SetErrors, clusterVars,
              Positions, Active
<1>7. CASE Finish(s)
  BY <1>7, FinishType
<1>8. CASE AfterScan(s)
  BY <1>8 DEF TypeOK, StoreTypeOK, AfterScan, storeVars, clusterVars,
              Positions, Active
<1> QED
  BY <1>1, <1>2, <1>3, <1>4, <1>5, <1>6, <1>7, <1>8 DEF ScanStep

LEMMA NextType == TypeOK /\ [Next]_vars => TypeOK'
<1> SUFFICES ASSUME TypeOK, [Next]_vars PROVE TypeOK'
  OBVIOUS
<1> USE DEF TypeOK, StoreTypeOK
<1>1. CASE StartupScan
  BY <1>1, BeginType, OptionsType DEF StartupScan, Procs
<1>2. CASE Tick
  BY <1>2, BeginType, OptionsType DEF Tick, Procs
<1>3. CASE LoopExit
  BY <1>3 DEF LoopExit, Procs, Positions, storeVars, clusterVars
<1>4. ASSUME NEW s \in Manual, Post(s) PROVE TypeOK'
  BY <1>4 DEF Post, Procs, Positions, storeVars, clusterVars
<1>5. ASSUME NEW s \in Manual, NEW req \in Requests, Accept(s, req) PROVE TypeOK'
  BY <1>5, InputAssumption DEF Accept, Procs, Positions, storeVars, clusterVars
<1>6. ASSUME NEW s \in Manual, BeginManual(s) PROVE TypeOK'
  BY <1>6, BeginType, ScopedOptionsType DEF BeginManual, Procs
<1>7. ASSUME NEW s \in Procs, ScanStep(s) PROVE TypeOK'
  BY <1>7, ScanStepType
<1>8. ASSUME NEW s \in Manual, Deadline(s) PROVE TypeOK'
  BY <1>8, BoundAssumption DEF Deadline, Procs, storeVars, clusterVars
<1>9. ASSUME NEW c \in Containers, NEW m \in Images \cup {None}, ChangeCluster(c, m)
      PROVE TypeOK'
  BY <1>9, BoundAssumption DEF ChangeCluster, storeVars, procVars
<1>10. CASE Signal
  BY <1>10 DEF Signal, Procs, storeVars, clusterVars
<1>11. CASE UNCHANGED vars
  BY <1>11 DEF vars, storeVars, procVars, clusterVars
<1> QED
  BY <1>1, <1>2, <1>3, <1>4, <1>5, <1>6, <1>7, <1>8, <1>9, <1>10, <1>11
  DEF Next, LoopStep, ManualStep, Procs

(* Every variable keeps its type: in particular a discovery that loses      *)
(* owners still yields one record, or none, per ID.                         *)
THEOREM TypeCorrect == Spec => []TypeOK
BY InitType, NextType, PTL DEF Spec

-----------------------------------------------------------------------------
(* Who moves.  A process's step leaves the other processes where they are.  *)

Untouched(s) ==
  /\ pc'[s] = pc[s] /\ opts'[s] = opts[s] /\ request'[s] = request[s]
  /\ todo'[s] = todo[s] /\ found'[s] = found[s]

LEMMA ScanStepMoves ==
  ASSUME TypeOK, NEW t \in Procs, ScanStep(t), NEW s \in Procs, s # t
  PROVE  Untouched(s)
BY DEF TypeOK, ScanStep, ListNamespaces, ListPods, ResolveOwners, CheckRecords, Publish,
       PublishErrors, Finish, AfterScan, Untouched

LEMMA BeginMoves ==
  ASSUME TypeOK, NEW t \in Procs, NEW o, Begin(t, o), NEW s \in Procs, s # t
  PROVE  Untouched(s)
BY DEF TypeOK, Begin, Untouched

-----------------------------------------------------------------------------
(* The running flag.                                                        *)

LEMMA FlagInit == Init => QuiescentNotScanning
BY DEF Init, StoreInit, QuiescentNotScanning

LEMMA FlagBegin ==
  ASSUME TypeOK, NEW s \in Procs, NEW o, Begin(s, o)
  PROVE  QuiescentNotScanning'
<1>1. pc'[s] \in Active
  BY DEF TypeOK, Begin, Active
<1> QED
  BY <1>1 DEF QuiescentNotScanning

(* A scan step other than the last keeps the flag and stays active; the     *)
(* last one lowers the flag.                                                *)
LEMMA FlagScanStep ==
  ASSUME TypeOK, QuiescentNotScanning, NEW s \in Procs, ScanStep(s)
  PROVE  QuiescentNotScanning'
<1>1. CASE Finish(s)
  BY <1>1 DEF Finish, LowerFlag, SetScanning, QuiescentNotScanning
<1>2. CASE ~Finish(s)
  <2>1. scanning' = scanning
    BY <1>2 DEF ScanStep, ListNamespaces, ListPods, ResolveOwners, CheckRecords, Publish,
                SetRecords, ReplaceWhere, PublishErrors, SetErrors, AfterScan, storeVars
  <2>2. pc[s] \in Active => pc'[s] \in Active
    BY <1>2 DEF TypeOK, ScanStep, ListNamespaces, ListPods, ResolveOwners, CheckRecords,
                Publish, PublishErrors, AfterScan, Active
  <2>3. \A q \in Procs : q # s => pc'[q] = pc[q]
    BY ScanStepMoves DEF Untouched
  <2> QED
    BY <2>1, <2>2, <2>3 DEF QuiescentNotScanning
<1> QED
  BY <1>1, <1>2

LEMMA FlagNext == TypeOK /\ QuiescentNotScanning /\ [Next]_vars => QuiescentNotScanning'
<1> SUFFICES ASSUME TypeOK, QuiescentNotScanning, [Next]_vars PROVE QuiescentNotScanning'
  OBVIOUS
<1>1. CASE StartupScan \/ Tick
  BY <1>1, FlagBegin DEF StartupScan, Tick, Procs
<1>2. ASSUME NEW s \in Manual, BeginManual(s) PROVE QuiescentNotScanning'
  BY <1>2, FlagBegin DEF BeginManual, Procs
<1>3. ASSUME NEW s \in Procs, ScanStep(s) PROVE QuiescentNotScanning'
  BY <1>3, FlagScanStep
<1>4. CASE LoopExit
  BY <1>4 DEF LoopExit, TypeOK, QuiescentNotScanning, storeVars, Active
<1>5. ASSUME NEW s \in Manual, Post(s) PROVE QuiescentNotScanning'
  BY <1>5 DEF Post, TypeOK, QuiescentNotScanning, storeVars, Active
<1>6. ASSUME NEW s \in Manual, NEW req \in Requests, Accept(s, req) PROVE QuiescentNotScanning'
  BY <1>6 DEF Accept, TypeOK, QuiescentNotScanning, storeVars, Active
<1>7. ASSUME \/ UNCHANGED vars
             \/ Signal
             \/ \E s \in Manual : Deadline(s)
             \/ \E c \in Containers, m \in Images \cup {None} : ChangeCluster(c, m)
      PROVE  QuiescentNotScanning'
  BY <1>7 DEF vars, Signal, Deadline, ChangeCluster, storeVars,
              procVars, QuiescentNotScanning
<1> QED
  BY <1>1, <1>2, <1>3, <1>4, <1>5, <1>6, <1>7 DEF Next, LoopStep, ManualStep, Procs

(* The running flag never outlives the scans, for any number of overlapping *)
(* ones and whatever way each of them ends.                                 *)
THEOREM FlagNeverStuck == Spec => []QuiescentNotScanning
<1>1. TypeOK /\ QuiescentNotScanning /\ [Next]_vars => QuiescentNotScanning'
  BY FlagNext
<1> QED
  BY <1>1, FlagInit, TypeCorrect, PTL DEF Spec

-----------------------------------------------------------------------------
(* Scoped publication.                                                      *)

(* What a manual scan carries belongs to what its request asked for, from   *)
(* the validation of the body to the publication of the result.             *)
WithinScope(s) ==
  /\ pc[s] \notin Active => found[s] = Empty
  /\ pc[s] \in Active \cup {"spawned"} /\ Scoped(request[s]) => request[s].namespace # None
  /\ pc[s] \in Active /\ Scoped(request[s]) =>
       /\ pc[s] \notin {"namespaces", "abort"}
       /\ opts[s].included = {request[s].namespace}
       /\ opts[s].workload = request[s].workload
       /\ todo[s] \subseteq {request[s].namespace}
       /\ \A i \in Ids : found[s][i] # None =>
            /\ NsOf[i] = request[s].namespace
            /\ pc[s] # "pods" => WorkloadMatches(opts[s], i)

ScopeInv == \A s \in Manual : WithinScope(s)

LEMMA ScopeInit == Init => ScopeInv
BY DEF Init, StartPc, ScopeInv, WithinScope, Active, Procs

LEMMA ScopeUntouched ==
  ASSUME NEW s \in Manual, WithinScope(s), Untouched(s)
  PROVE  WithinScope(s)'
BY DEF WithinScope, Untouched

(* The goroutine derives the options from the request it was spawned for,   *)
(* so the namespace is the request's whatever it reads from scanOpts.        *)
LEMMA ScopeBeginManual ==
  ASSUME TypeOK, NEW s \in Manual, WithinScope(s), BeginManual(s)
  PROVE  WithinScope(s)'
<1>1. /\ request'[s] = request[s] /\ found'[s] = found[s]
      /\ \E base \in ScanOpts : opts'[s] = ScopedScanOptions(base, request[s])
      /\ todo'[s] = opts'[s].included \ opts'[s].excluded
      /\ pc'[s] = IF opts'[s].included = {} THEN "namespaces" ELSE "pods"
  BY DEF BeginManual, Begin, TypeOK, Procs
<1>2. found[s] = Empty
  BY DEF WithinScope, BeginManual, Active
<1>3. ASSUME Scoped(request[s])
      PROVE  /\ request[s].namespace # None
             /\ opts'[s].included = {request[s].namespace}
             /\ opts'[s].workload = request[s].workload
             /\ pc'[s] = "pods"
             /\ todo'[s] \subseteq {request[s].namespace}
  <2>1. request[s].namespace # None
    BY <1>3 DEF WithinScope, BeginManual
  <2>2. /\ opts'[s].included = {request[s].namespace}
        /\ opts'[s].workload = request[s].workload
    BY <1>1, <2>1 DEF ScopedScanOptions
  <2> QED
    BY <1>1, <2>1, <2>2
<1>4. \A i \in Ids : found'[s][i] = None
  BY <1>1, <1>2 DEF Empty
<1>5. pc'[s] \in Active
  BY <1>1 DEF Active
<1> QED
  BY <1>1, <1>3, <1>4, <1>5 DEF WithinScope

LEMMA ScopeListPods ==
  ASSUME TypeOK, NEW s \in Manual, WithinScope(s), NEW ns \in Namespaces, ListPods(s, ns)
  PROVE  WithinScope(s)'
<1>1. /\ pc[s] = "pods" /\ pc'[s] = "pods" /\ ns \in todo[s]
      /\ request'[s] = request[s] /\ opts'[s] = opts[s] /\ todo'[s] = todo[s] \ {ns}
      /\ \/ found'[s] = found[s]
         \/ found'[s] = [i \in Ids |-> IF i \in Running(ns)
                                        THEN [image |-> cluster[i], status |-> "unknown"]
                                        ELSE found[s][i]]
  BY DEF ListPods, TypeOK, Procs
<1>2. ASSUME NEW i \in Ids, found'[s][i] # None, found[s][i] = None
      PROVE  NsOf[i] = ns
  BY <1>1, <1>2 DEF Running
<1> QED
  BY <1>1, <1>2 DEF WithinScope, Active

(* A lost owner renames a container inside its namespace, and the workload  *)
(* filter applies to the name the record ends up with.                      *)
LEMMA ScopeResolveOwners ==
  ASSUME TypeOK, NEW s \in Manual, WithinScope(s), ResolveOwners(s)
  PROVE  WithinScope(s)'
<1>1. PICK lost \in SUBSET {c \in Containers : RSName[c] # c /\ found[s][c] # None} :
        found'[s] = Selected(opts[s], Resolved(found[s], lost))
  BY DEF ResolveOwners, TypeOK, Procs
<1>2. /\ pc[s] = "pods" /\ pc'[s] = "check" /\ todo'[s] = todo[s]
      /\ request'[s] = request[s] /\ opts'[s] = opts[s]
  BY DEF ResolveOwners, TypeOK, Procs
<1>3. ASSUME Scoped(request[s]), NEW i \in Ids, found'[s][i] # None
      PROVE  NsOf[i] = request[s].namespace /\ WorkloadMatches(opts[s], i)
  <2>1. WorkloadMatches(opts[s], i) /\ Resolved(found[s], lost)[i] # None
    BY <1>1, <1>3 DEF Selected
  <2>2. \A j \in Ids : found[s][j] # None => NsOf[j] = request[s].namespace
    BY <1>2, <1>3 DEF WithinScope, Active
  <2>3. CASE \E c \in lost : RSName[c] = i
    <3>1. PICK c \in lost : RSName[c] = i
      BY <2>3
    <3> QED
      BY <2>1, <2>2, <3>1, TopologyAssumption
  <2>4. CASE ~ \E c \in lost : RSName[c] = i
    BY <2>1, <2>2, <2>4 DEF Resolved
  <2> QED
    BY <2>1, <2>3, <2>4
<1> QED
  BY <1>2, <1>3 DEF WithinScope, Active

LEMMA ScopeCheckRecords ==
  ASSUME TypeOK, NEW s \in Manual, WithinScope(s), CheckRecords(s)
  PROVE  WithinScope(s)'
<1>1. \A i \in Ids : found'[s][i] # None => found[s][i] # None
  BY DEF CheckRecords, TypeOK, Procs
<1>2. /\ pc[s] = "check" /\ pc'[s] = "publish" /\ todo'[s] = todo[s]
      /\ request'[s] = request[s] /\ opts'[s] = opts[s]
  BY DEF CheckRecords, TypeOK, Procs
<1> QED
  BY <1>1, <1>2 DEF WithinScope, Active

LEMMA ScopeScanStep ==
  ASSUME TypeOK, NEW s \in Manual, WithinScope(s), ScanStep(s)
  PROVE  WithinScope(s)'
<1>1. CASE ListNamespaces(s)
  <2>1. /\ pc[s] = "namespaces" /\ pc'[s] \in {"pods", "abort"} /\ request'[s] = request[s]
    BY <1>1 DEF ListNamespaces, TypeOK, Procs
  <2>2. ~Scoped(request[s])
    BY <2>1 DEF WithinScope, Active
  <2> QED
    BY <2>1, <2>2 DEF WithinScope, Active
<1>2. CASE \E ns \in Namespaces : ListPods(s, ns)
  BY <1>2, ScopeListPods
<1>3. CASE ResolveOwners(s)
  BY <1>3, ScopeResolveOwners
<1>4. CASE CheckRecords(s)
  BY <1>4, ScopeCheckRecords
<1>5. CASE Publish(s) \/ PublishErrors(s)
  <2>1. /\ pc[s] \in {"publish", "errors"} /\ pc'[s] \in {"errors", "finish"}
        /\ todo'[s] = todo[s] /\ request'[s] = request[s]
        /\ opts'[s] = opts[s] /\ found'[s] = found[s]
    BY <1>5 DEF Publish, PublishErrors, TypeOK, Procs
  <2> QED
    BY <2>1 DEF WithinScope, Active
<1>6. CASE Finish(s)
  <2>1. pc'[s] \in {"after", "idle"} /\ found'[s] = Empty
    BY <1>6 DEF Finish, TypeOK, Procs
  <2> QED
    BY <2>1 DEF WithinScope, Active
<1>7. CASE AfterScan(s)
  <2>1. pc[s] = "after" /\ pc'[s] = "idle" /\ found'[s] = found[s]
    BY <1>7 DEF AfterScan, TypeOK, Procs
  <2> QED
    BY <2>1 DEF WithinScope, Active
<1> QED
  BY <1>1, <1>2, <1>3, <1>4, <1>5, <1>6, <1>7 DEF ScanStep

LEMMA ScopeNext == TypeOK /\ ScopeInv /\ [Next]_vars => ScopeInv'
<1> SUFFICES ASSUME TypeOK, ScopeInv, [Next]_vars, NEW s \in Manual
             PROVE  WithinScope(s)'
  BY DEF ScopeInv
<1>0. s \in Procs /\ s # Loop /\ WithinScope(s)
  BY LoopIsNotManual DEF Procs, ScopeInv
<1>1. CASE StartupScan \/ Tick
  <2>1. Untouched(s)
    BY <1>0, <1>1, BeginMoves DEF StartupScan, Tick, Procs
  <2> QED
    BY <1>0, <2>1, ScopeUntouched
<1>2. ASSUME NEW t \in Manual, BeginManual(t) PROVE WithinScope(s)'
  <2>1. CASE t = s
    BY <1>0, <1>2, <2>1, ScopeBeginManual
  <2>2. CASE t # s
    <3>1. Untouched(s)
      BY <1>0, <1>2, <2>2, BeginMoves DEF BeginManual, Procs
    <3> QED
      BY <1>0, <3>1, ScopeUntouched
  <2> QED
    BY <2>1, <2>2
<1>3. ASSUME NEW t \in Procs, ScanStep(t) PROVE WithinScope(s)'
  <2>1. CASE t = s
    BY <1>0, <1>3, <2>1, ScopeScanStep
  <2>2. CASE t # s
    BY <1>0, <1>3, <2>2, ScanStepMoves, ScopeUntouched
  <2> QED
    BY <2>1, <2>2
<1>4. CASE LoopExit
  <2>1. Untouched(s)
    BY <1>0, <1>4 DEF LoopExit, TypeOK, Untouched
  <2> QED
    BY <1>0, <2>1, ScopeUntouched
<1>5. ASSUME NEW t \in Manual, Post(t) PROVE WithinScope(s)'
  <2>1. CASE t = s
    <3>1. /\ pc[s] \notin Active /\ pc'[s] \in {"refused", "admitted"}
          /\ found'[s] = found[s]
      BY <1>0, <1>5, <2>1 DEF Post, TypeOK, Active
    <3> QED
      BY <1>0, <3>1 DEF WithinScope, Active
  <2>2. CASE t # s
    <3>1. Untouched(s)
      BY <1>0, <1>5, <2>2 DEF Post, TypeOK, Untouched
    <3> QED
      BY <1>0, <3>1, ScopeUntouched
  <2> QED
    BY <2>1, <2>2
<1>6. ASSUME NEW t \in Manual, NEW req \in Requests, Accept(t, req) PROVE WithinScope(s)'
  <2>1. CASE t = s
    <3>1. /\ pc[s] \notin Active /\ found'[s] = found[s]
          /\ \/ pc'[s] = "idle"
             \/ /\ pc'[s] = "spawned" /\ request'[s] = req
                /\ req.workload = None \/ req.namespace # None
      BY <1>0, <1>6, <2>1 DEF Accept, TypeOK, Active
    <3>2. req.workload = None /\ req.namespace = None => ~Scoped(req)
      BY InputAssumption DEF Scoped, FullRequest, Request
    <3> QED
      BY <1>0, <3>1, <3>2 DEF WithinScope, Active
  <2>2. CASE t # s
    <3>1. Untouched(s)
      BY <1>0, <1>6, <2>2 DEF Accept, TypeOK, Untouched
    <3> QED
      BY <1>0, <3>1, ScopeUntouched
  <2> QED
    BY <2>1, <2>2
<1>7. ASSUME \/ UNCHANGED vars
             \/ Signal
             \/ \E t \in Manual : Deadline(t)
             \/ \E c \in Containers, m \in Images \cup {None} : ChangeCluster(c, m)
      PROVE  WithinScope(s)'
  <2>1. Untouched(s)
    BY <1>7 DEF vars, Signal, Deadline, ChangeCluster,
                procVars, Untouched
  <2> QED
    BY <1>0, <2>1, ScopeUntouched
<1> QED
  BY <1>1, <1>2, <1>3, <1>4, <1>5, <1>6, <1>7 DEF Next, LoopStep, ManualStep, Procs

LEMMA ScopeAlways == Spec => [](TypeOK /\ ScopeInv)
<1>1. TypeOK /\ ScopeInv /\ [Next]_vars => ScopeInv'
  BY ScopeNext
<1> QED
  BY <1>1, ScopeInit, TypeCorrect, PTL DEF Spec

(* Only Publish(s) takes process s from "publish" to "errors".              *)
LEMMA OnlyPublish ==
  ASSUME TypeOK, NEW s \in Manual, [Next]_vars, pc[s] = "publish", pc'[s] = "errors"
  PROVE  Publish(s)
<1>0. s \in Procs /\ s # Loop
  BY LoopIsNotManual DEF Procs
<1>1. ASSUME NEW t \in Procs, ScanStep(t) PROVE Publish(s)
  <2>1. t = s
    BY <1>0, <1>1, ScanStepMoves DEF Untouched
  <2> QED
    BY <1>0, <1>1, <2>1 DEF ScanStep, ListNamespaces, ListPods, ResolveOwners, CheckRecords,
       PublishErrors, Finish, AfterScan, TypeOK
<1>2. ASSUME NEW t \in Procs, NEW o, Begin(t, o) PROVE FALSE
  BY <1>0, <1>2 DEF Begin, TypeOK
<1>3. ASSUME \/ LoopExit
             \/ \E t \in Manual : Post(t)
             \/ \E t \in Manual, req \in Requests : Accept(t, req)
      PROVE  FALSE
  BY <1>0, <1>3 DEF LoopExit, Post, Accept, TypeOK, Procs
<1>4. ASSUME \/ UNCHANGED vars
             \/ Signal
             \/ \E t \in Manual : Deadline(t)
             \/ \E c \in Containers, m \in Images \cup {None} : ChangeCluster(c, m)
      PROVE  FALSE
  BY <1>4 DEF vars, Signal, Deadline, ChangeCluster, procVars
<1>5. Loop \in Procs /\ Manual \subseteq Procs
  BY DEF Procs
<1> QED
  BY <1>1, <1>2, <1>3, <1>4, <1>5
  DEF Next, LoopStep, ManualStep, StartupScan, Tick, BeginManual

ScopedPublishStep ==
  \A s \in Manual :
    pc[s] = "publish" /\ pc'[s] = "errors" /\ Scoped(request[s]) =>
      \A i \in Ids : records'[i] = IF Asked(request[s], i) THEN found[s][i]
                                                           ELSE records[i]

LEMMA ScopedPublishNext == TypeOK /\ ScopeInv /\ [Next]_vars => ScopedPublishStep
<1> SUFFICES ASSUME TypeOK, ScopeInv, [Next]_vars, NEW s \in Manual,
                    pc[s] = "publish", pc'[s] = "errors", Scoped(request[s]),
                    NEW i \in Ids
             PROVE  records'[i] = IF Asked(request[s], i) THEN found[s][i] ELSE records[i]
  BY DEF ScopedPublishStep
<1>1. /\ request[s].namespace # None
      /\ opts[s].included = {request[s].namespace}
      /\ opts[s].workload = request[s].workload
      /\ found[s][i] # None => /\ NsOf[i] = request[s].namespace
                               /\ WorkloadMatches(opts[s], i)
  BY DEF ScopeInv, WithinScope, Active
<1>2. Asked(request[s], i) <=> i \in ScopedRecordMatcher(opts[s])
  BY <1>1 DEF Asked, ScopedRecordMatcher, WorkloadMatches
<1>3. found[s][i] # None => Asked(request[s], i)
  BY <1>1 DEF Asked, WorkloadMatches
<1>4. ReplaceWhere(found[s], ScopedRecordMatcher(opts[s]))
  BY OnlyPublish DEF Publish
<1> QED
  BY <1>2, <1>3, <1>4 DEF ReplaceWhere

(* A scoped scan replaces exactly what its request asked for, for every     *)
(* topology, any number of concurrent scans and any settings ever put.      *)
THEOREM ScopedPublishIsLocal == Spec => ScopedPublishLocal
<1>1. TypeOK /\ ScopeInv /\ [Next]_vars => [ScopedPublishStep]_vars
  BY ScopedPublishNext
<1>2. Spec => [][ScopedPublishStep]_vars
  BY <1>1, ScopeAlways, PTL DEF Spec
<1> QED
  BY <1>2 DEF ScopedPublishLocal, ScopedPublishStep

-----------------------------------------------------------------------------
(* Self-healing, the part that is no liveness: what a quiet system keeps.   *)

ImageOf(rec) == IF rec = None THEN None ELSE rec.image
CacheRight == \A i \in Ids : Cached(i) = Wanted(i)

(* The namespaces a scan under options o lists, and what it sees in some.   *)
Target(o) == (IF o.included = {} THEN Namespaces ELSE o.included) \ o.excluded
RunsIn(ns, i) == IF i \in Containers /\ NsOf[i] \in ns THEN cluster[i] ELSE None

(* What the scan has collected is what runs now, as far as it has come.     *)
FreshScan(s) ==
  /\ pc[s] \notin Active => found[s] = Empty /\ ~cancelled[s]
  /\ pc[s] \in {"namespaces", "pods", "check", "publish"} => ~cancelled[s] /\ LikeTheLoop(s)
  /\ pc[s] = "namespaces" => opts[s].included = {} /\ found[s] = Empty
  /\ pc[s] = "pods" =>
       /\ todo[s] \subseteq Target(opts[s])
       /\ \A i \in Ids : ImageOf(found[s][i]) = RunsIn(Target(opts[s]) \ todo[s], i)
  /\ pc[s] \in {"check", "publish"} =>
       \A i \in Ids : ImageOf(found[s][i]) =
         IF WorkloadMatches(opts[s], i) THEN RunsIn(Target(opts[s]), i) ELSE None

(* No more calls fail, and the startup scan, which leaves out image-roundup *)
(* itself, has begun.                                                       *)
Calm == faults = MaxFaults /\ ~cancelled[Loop] /\ pc[Loop] # "startup"

Fresh == Calm /\ \A s \in Procs : FreshScan(s)

Quiet == UNCHANGED cluster /\ ~cancelled'[Loop] /\ \A s \in Manual : ~Astray(s)'

(* Between its scans a process holds nothing, and the loop's are full ones. *)
Resting(s) == pc[s] \notin Active => found[s] = Empty /\ (s \in Manual => ~cancelled[s])
RestInv == request[Loop] = FullRequest /\ \A s \in Procs : Resting(s)

LEMMA RestInit == Init => RestInv
BY DEF Init, StartPc, RestInv, Resting, Active, Procs

LEMMA RestBegin ==
  ASSUME TypeOK, RestInv, NEW s \in Procs, NEW o, Begin(s, o)
  PROVE  RestInv'
<1>1. pc'[s] \in Active /\ cancelled' = cancelled /\ request' = request
  BY DEF Begin, TypeOK, Active
<1>2. ASSUME NEW t \in Procs PROVE Resting(t)'
  BY <1>1, BeginMoves DEF Untouched, RestInv, Resting
<1> QED
  BY <1>1, <1>2 DEF RestInv

LEMMA RestScanStep ==
  ASSUME TypeOK, RestInv, NEW s \in Procs, ScanStep(s)
  PROVE  RestInv'
<1>1. \A t \in Procs : t # s => cancelled'[t] = cancelled[t]
  BY DEF ScanStep, ListNamespaces, ListPods, ResolveOwners, CheckRecords, Publish,
         PublishErrors, Finish, AfterScan, TypeOK
<1>2. request'[Loop] = FullRequest
  BY DEF RestInv, ScanStep, ListNamespaces, ListPods, ResolveOwners, CheckRecords, Publish,
         PublishErrors, Finish, AfterScan, TypeOK, Procs
<1>3. Resting(s)'
  <2>1. CASE Finish(s)
    BY <2>1, LoopIsNotManual DEF Finish, TypeOK, Resting
  <2>2. CASE AfterScan(s)
    BY <2>2 DEF AfterScan, TypeOK, Resting, RestInv, Active
  <2>3. CASE ~Finish(s) /\ ~AfterScan(s)
    <3>1. pc'[s] \in Active
      BY <2>3 DEF ScanStep, ListNamespaces, ListPods, ResolveOwners, CheckRecords, Publish,
                  PublishErrors, TypeOK, Active
    <3> QED
      BY <3>1 DEF Resting
  <2> QED
    BY <2>1, <2>2, <2>3
<1>4. ASSUME NEW t \in Procs, t # s PROVE Resting(t)'
  BY <1>1, <1>4, ScanStepMoves DEF Untouched, RestInv, Resting
<1> QED
  BY <1>2, <1>3, <1>4 DEF RestInv

LEMMA RestNext == TypeOK /\ RestInv /\ [Next]_vars => RestInv'
<1> SUFFICES ASSUME TypeOK, RestInv, [Next]_vars PROVE RestInv'
  OBVIOUS
<1> USE LoopIsNotManual DEF Procs
<1>1. CASE StartupScan \/ Tick
  BY <1>1, RestBegin DEF StartupScan, Tick
<1>2. ASSUME NEW s \in Manual, BeginManual(s) PROVE RestInv'
  BY <1>2, RestBegin DEF BeginManual
<1>3. ASSUME NEW s \in Procs, ScanStep(s) PROVE RestInv'
  BY <1>3, RestScanStep
<1>4. CASE LoopExit
  BY <1>4 DEF LoopExit, TypeOK, RestInv, Resting, Active
<1>5. ASSUME NEW s \in Manual, Post(s) PROVE RestInv'
  BY <1>5 DEF Post, TypeOK, RestInv, Resting, Active
<1>6. ASSUME NEW s \in Manual, NEW req \in Requests, Accept(s, req) PROVE RestInv'
  BY <1>6 DEF Accept, TypeOK, RestInv, Resting, Active
<1>7. ASSUME NEW s \in Manual, Deadline(s) PROVE RestInv'
  BY <1>7 DEF Deadline, TypeOK, RestInv, Resting
<1>8. CASE Signal
  BY <1>8 DEF Signal, TypeOK, RestInv, Resting
<1>9. ASSUME \/ UNCHANGED vars
             \/ \E c \in Containers, m \in Images \cup {None} : ChangeCluster(c, m)
      PROVE  RestInv'
  BY <1>9 DEF vars, ChangeCluster, procVars, RestInv, Resting
<1> QED
  BY <1>1, <1>2, <1>3, <1>4, <1>5, <1>6, <1>7, <1>8, <1>9 DEF Next, LoopStep, ManualStep

-----------------------------------------------------------------------------
(* In a calm system no fault is left, so a call fails only when its context *)
(* is done, and that of a fresh scan is not.                                *)
LEMMA CalmFails ==
  ASSUME Calm, NEW s \in Procs, Fails(s)
  PROVE  cancelled[s] /\ faults' = faults
BY BoundAssumption DEF Calm, Fails

LEMMA CalmScanStep ==
  ASSUME TypeOK, Calm, NEW s \in Procs, ScanStep(s)
  PROVE  Calm'
<1>1. faults' = faults
  BY CalmFails DEF ScanStep, ListNamespaces, ListPods, ResolveOwners,
     CheckRecords, Publish, PublishErrors, Finish, AfterScan
<1>2. ~cancelled'[Loop]
  BY DEF Calm, TypeOK, ScanStep, ListNamespaces, ListPods, ResolveOwners,
     CheckRecords, Publish, PublishErrors, Finish, AfterScan, Procs
<1>3. pc'[Loop] # "startup"
  BY DEF Calm, TypeOK, ScanStep, ListNamespaces, ListPods, ResolveOwners,
     CheckRecords, Publish, PublishErrors, Finish, AfterScan, Procs
<1> QED
  BY <1>1, <1>2, <1>3 DEF Calm

LEMMA FreshUntouched ==
  ASSUME NEW s \in Procs, FreshScan(s), UNCHANGED cluster, Untouched(s),
         cancelled'[s] = cancelled[s]
  PROVE  FreshScan(s)'
BY DEF FreshScan, Untouched, RunsIn, LikeTheLoop

LEMMA FreshBegin ==
  ASSUME TypeOK, NEW s \in Procs, NEW o \in Options, FreshScan(s), pc[s] \notin Active,
         Begin(s, o), LikeTheLoop(s)', UNCHANGED cluster
  PROVE  FreshScan(s)'
<1>1. /\ found'[s] = Empty /\ ~cancelled'[s] /\ opts'[s] = o /\ todo'[s] = o.included \ o.excluded
      /\ pc'[s] = IF o.included = {} THEN "namespaces" ELSE "pods"
  BY DEF Begin, FreshScan, TypeOK
<1>2. \A i \in Ids : ImageOf(found'[s][i]) = None
  BY <1>1 DEF ImageOf, Empty
<1>3. CASE o.included = {}
  BY <1>1, <1>3 DEF FreshScan, Active
<1>4. CASE o.included # {}
  <2>1. todo'[s] = Target(opts'[s])
    BY <1>1, <1>4 DEF Target
  <2> QED
    BY <1>1, <1>2, <1>4, <2>1 DEF FreshScan, Active, RunsIn
<1> QED
  BY <1>3, <1>4

LEMMA FreshListPods ==
  ASSUME TypeOK, Calm, NEW s \in Procs, FreshScan(s), NEW ns \in Namespaces, ListPods(s, ns)
  PROVE  FreshScan(s)'
<1>1. ~cancelled[s] /\ LikeTheLoop(s) /\ pc[s] = "pods" /\ ns \in todo[s]
  BY DEF FreshScan, ListPods
<1>2. /\ todo'[s] = todo[s] \ {ns}
      /\ found'[s] = [i \in Ids |-> IF i \in Running(ns)
                                      THEN [image |-> cluster[i], status |-> "unknown"]
                                      ELSE found[s][i]]
      /\ UNCHANGED <<pc, opts, request, cancelled, cluster>>
  BY <1>1, CalmFails DEF ListPods, TypeOK, clusterVars
<1>3. ASSUME NEW i \in Ids
      PROVE  ImageOf(found'[s][i]) = RunsIn(Target(opts[s]) \ todo'[s], i)
  <2>0. ImageOf(found[s][i]) = RunsIn(Target(opts[s]) \ todo[s], i) /\ ns \in Target(opts[s])
    BY <1>1 DEF FreshScan
  <2>1. CASE i \in Running(ns)
    <3>1. ImageOf(found'[s][i]) = cluster[i]
      <4>1. [image |-> cluster[i], status |-> "unknown"] \in Record
        BY <2>1 DEF Running, TypeOK, Record, Statuses
      <4> QED
        BY <1>2, <2>1, <4>1, NoneIsNoRecord DEF ImageOf
    <3> QED
      BY <1>2, <2>0, <2>1, <3>1 DEF RunsIn, Running
  <2>2. CASE i \notin Running(ns)
    BY <1>2, <2>0, <2>2 DEF RunsIn, Running
  <2> QED
    BY <2>1, <2>2
<1>4. LikeTheLoop(s)'
  BY <1>1, <1>2 DEF LikeTheLoop
<1> QED
  BY <1>1, <1>2, <1>3, <1>4 DEF FreshScan, RunsIn, Active

LEMMA FreshResolveOwners ==
  ASSUME TypeOK, Calm, NEW s \in Procs, FreshScan(s), ResolveOwners(s)
  PROVE  FreshScan(s)'
<1>1. ~cancelled[s] /\ LikeTheLoop(s) /\ pc[s] = "pods" /\ todo[s] = {}
  BY DEF FreshScan, ResolveOwners
<1>2. /\ found'[s] = Selected(opts[s], Resolved(found[s], {}))
      /\ pc'[s] = "check"
      /\ UNCHANGED <<opts, request, cancelled, cluster>>
  <2>1. PICK lost \in SUBSET Containers :
          /\ IF lost = {} THEN UNCHANGED faults ELSE Fails(s)
          /\ found' = [found EXCEPT ![s] = Selected(opts[s], Resolved(found[s], lost))]
    BY DEF ResolveOwners
  <2>2. lost = {}
    BY <1>1, <2>1, CalmFails
  <2> QED
    BY <2>1, <2>2 DEF ResolveOwners, TypeOK, clusterVars
<1>3. opts[s].skip = {}
  BY <1>1 DEF LikeTheLoop, ScopedScanOptions
<1>4. ASSUME NEW i \in Ids
      PROVE  ImageOf(found'[s][i]) =
               IF WorkloadMatches(opts[s], i) THEN RunsIn(Target(opts[s]), i) ELSE None
  <2>1. Resolved(found[s], {})[i] = found[s][i]
    BY DEF Resolved
  <2>2. ImageOf(found[s][i]) = RunsIn(Target(opts[s]), i)
    BY <1>1 DEF FreshScan
  <2> QED
    BY <1>2, <1>3, <2>1, <2>2 DEF Selected, ImageOf
<1>5. LikeTheLoop(s)'
  BY <1>1, <1>2 DEF LikeTheLoop
<1> QED
  BY <1>1, <1>2, <1>4, <1>5 DEF FreshScan, RunsIn, Active, WorkloadMatches

LEMMA FreshCheckRecords ==
  ASSUME TypeOK, NEW s \in Procs, FreshScan(s), CheckRecords(s)
  PROVE  FreshScan(s)'
<1>1. /\ pc[s] = "check" /\ pc'[s] = "publish"
      /\ UNCHANGED <<opts, request, cancelled, cluster>>
  BY DEF CheckRecords, TypeOK, clusterVars
<1>2. \A i \in Ids : ImageOf(found'[s][i]) = ImageOf(found[s][i])
  <2>1. PICK verdict \in [FoundImages(found[s]) -> Statuses] :
          found'[s] = [i \in Ids |-> IF found[s][i] = None THEN None
                         ELSE [image |-> found[s][i].image,
                               status |-> verdict[found[s][i].image]]]
    BY DEF CheckRecords, TypeOK
  <2>2. ASSUME NEW i \in Ids, found[s][i] # None
        PROVE  found'[s][i] # None
    <3>1. found[s][i].image \in Images /\ found[s][i].image \in FoundImages(found[s])
      BY <2>2 DEF TypeOK, RecordMap, Record, FoundImages
    <3>2. found'[s][i] \in Record
      BY <2>1, <2>2, <3>1 DEF Record
    <3> QED
      BY <3>2, NoneIsNoRecord
  <2> QED
    BY <2>1, <2>2 DEF ImageOf
<1>3. LikeTheLoop(s) /\ ~cancelled[s]
  BY <1>1 DEF FreshScan
<1>4. LikeTheLoop(s)'
  BY <1>1, <1>3 DEF LikeTheLoop
<1> QED
  BY <1>1, <1>2, <1>3, <1>4 DEF FreshScan, RunsIn, Active, WorkloadMatches

LEMMA FreshScanStep ==
  ASSUME TypeOK, RestInv, Calm, NEW s \in Procs, FreshScan(s), ScanStep(s)
  PROVE  FreshScan(s)'
<1>1. CASE ListNamespaces(s)
  <2>1. ~cancelled[s] /\ LikeTheLoop(s) /\ pc[s] = "namespaces"
        /\ opts[s].included = {} /\ found[s] = Empty
    BY <1>1 DEF ListNamespaces, FreshScan
  <2>2. /\ todo'[s] = Target(opts[s]) /\ pc'[s] = "pods"
        /\ UNCHANGED <<opts, request, cancelled, cluster, found>>
    BY <1>1, <2>1, CalmFails DEF ListNamespaces, Target, TypeOK, clusterVars
  <2>3. LikeTheLoop(s)' /\ \A i \in Ids : ImageOf(found'[s][i]) = None
    BY <2>1, <2>2 DEF LikeTheLoop, ImageOf, Empty
  <2> QED
    BY <2>1, <2>2, <2>3 DEF FreshScan, RunsIn, Active
<1>2. CASE \E ns \in Namespaces : ListPods(s, ns)
  BY <1>2, FreshListPods
<1>3. CASE ResolveOwners(s)
  BY <1>3, FreshResolveOwners
<1>4. CASE CheckRecords(s)
  BY <1>4, FreshCheckRecords
<1>5. CASE Publish(s) \/ PublishErrors(s)
  <2>1. pc'[s] \in {"errors", "finish"}
    BY <1>5 DEF Publish, PublishErrors, TypeOK
  <2> QED
    BY <2>1 DEF FreshScan, Active
<1>6. CASE Finish(s) \/ AfterScan(s)
  <2>1. pc'[s] \in {"after", "idle"} /\ found'[s] = Empty
    BY <1>6 DEF Finish, AfterScan, TypeOK, FreshScan, Active
  <2>2. ~cancelled'[s]
    BY <1>6 DEF Finish, AfterScan, TypeOK, FreshScan, Active, Calm
  <2> QED
    BY <2>1, <2>2 DEF FreshScan, Active
<1> QED
  BY <1>1, <1>2, <1>3, <1>4, <1>5, <1>6 DEF ScanStep

(* A step that moves a process which scans nothing.                         *)
LEMMA FreshIdle ==
  ASSUME NEW s \in Procs, FreshScan(s), pc[s] \notin Active, pc'[s] \notin Active,
         found'[s] = found[s], cancelled'[s] = cancelled[s]
  PROVE  FreshScan(s)'
BY DEF FreshScan, Active

LEMMA LoopScansLikeItself ==
  LoopOptions = ScopedScanOptions(StartSettings, FullRequest) /\ ~Scoped(FullRequest)
<1>1. LoopOptions = [included |-> StartSettings.included, excluded |-> StartSettings.excluded,
                     skip |-> {}, workload |-> None]
  <2>1. /\ LoopOptions.included = StartSettings.included
        /\ LoopOptions.excluded = StartSettings.excluded
        /\ LoopOptions.skip = {} /\ LoopOptions.workload = None
    BY DEF LoopOptions, NoOptions
  <2> QED
    BY <2>1, OptionsType DEF Options
<1>2. FullRequest.namespace = None /\ FullRequest.workload = None
  BY DEF FullRequest
<1>3. ScopedScanOptions(StartSettings, FullRequest) =
        [included |-> StartSettings.included, excluded |-> StartSettings.excluded,
                     skip |-> {}, workload |-> None]
  BY <1>2 DEF ScopedScanOptions
<1> QED
  BY <1>1, <1>3 DEF Scoped

LEMMA QuietBegin ==
  ASSUME TypeOK, RestInv, Calm, Quiet, NEW p \in Procs, FreshScan(p),
         NEW s \in Procs, NEW o \in Options, pc[s] \notin Active, Begin(s, o),
         s = Loop => o = LoopOptions
  PROVE  Calm' /\ FreshScan(p)'
<1>1. /\ cancelled' = cancelled /\ faults' = faults /\ cluster' = cluster
      /\ request' = request /\ opts'[s] = o
      /\ pc' = [pc EXCEPT ![s] = IF o.included = {} THEN "namespaces" ELSE "pods"]
  BY DEF Begin, clusterVars, TypeOK
<1>2. Calm'
  BY <1>1 DEF Calm, TypeOK
<1>3. LikeTheLoop(s)'
  <2>1. CASE s = Loop
    BY <1>1, <2>1, LoopScansLikeItself DEF RestInv, LikeTheLoop
  <2>2. CASE s \in Manual
    <3>1. pc'[s] \in Active
      BY <1>1 DEF TypeOK, Active
    <3> QED
      BY <2>2, <3>1 DEF Quiet, Astray
  <2> QED
    BY <2>1, <2>2 DEF Procs
<1>4. CASE p = s
  BY <1>1, <1>2, <1>3, <1>4, FreshBegin
<1>5. CASE p # s
  BY <1>1, <1>2, <1>5, BeginMoves, FreshUntouched
<1> QED
  BY <1>4, <1>5

LEMMA QuietScanStep ==
  ASSUME TypeOK, RestInv, Calm, Quiet, NEW p \in Procs, FreshScan(p),
         NEW s \in Procs, ScanStep(s)
  PROVE  Calm' /\ FreshScan(p)'
<1>1. Calm'
  BY CalmScanStep
<1>2. CASE p = s
  BY <1>1, <1>2, FreshScanStep
<1>3. CASE p # s
  <2>1. cancelled'[p] = cancelled[p]
    BY <1>3 DEF ScanStep, ListNamespaces, ListPods, ResolveOwners, CheckRecords, Publish,
           PublishErrors, Finish, AfterScan, TypeOK
  <2> QED
    BY <1>1, <1>3, <2>1, ScanStepMoves, FreshUntouched DEF Quiet
<1> QED
  BY <1>2, <1>3

LEMMA QuietNext ==
  ASSUME NEW p \in Procs
  PROVE  TypeOK /\ RestInv /\ Calm /\ FreshScan(p) /\ [Next]_vars /\ [Quiet]_vars
           => Calm' /\ FreshScan(p)'
<1> SUFFICES ASSUME TypeOK, RestInv, Calm, FreshScan(p), [Next]_vars, [Quiet]_vars
             PROVE  Calm' /\ FreshScan(p)'
  OBVIOUS
<1> USE LoopIsNotManual DEF Procs
<1>1. CASE UNCHANGED vars
  BY <1>1 DEF vars, procVars, clusterVars, Calm, FreshScan, RunsIn, LikeTheLoop
<1>2. ASSUME Next, Quiet PROVE Calm' /\ FreshScan(p)'
  <2> USE <1>2
  <2>1. CASE StartupScan
    BY <2>1 DEF StartupScan, Calm
  <2>2. CASE Tick
    BY <2>2, QuietBegin, OptionsType DEF Tick, Active
  <2>3. ASSUME NEW s \in Manual, BeginManual(s) PROVE Calm' /\ FreshScan(p)'
    BY <2>3, QuietBegin, ScopedOptionsType DEF BeginManual, Active, TypeOK
  <2>4. ASSUME NEW s \in Procs, ScanStep(s) PROVE Calm' /\ FreshScan(p)'
    BY <2>4, QuietScanStep
  <2>5. CASE LoopExit \/ Signal
    BY <2>5 DEF LoopExit, Signal, Quiet, Calm, TypeOK
  <2>6. ASSUME NEW s \in Manual, Post(s) \/ \E req \in Requests : Accept(s, req)
        PROVE  Calm' /\ FreshScan(p)'
    <3>1. /\ pc[s] \notin Active /\ pc'[s] \notin Active
          /\ UNCHANGED <<found, cancelled, faults, cluster, todo, opts>>
          /\ pc'[Loop] = pc[Loop]
          /\ \A t \in Procs : t # s => pc'[t] = pc[t] /\ request'[t] = request[t]
      BY <2>6 DEF Post, Accept, TypeOK, Active, clusterVars
    <3>2. Calm'
      BY <3>1 DEF Calm
    <3>3. CASE p = s
      BY <3>1, <3>2, <3>3, FreshIdle
    <3>4. CASE p # s
      <4>1. Untouched(p)
        BY <3>1, <3>4 DEF Untouched
      <4> QED
        BY <3>1, <3>2, <4>1, FreshUntouched
    <3> QED
      BY <3>3, <3>4
  <2>7. ASSUME NEW s \in Manual, Deadline(s) PROVE FALSE
    BY <2>7, BoundAssumption DEF Deadline, Calm
  <2>8. ASSUME NEW c \in Containers, NEW m \in Images \cup {None}, ChangeCluster(c, m)
        PROVE  FALSE
    BY <2>8 DEF ChangeCluster, Quiet, TypeOK
  <2> QED
    BY <2>1, <2>2, <2>3, <2>4, <2>5, <2>6, <2>7, <2>8 DEF Next, LoopStep, ManualStep
<1> QED
  BY <1>1, <1>2

-----------------------------------------------------------------------------
(* What a fresh scan publishes.                                             *)

(* The allowlist and denylist select the same namespaces for discovery and  *)
(* for what the loop is to keep.                                            *)
LEMMA FreshPublish ==
  ASSUME TypeOK, RestInv, ScopeInv, Fresh, NEW s \in Procs, Publish(s), UNCHANGED cluster,
         Scoped(request[s]) => CacheRight
  PROVE  CacheRight'
<1>1. /\ pc[s] = "publish" /\ LikeTheLoop(s) /\ FreshScan(s)
      /\ opts[s] = ScopedScanOptions(StartSettings, request[s])
  BY DEF Publish, Fresh, FreshScan, LikeTheLoop
<1>2. SUFFICES ASSUME NEW i \in Ids PROVE Cached(i)' = Wanted(i)
  BY DEF CacheRight, Wanted
<1>3. ImageOf(found[s][i]) = IF WorkloadMatches(opts[s], i) THEN RunsIn(Target(opts[s]), i)
                                                            ELSE None
  BY <1>1 DEF FreshScan
<1>4. found[s][i] # None => found[s][i].image # None
  BY NoneIsNoRecord DEF TypeOK, RecordMap, Record
<1>5. NsOf[i] \in Namespaces
  BY TopologyAssumption
<1>6. CASE ~Scoped(request[s])
  <2>1. opts[s].workload = None /\ opts[s].included = StartSettings.included
        /\ opts[s].excluded = StartSettings.excluded
    BY <1>1, <1>6 DEF Scoped, FullRequest, ScopedScanOptions
  <2>2. records'[i] = found[s][i]
    BY <1>6 DEF Publish, SetRecords
  <2>3. RunsIn(Target(opts[s]), i) = Wanted(i)
    BY <1>5, <2>1 DEF RunsIn, Target, Wanted
  <2> QED
    BY <1>3, <2>1, <2>2, <2>3 DEF Cached, ImageOf, WorkloadMatches
<1>7. CASE Scoped(request[s])
  <2>1. s \in Manual
    BY <1>7, LoopScansLikeItself DEF RestInv, Procs
  <2>2. request[s].namespace # None
    BY <1>1, <1>7, <2>1 DEF ScopeInv, WithinScope, Active
  <2>3. /\ opts[s].included = {request[s].namespace} /\ opts[s].excluded = StartSettings.excluded
        /\ StartSettings.included # {} => request[s].namespace \in StartSettings.included
    BY <1>1, <1>7, <2>2 DEF ScopedScanOptions, LikeTheLoop
  <2>4. records'[i] = IF found[s][i] # None THEN found[s][i]
                      ELSE IF i \in ScopedRecordMatcher(opts[s]) THEN None ELSE records[i]
    BY <1>7 DEF Publish, ReplaceWhere
  <2>5. Cached(i) = Wanted(i)
    BY <1>7 DEF CacheRight
  <2>6. i \in ScopedRecordMatcher(opts[s]) <=>
          NsOf[i] = request[s].namespace /\ WorkloadMatches(opts[s], i)
    BY <2>3 DEF ScopedRecordMatcher
  <2>7. NsOf[i] = request[s].namespace => RunsIn(Target(opts[s]), i) = Wanted(i)
    BY <1>5, <2>3 DEF RunsIn, Target, Wanted
  <2>8. NsOf[i] # request[s].namespace => RunsIn(Target(opts[s]), i) = None
    BY <2>3 DEF RunsIn, Target
  <2>9. CASE i \in ScopedRecordMatcher(opts[s])
    BY <1>3, <2>4, <2>6, <2>7, <2>9 DEF Cached, ImageOf
  <2>10. CASE i \notin ScopedRecordMatcher(opts[s])
    <3>1. found[s][i] = None
      BY <1>3, <1>4, <2>6, <2>8, <2>10 DEF ImageOf
    <3> QED
      BY <2>4, <2>5, <2>10, <3>1 DEF Cached
  <2> QED
    BY <2>9, <2>10
<1> QED
  BY <1>6, <1>7

(* No other step than a publication touches the records.                    *)
LEMMA OnlyPublishWrites ==
  ASSUME [Next]_vars, \A s \in Procs : ~Publish(s)
  PROVE  records' = records
BY DEF Next, LoopStep, ManualStep, StartupScan, Tick, Begin, SetScanning, BeginManual, LoopExit,
       Post, Accept, Deadline, Signal, ChangeCluster, ScanStep, ListNamespaces, ListPods,
       ResolveOwners, CheckRecords, PublishErrors, SetErrors, Finish, LowerFlag, AfterScan,
       storeVars, vars, Procs

LEMMA RightNext ==
  /\ TypeOK /\ RestInv /\ ScopeInv /\ Fresh /\ CacheRight
  /\ [Next]_vars /\ [Quiet]_vars
  => CacheRight'
<1> SUFFICES ASSUME TypeOK, RestInv, ScopeInv, Fresh, CacheRight, [Next]_vars, [Quiet]_vars
             PROVE  CacheRight'
  OBVIOUS
<1>1. UNCHANGED cluster
  BY DEF Quiet, vars, clusterVars
<1>2. CASE \E s \in Procs : Publish(s)
  BY <1>1, <1>2, FreshPublish
<1>3. CASE \A s \in Procs : ~Publish(s)
  <2>1. records' = records
    BY <1>3, OnlyPublishWrites
  <2> QED
    BY <1>1, <2>1 DEF CacheRight, Cached, Wanted
<1> QED
  BY <1>2, <1>3

LEMMA RestAlways == Spec => [](TypeOK /\ RestInv /\ ScopeInv)
<1>1. TypeOK /\ RestInv /\ [Next]_vars => RestInv'
  BY RestNext
<1> QED
  BY <1>1, RestInit, ScopeAlways, PTL DEF Spec

(* In a calm system the view of a process that rests is right, and stays    *)
(* right through every scan it then makes, as long as the cluster does not  *)
(* change and nobody asks for a scan the loop knows nothing of: a scan that *)
(* overlapped a change, a failure or another scan spoils no later one.      *)
THEOREM QuietScansSeeWhatRuns ==
  ASSUME NEW p \in Procs
  PROVE  Spec => [](Calm /\ (pc[p] \notin Active \/ FreshScan(p)) /\ [][Quiet]_vars
                      => [](Calm /\ FreshScan(p)))
<1>1. RestInv /\ Calm /\ pc[p] \notin Active => FreshScan(p)
  BY DEF RestInv, Resting, Calm, FreshScan, Active, Procs
<1>2. TypeOK /\ RestInv /\ Calm /\ FreshScan(p) /\ [Next]_vars /\ [Quiet]_vars
        => Calm' /\ FreshScan(p)'
  BY QuietNext
<1> QED
  BY <1>1, <1>2, RestAlways, PTL DEF Spec

FreshPublishStep ==
  \A s \in Procs : Fresh /\ Publish(s) /\ ~Scoped(request[s]) => CacheRight'

(* Once all scans under way are of that kind, the next full one to publish  *)
(* repairs the store, whatever it held before.                              *)
THEOREM FreshScanRepairs == Spec => [][FreshPublishStep]_vars
<1>1. TypeOK /\ RestInv /\ ScopeInv => FreshPublishStep
  <2>1. ASSUME NEW s \in Procs, Publish(s) PROVE UNCHANGED cluster
    BY <2>1 DEF Publish, clusterVars
  <2> QED
    BY <2>1, FreshPublish DEF FreshPublishStep
<1> QED
  BY <1>1, RestAlways, PTL

(* And a right store stays right, for good: none of the scans that follow,  *)
(* overlapping or not, full or scoped, takes anything of it back.           *)
THEOREM ConvergedForGood == Spec => [](Fresh /\ CacheRight /\ [][Quiet]_vars => []CacheRight)
<1>1. TypeOK /\ RestInv /\ Fresh /\ [Next]_vars /\ [Quiet]_vars => Fresh'
  <2>1. Loop \in Procs
    BY DEF Procs
  <2> QED
    BY <2>1, QuietNext DEF Fresh
<1>2. /\ TypeOK /\ RestInv /\ ScopeInv /\ Fresh /\ CacheRight
      /\ [Next]_vars /\ [Quiet]_vars
      => CacheRight'
  BY RightNext
<1> QED
  BY <1>1, <1>2, RestAlways, PTL DEF Spec

-----------------------------------------------------------------------------
(* The call of checkRecords and its contract.                               *)

(* Of a record under check: what checkRecords has made of it.               *)
Outcome(rec) == IF rec.status = "unknown" THEN "unchecked"
                ELSE IF rec.status = "failed" THEN "failed" ELSE "settled"

(* The call of checkRecords that scan s makes, for the records R it has     *)
(* found, which show the images J.                                          *)
Checks(s, R, J, imageOf) == INSTANCE CheckContract WITH
  Recs <- R, Jobs <- J, JobOf <- imageOf,
  verdict <- [r \in R |-> Outcome(found[s][r])], texts <- errs[s],
  cancelled <- cancelled[s], returned <- pc[s] # "check"

Held(s) == {i \in Ids : found[s][i] # None}
Passed(s, R, J, imageOf) ==
  R = Held(s) /\ J = FoundImages(found[s]) /\ imageOf = [r \in R |-> found[s][r].image]

(* The one step in which a scan checks its records is a step in which the   *)
(* contract returns for the records it holds, grouped by their images, and  *)
(* every such step is one of its checks: the scan allows checkRecords what  *)
(* the contract allows, no more and no less.                                *)
THEOREM CheckIsContract ==
  ASSUME TypeOK, NEW s \in Procs, pc[s] = "check",
         NEW R, NEW J, NEW imageOf, Passed(s, R, J, imageOf)
  PROVE  CheckRecords(s) <=>
           /\ Checks(s, R, J, imageOf)!Return
           /\ found' = [found EXCEPT ![s] = [i \in Ids |->
                IF i \in R THEN [image |-> imageOf[i], status |-> found'[s][i].status] ELSE None]]
           /\ \A r \in R : found'[s][r].status \in Statuses
           /\ errs' = [errs EXCEPT ![s] = errs'[s]]
           /\ pc' = [pc EXCEPT ![s] = "publish"]
           /\ UNCHANGED <<storeVars, opts, request, todo, cancelled, clusterVars, faults>>
<1> DEFINE Ret(of, ctx) ==
             /\ (\E j \in J : of[j] = "unchecked") => cancelled[s]
             /\ ~(\E j \in J : of[j] = "unchecked") => ctx = {}
             /\ \A r \in R : Outcome(found'[s][r]) = of[imageOf[r]]
             /\ errs'[s] = {j \in J : of[j] = "failed"} \cup ctx
           Ver(verdict, ctx) ==
             /\ (\E m \in J : verdict[m] = "unknown") => cancelled[s]
             /\ ~(\E m \in J : verdict[m] = "unknown") => ctx = {}
             /\ found' = [found EXCEPT ![s] = [i \in Ids |->
                  IF i \in R THEN [image |-> imageOf[i], status |-> verdict[imageOf[i]]]
                  ELSE None]]
             /\ errs' = [errs EXCEPT ![s] = {m \in J : verdict[m] = "failed"} \cup ctx]
           Moves == /\ pc' = [pc EXCEPT ![s] = "publish"]
                    /\ UNCHANGED <<storeVars, opts, request, todo, cancelled, clusterVars, faults>>
           Kept == /\ found' = [found EXCEPT ![s] = [i \in Ids |->
                        IF i \in R THEN [image |-> imageOf[i], status |-> found'[s][i].status]
                        ELSE None]]
                   /\ \A r \in R : found'[s][r].status \in Statuses
                   /\ errs' = [errs EXCEPT ![s] = errs'[s]]
<1>1. Moves => ( Checks(s, R, J, imageOf)!Return <=>
        \E of \in [J -> {"unchecked", "failed", "settled"}], ctx \in SUBSET {CtxDone} :
          Ret(of, ctx) )
  <2>1. ASSUME NEW of \in [J -> {"unchecked", "failed", "settled"}], NEW ctx \in SUBSET {CtxDone}
        PROVE  Ret(of, ctx) <=>
          /\ {j \in J : of[j] = "unchecked"} # {} => cancelled[s]
          /\ {j \in J : of[j] = "unchecked"} = {} => ctx = {}
          /\ [r \in R |-> Outcome(found'[s][r])] = [r \in R |-> of[imageOf[r]]]
          /\ errs'[s] = {j \in J : of[j] = "failed"} \cup ctx
    <3>1. (\A r \in R : Outcome(found'[s][r]) = of[imageOf[r]]) <=>
          [r \in R |-> Outcome(found'[s][r])] = [r \in R |-> of[imageOf[r]]]
      OBVIOUS
    <3> QED BY <3>1
  <2>2. Moves => pc'[s] = "publish" /\ cancelled' = cancelled
    BY DEF TypeOK
  <2> HIDE DEF Ret, Moves
  <2> QED BY <2>1, <2>2 DEF Checks!Return
<1>2. CheckRecords(s) <=>
        Moves /\ \E verdict \in [J -> Statuses], ctx \in SUBSET {CtxDone} : Ver(verdict, ctx)
  <2>1. J = FoundImages(found[s]) /\ R = {i \in Ids : found[s][i] # None}
        /\ \A r \in R : imageOf[r] = found[s][r].image
    BY DEF Passed, Held
  <2>2. ASSUME NEW verdict
        PROVE  [i \in Ids |-> IF found[s][i] = None THEN None
                 ELSE [image |-> found[s][i].image, status |-> verdict[found[s][i].image]]]
               = [i \in Ids |->
                    IF i \in R THEN [image |-> imageOf[i], status |-> verdict[imageOf[i]]]
                    ELSE None]
    BY <2>1
  <2>3. ASSUME NEW verdict, NEW ctx
        PROVE  Ver(verdict, ctx) <=>
             /\ {m \in FoundImages(found[s]) : verdict[m] = "unknown"} # {} => cancelled[s]
             /\ {m \in FoundImages(found[s]) : verdict[m] = "unknown"} = {} => ctx = {}
             /\ found' = [found EXCEPT ![s] = [i \in Ids |->
                  IF found[s][i] = None THEN None
                  ELSE [image |-> found[s][i].image, status |-> verdict[found[s][i].image]]]]
             /\ errs' = [errs EXCEPT ![s] =
                  {m \in FoundImages(found[s]) : verdict[m] = "failed"} \cup ctx]
    BY <2>1, <2>2
  <2> HIDE DEF Ver
  <2> QED BY <2>1, <2>3 DEF CheckRecords
<1>3. \A r \in R : r \in Ids /\ imageOf[r] \in J
  BY DEF Passed, Held, FoundImages
<1>4. \A j \in J : \E r \in R : imageOf[r] = j
  BY DEF Passed, Held, FoundImages
<1>5. ASSUME NEW verdict \in [J -> Statuses], NEW ctx \in SUBSET {CtxDone}, Ver(verdict, ctx)
      PROVE  Kept /\ \E of \in [J -> {"unchecked", "failed", "settled"}] : Ret(of, ctx)
  <2> DEFINE of == [j \in J |-> IF verdict[j] = "unknown" THEN "unchecked"
                                ELSE IF verdict[j] = "failed" THEN "failed" ELSE "settled"]
             new == [i \in Ids |->
                      IF i \in R THEN [image |-> imageOf[i], status |-> verdict[imageOf[i]]]
                      ELSE None]
  <2>1. found' = [found EXCEPT ![s] = new] /\ found'[s] = new
    BY <1>5 DEF TypeOK
  <2>2. ASSUME NEW r \in R
        PROVE  found'[s][r].status = verdict[imageOf[r]] /\ imageOf[r] \in J
    BY <1>3, <2>1
  <2>3. new = [i \in Ids |->
                 IF i \in R THEN [image |-> imageOf[i], status |-> found'[s][i].status] ELSE None]
    BY <2>2
  <2>4. errs'[s] = {m \in J : verdict[m] = "failed"} \cup ctx
        /\ errs' = [errs EXCEPT ![s] = errs'[s]]
    BY <1>5 DEF TypeOK
  <2> HIDE DEF new
  <2>5. Kept
    BY <2>1, <2>2, <2>3, <2>4
  <2>6. /\ of \in [J -> {"unchecked", "failed", "settled"}]
        /\ \A j \in J : of[j] = "unchecked" <=> verdict[j] = "unknown"
        /\ \A j \in J : of[j] = "failed" <=> verdict[j] = "failed"
    OBVIOUS
  <2>7. \A r \in R : Outcome(found'[s][r]) = of[imageOf[r]]
    BY <2>2 DEF Outcome
  <2> HIDE DEF of
  <2>8. {m \in J : verdict[m] = "failed"} = {j \in J : of[j] = "failed"}
    BY <2>6
  <2>9. Ret(of, ctx)
    BY <1>5, <2>4, <2>6, <2>7, <2>8
  <2> HIDE DEF Ret
  <2> QED BY <2>5, <2>6, <2>9
<1>6. ASSUME Kept, NEW of \in [J -> {"unchecked", "failed", "settled"}],
             NEW ctx \in SUBSET {CtxDone}, Ret(of, ctx)
      PROVE  \E verdict \in [J -> Statuses] : Ver(verdict, ctx)
  <2> DEFINE verdict == [m \in J |-> IF of[m] = "unchecked" THEN "unknown"
                                     ELSE IF of[m] = "failed" THEN "failed" ELSE "ok"]
  <2>1. /\ verdict \in [J -> Statuses]
        /\ \A j \in J : of[j] = "unchecked" <=> verdict[j] = "unknown"
        /\ \A j \in J : of[j] = "failed" <=> verdict[j] = "failed"
    BY DEF Statuses
  <2>2. ASSUME NEW r \in R
        PROVE  found'[s][r].status = verdict[imageOf[r]]
    <3>1. imageOf[r] \in J /\ found'[s][r].status \in Statuses
          /\ Outcome(found'[s][r]) = of[imageOf[r]]
      BY <1>3, <1>6
    <3> QED BY <3>1 DEF Outcome, Statuses
  <2> HIDE DEF verdict
  <2>3. [i \in Ids |-> IF i \in R THEN [image |-> imageOf[i], status |-> found'[s][i].status]
                       ELSE None]
        = [i \in Ids |-> IF i \in R THEN [image |-> imageOf[i], status |-> verdict[imageOf[i]]]
                         ELSE None]
    BY <2>2
  <2>4. {m \in J : verdict[m] = "failed"} = {j \in J : of[j] = "failed"}
    BY <2>1
  <2>5. Ver(verdict, ctx)
    BY <1>6, <2>1, <2>3, <2>4
  <2> HIDE DEF Ver
  <2> QED BY <2>1, <2>5
<1> HIDE DEF Ret, Ver, Moves, Kept
<1>7. CheckRecords(s) <=> Checks(s, R, J, imageOf)!Return /\ Kept /\ Moves
  BY <1>1, <1>2, <1>5, <1>6
<1> QED BY <1>7 DEF Kept, Moves

(* Until it checks, a scan has no error texts, and its records no status.   *)
Unsettled(s) ==
  /\ pc[s] \notin Active \ {"namespaces", "pods", "check"} => errs[s] = {}
  /\ pc[s] \in {"namespaces", "pods", "check"} =>
       \A i \in Held(s) : found[s][i].status = "unknown"
AllUnsettled == \A s \in Procs : Unsettled(s)

LEMMA UnsettledOthers ==
  ASSUME TypeOK, NEW s \in Procs, Unsettled(s), Untouched(s), errs'[s] = errs[s]
  PROVE  Unsettled(s)'
BY DEF Unsettled, Untouched, Held

LEMMA UnsettledBegin ==
  ASSUME TypeOK, RestInv, AllUnsettled, NEW t \in Procs, NEW o, Begin(t, o), pc[t] \notin Active
  PROVE  AllUnsettled'
<1>1. found[t] = Empty /\ found' = found /\ errs' = errs /\ errs[t] = {}
  BY DEF Begin, RestInv, Resting, AllUnsettled, Unsettled
<1>2. Unsettled(t)'
  BY <1>1 DEF Unsettled, Held, Empty
<1>3. ASSUME NEW s \in Procs, s # t PROVE Unsettled(s)'
  BY <1>1, <1>3, BeginMoves, UnsettledOthers DEF AllUnsettled
<1> QED BY <1>2, <1>3 DEF AllUnsettled

LEMMA UnsettledListPods ==
  ASSUME TypeOK, NEW s \in Procs, Unsettled(s), NEW ns \in Namespaces, ListPods(s, ns)
  PROVE  Unsettled(s)'
<1>1. pc[s] = "pods" /\ pc' = pc /\ errs' = errs
  BY DEF ListPods
<1>2. \/ found'[s] = found[s]
      \/ found'[s] = [i \in Ids |-> IF i \in Running(ns)
                         THEN [image |-> cluster[i], status |-> "unknown"] ELSE found[s][i]]
  BY DEF ListPods, TypeOK
<1>3. \A i \in Held(s)' : found'[s][i].status = "unknown"
  BY <1>1, <1>2 DEF Held, Unsettled
<1> QED BY <1>1, <1>3 DEF Unsettled

LEMMA UnsettledResolveOwners ==
  ASSUME TypeOK, NEW s \in Procs, Unsettled(s), ResolveOwners(s)
  PROVE  Unsettled(s)'
<1>1. PICK lost \in SUBSET Containers :
        found'[s] = Selected(opts[s], Resolved(found[s], lost))
  BY DEF ResolveOwners, TypeOK
<1>2. pc[s] = "pods" /\ pc'[s] = "check" /\ errs' = errs
  BY DEF ResolveOwners, TypeOK
<1>3. ASSUME NEW i \in Ids, found'[s][i] # None
      PROVE  \E k \in Ids : found[s][k] # None /\ found'[s][i] = found[s][k]
  <2>1. found'[s][i] = Resolved(found[s], lost)[i]
    BY <1>1, <1>3 DEF Selected
  <2>2. \/ found'[s][i] = found[s][i]
        \/ \E c \in lost : found'[s][i] = found[s][c]
    BY <1>3, <2>1 DEF Resolved
  <2> QED BY <1>3, <2>2, TopologyAssumption
<1>4. \A i \in Held(s)' : found'[s][i].status = "unknown"
  BY <1>2, <1>3 DEF Held, Unsettled
<1> QED BY <1>2, <1>4 DEF Unsettled, Active

LEMMA UnsettledScanStep ==
  ASSUME TypeOK, AllUnsettled, NEW t \in Procs, ScanStep(t)
  PROVE  AllUnsettled'
<1>1. \A s \in Procs : s # t => errs'[s] = errs[s]
  BY DEF ScanStep, ListNamespaces, ListPods, ResolveOwners, CheckRecords, Publish,
         PublishErrors, Finish, AfterScan, TypeOK
<1>2. ASSUME NEW s \in Procs, s # t PROVE Unsettled(s)'
  BY <1>1, <1>2, ScanStepMoves, UnsettledOthers DEF AllUnsettled
<1>3. Unsettled(t)'
  <2>1. CASE ListNamespaces(t)
    BY <2>1 DEF ListNamespaces, TypeOK, AllUnsettled, Unsettled, Held, Active
  <2>2. ASSUME NEW ns \in Namespaces, ListPods(t, ns) PROVE Unsettled(t)'
    BY <2>2, UnsettledListPods DEF AllUnsettled
  <2>3. CASE ResolveOwners(t)
    BY <2>3, UnsettledResolveOwners DEF AllUnsettled
  <2>4. CASE CheckRecords(t) \/ Publish(t) \/ PublishErrors(t)
    BY <2>4 DEF CheckRecords, Publish, PublishErrors, TypeOK, Unsettled, Active
  <2>5. CASE Finish(t)
    BY <2>5 DEF Finish, TypeOK, Unsettled
  <2>6. CASE AfterScan(t)
    BY <2>6 DEF AfterScan, TypeOK, AllUnsettled, Unsettled, Active
  <2> QED BY <2>1, <2>2, <2>3, <2>4, <2>5, <2>6 DEF ScanStep
<1> QED BY <1>2, <1>3 DEF AllUnsettled

LEMMA UnsettledNext == TypeOK /\ RestInv /\ AllUnsettled /\ [Next]_vars => AllUnsettled'
<1> SUFFICES ASSUME TypeOK, RestInv, AllUnsettled, [Next]_vars PROVE AllUnsettled'
  OBVIOUS
<1>1. CASE StartupScan \/ Tick
  BY <1>1, UnsettledBegin DEF StartupScan, Tick, Procs, Active
<1>2. ASSUME NEW s \in Manual, BeginManual(s) PROVE AllUnsettled'
  BY <1>2, UnsettledBegin DEF BeginManual, Procs, Active
<1>3. ASSUME NEW s \in Procs, ScanStep(s) PROVE AllUnsettled'
  BY <1>3, UnsettledScanStep
<1>4. CASE LoopExit
  BY <1>4 DEF LoopExit, TypeOK, AllUnsettled, Unsettled, Held, Active
<1>5. ASSUME NEW s \in Manual, Post(s) PROVE AllUnsettled'
  BY <1>5 DEF Post, TypeOK, AllUnsettled, Unsettled, Held, Active
<1>6. ASSUME NEW s \in Manual, NEW req \in Requests, Accept(s, req) PROVE AllUnsettled'
  BY <1>6 DEF Accept, TypeOK, AllUnsettled, Unsettled, Held, Active
<1>7. ASSUME \/ UNCHANGED vars \/ Signal
             \/ \E s \in Manual : Deadline(s)
             \/ \E c \in Containers, m \in Images \cup {None} : ChangeCluster(c, m)
      PROVE  AllUnsettled'
  BY <1>7 DEF vars, procVars, Signal, Deadline, ChangeCluster, AllUnsettled, Unsettled, Held
<1> QED
  BY <1>1, <1>2, <1>3, <1>4, <1>5, <1>6, <1>7 DEF Next, LoopStep, ManualStep, Procs

(* A call of checkRecords begins as the contract does, and until it returns *)
(* no step of another scan reaches its records, its texts or its context    *)
(* (Run, RunScoped): the contract may be taken for the call.                *)
THEOREM CallsFollowContract ==
  ASSUME NEW s \in Procs, NEW R, NEW J, NEW imageOf
  PROVE  Spec => /\ [](pc[s] = "check" /\ Passed(s, R, J, imageOf) =>
                         Checks(s, R, J, imageOf)!Init)
                 /\ [][pc[s] = "check" /\ Passed(s, R, J, imageOf) =>
                         [Checks(s, R, J, imageOf)!Next]_(Checks(s, R, J, imageOf)!vars)]_vars
<1>1. TypeOK /\ AllUnsettled =>
        (pc[s] = "check" /\ Passed(s, R, J, imageOf) => Checks(s, R, J, imageOf)!Init)
  <2> SUFFICES ASSUME TypeOK, AllUnsettled, pc[s] = "check", Passed(s, R, J, imageOf)
               PROVE  Checks(s, R, J, imageOf)!Init
    OBVIOUS
  <2>1. \A r \in R : Outcome(found[s][r]) = "unchecked"
    BY DEF AllUnsettled, Unsettled, Passed, Outcome
  <2>2. errs[s] = {} /\ cancelled[s] \in BOOLEAN
    BY DEF AllUnsettled, Unsettled, TypeOK, Active
  <2> QED BY <2>1, <2>2 DEF Checks!Init
<1>2. TypeOK /\ [Next]_vars => [pc[s] = "check" /\ Passed(s, R, J, imageOf) =>
                         [Checks(s, R, J, imageOf)!Next]_(Checks(s, R, J, imageOf)!vars)]_vars
  <2> SUFFICES ASSUME TypeOK, Next, pc[s] = "check", Passed(s, R, J, imageOf)
               PROVE  [Checks(s, R, J, imageOf)!Next]_(Checks(s, R, J, imageOf)!vars)
    OBVIOUS
  <2>1. CASE CheckRecords(s)
    BY <2>1, CheckIsContract DEF Checks!Next
  <2>2. CASE UNCHANGED <<pc[s], found[s], errs[s]>> /\ ~cancelled[s] /\ cancelled'[s]
    BY <2>2 DEF Checks!Next, Checks!Cancel
  <2>3. CASE UNCHANGED <<pc[s], found[s], errs[s], cancelled[s]>>
    BY <2>3 DEF Checks!vars
  <2>4. ASSUME NEW t \in Procs, t # s, ScanStep(t) \/ \E o : Begin(t, o)
        PROVE  UNCHANGED <<pc[s], found[s], errs[s], cancelled[s]>>
    <3>1. errs'[s] = errs[s] /\ cancelled'[s] = cancelled[s]
      BY <2>4 DEF ScanStep, ListNamespaces, ListPods, ResolveOwners, CheckRecords, Publish,
                  PublishErrors, Finish, AfterScan, Begin, TypeOK
    <3> QED BY <2>4, <3>1, ScanStepMoves, BeginMoves DEF Untouched
  <2>5. ScanStep(s) => CheckRecords(s)
    BY DEF ScanStep, ListNamespaces, ListPods, ResolveOwners, Publish, PublishErrors, Finish,
           AfterScan
  <2>6. ASSUME NEW t \in Manual, Deadline(t) \/ Post(t) \/ \E req \in Requests : Accept(t, req)
        PROVE  \/ UNCHANGED <<pc[s], found[s], errs[s], cancelled[s]>>
               \/ UNCHANGED <<pc[s], found[s], errs[s]>> /\ ~cancelled[s] /\ cancelled'[s]
    BY <2>6 DEF Deadline, Post, Accept, TypeOK
  <2>7. CASE Signal
    BY <2>2, <2>3, <2>7 DEF Signal, TypeOK
  <2>8. CASE LoopExit \/ \E c \in Containers, m \in Images \cup {None} : ChangeCluster(c, m)
    BY <2>3, <2>8 DEF LoopExit, ChangeCluster, procVars, TypeOK
  <2>9. ~(StartupScan /\ s = Loop) /\ ~(Tick /\ s = Loop) /\ ~BeginManual(s)
    BY DEF StartupScan, Tick, BeginManual
  <2> QED
    BY <2>1, <2>2, <2>3, <2>4, <2>5, <2>6, <2>7, <2>8, <2>9
       DEF Next, LoopStep, ManualStep, StartupScan, Tick, BeginManual, Procs
<1>3. Spec => [](TypeOK /\ RestInv)
  BY RestAlways, PTL
<1>4. Init => AllUnsettled
  BY DEF Init, AllUnsettled, Unsettled, Held, Empty
<1> QED BY <1>1, <1>2, <1>3, <1>4, UnsettledNext, PTL DEF Spec

-----------------------------------------------------------------------------
(* Scans wind down.                                                         *)

(* How much a scan has still to do, before what is left of its lists.       *)
Rank(p) == IF p = "spawned" THEN 8 ELSE IF p = "namespaces" THEN 7 ELSE IF p = "pods" THEN 6
           ELSE IF p = "check" THEN 5 ELSE IF p = "publish" THEN 4 ELSE IF p = "errors" THEN 3
           ELSE IF p \in {"finish", "abort"} THEN 2 ELSE IF p = "after" THEN 1 ELSE 0

MovesOn(s) ==
  \/ Rank(pc'[s]) < Rank(pc[s])
  \/ pc'[s] = pc[s] /\ todo'[s] \subseteq todo[s] /\ todo'[s] # todo[s]
StandsStill(s) == UNCHANGED <<pc[s], todo[s]>>

LEMMA ScanMovesOn ==
  ASSUME TypeOK, NEW s \in Procs, ScanStep(s)
  PROVE  MovesOn(s)
<1>1. ASSUME NEW ns \in Namespaces, ListPods(s, ns) PROVE MovesOn(s)
  BY <1>1 DEF ListPods, TypeOK, MovesOn
<1>2. CASE ListNamespaces(s)
  BY <1>2 DEF ListNamespaces, TypeOK, MovesOn, Rank
<1>3. CASE ResolveOwners(s) \/ CheckRecords(s) \/ Publish(s) \/ PublishErrors(s)
  BY <1>3 DEF ResolveOwners, CheckRecords, Publish, PublishErrors, TypeOK, MovesOn, Rank
<1>4. CASE Finish(s) \/ AfterScan(s)
  <2>1. \/ pc[s] \in {"finish", "abort"} /\ pc'[s] \in {"after", "idle"}
        \/ pc[s] = "after" /\ pc'[s] = "idle"
    BY <1>4 DEF Finish, AfterScan, TypeOK
  <2>2. Rank("finish") = 2 /\ Rank("abort") = 2 /\ Rank("after") = 1 /\ Rank("idle") = 0
    BY DEF Rank
  <2> QED BY <2>1, <2>2 DEF MovesOn
<1> QED BY <1>1, <1>2, <1>3, <1>4 DEF ScanStep

(* Each step of a scan brings it nearer to its end, and no step of anybody  *)
(* else takes it back, however scans overlap and calls fail: the part of    *)
(* AcceptedScanEnds that is no liveness (Run, RunScoped).                   *)
THEOREM ScansWindDown ==
  Spec => [][\A s \in Procs : Rank(pc[s]) > 0 =>
               /\ MovesOn(s) \/ StandsStill(s)
               /\ ScanStep(s) \/ (s \in Manual /\ BeginManual(s)) => MovesOn(s)]_vars
<1> DEFINE WindsDown(s) == /\ MovesOn(s) \/ StandsStill(s)
                           /\ ScanStep(s) \/ (s \in Manual /\ BeginManual(s)) => MovesOn(s)
<1>1. ASSUME TypeOK, Next, NEW s \in Procs, Rank(pc[s]) > 0
      PROVE  WindsDown(s)
  <2>1. BeginManual(s) => MovesOn(s)
    <3>1. BeginManual(s) => pc[s] = "spawned" /\ pc'[s] \in {"namespaces", "pods"}
      BY <1>1 DEF BeginManual, Begin, TypeOK
    <3>2. Rank("spawned") = 8 /\ Rank("namespaces") = 7 /\ Rank("pods") = 6
      BY DEF Rank
    <3> QED BY <3>1, <3>2 DEF MovesOn
  <2>2. ScanStep(s) => MovesOn(s)
    BY <1>1, ScanMovesOn
  <2>3. ASSUME NEW t \in Procs, t # s, ScanStep(t) \/ \E o : Begin(t, o) PROVE StandsStill(s)
    BY <1>1, <2>3, ScanStepMoves, BeginMoves DEF Untouched, StandsStill
  <2>4. ASSUME NEW t \in Manual, Post(t) \/ \E req \in Requests : Accept(t, req)
        PROVE  StandsStill(s)
    <3>1. t # s
      BY <1>1, <2>4 DEF Post, Accept, Rank
    <3> QED BY <1>1, <2>4, <3>1 DEF Post, Accept, TypeOK, StandsStill
  <2>5. Signal \/ (\E t \in Manual : Deadline(t))
          \/ (\E c \in Containers, m \in Images \cup {None} : ChangeCluster(c, m)) =>
        StandsStill(s)
    BY DEF Signal, Deadline, ChangeCluster, procVars, StandsStill
  <2>6. LoopExit => StandsStill(s)
    BY <1>1 DEF LoopExit, TypeOK, StandsStill, Rank
  <2>7. StartupScan \/ Tick => pc[Loop] \in {"startup", "idle"}
    BY DEF StartupScan, Tick
  <2>8. StartupScan \/ Tick => s # Loop
    BY <1>1, <2>7 DEF Rank
  <2> HIDE DEF WindsDown
  <2>9. StartupScan \/ Tick \/ (\E t \in Manual : t # s /\ BeginManual(t)) =>
          \E t \in Procs : t # s /\ \E o : Begin(t, o)
    BY <2>8 DEF StartupScan, Tick, BeginManual, Procs
  <2>10. \/ StartupScan \/ Tick \/ LoopExit \/ Signal
         \/ \E t \in Procs : ScanStep(t)
         \/ \E t \in Manual : Post(t) \/ BeginManual(t) \/ Deadline(t)
                              \/ \E req \in Requests : Accept(t, req)
         \/ \E c \in Containers, m \in Images \cup {None} : ChangeCluster(c, m)
    BY <1>1 DEF Next, LoopStep, ManualStep, Procs
  <2>11. MovesOn(s) \/ StandsStill(s)
    BY <2>1, <2>2, <2>3, <2>4, <2>5, <2>6, <2>9, <2>10
  <2> QED BY <2>1, <2>2, <2>11 DEF WindsDown
<1>2. TypeOK /\ [Next]_vars => [\A s \in Procs : Rank(pc[s]) > 0 => WindsDown(s)]_vars
  BY <1>1
<1> QED BY <1>2, TypeCorrect, PTL DEF Spec
=============================================================================
