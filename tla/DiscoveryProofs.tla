--------------------------- MODULE DiscoveryProofs ---------------------------
(* Proofs about Discovery, for any workloads, kinds, templates and images,   *)
(* any finite number of pods, and any rollouts, pushes and failing lists.    *)
EXTENDS Discovery, FiniteSetTheorems, WellFoundedInduction, TLAPS

-----------------------------------------------------------------------------
(* The first and the last of some pods.                                     *)

LEMMA LastPod ==
  ASSUME NEW S \in SUBSET Pods, S # {}
  PROVE  Max(S) \in S
<1> DEFINE After(x) == {y \in S : y > x}
           Afters == {After(x) : x \in S}
<1>1. S \subseteq Nat /\ IsFiniteSet(S)
  BY RevisionAssumption, FS_Subset
<1>2. Afters \subseteq FiniteSubsetsOf(S) /\ Afters # {}
  <2>1. FiniteSubsetsOf(S) = SUBSET S
    BY <1>1, FS_FiniteSubsetsOfFinite
  <2>2. \A x \in S : After(x) \in SUBSET S
    OBVIOUS
  <2> HIDE DEF After
  <2> QED BY <2>1, <2>2
<1>3. PICK A \in Afters : \A B \in Afters : <<B, A>> \notin StrictSubsetOrdering(S)
  <2> HIDE DEF Afters
  <2> QED BY <1>2, FS_StrictSubsetOrderingWellFounded, WFMin
<1>4. PICK x \in S : A = After(x)
  OBVIOUS
<1>5. ASSUME NEW y \in S, y > x PROVE FALSE
  <2>1. After(y) \subseteq After(x) /\ y \in After(x) /\ y \notin After(y)
    <3>1. x \in Nat /\ y \in Nat /\ S \subseteq Nat
      BY <1>1
    <3>2. \A z \in S : z > y => z > x
      BY <1>5, <3>1
    <3>3. ~(y > y)
      BY <3>1
    <3> QED BY <1>5, <3>2, <3>3
  <2>2. <<After(y), After(x)>> \in StrictSubsetOrdering(S)
    BY <2>1 DEF StrictSubsetOrdering
  <2> QED BY <1>3, <1>4, <2>2
<1>6. \A y \in S : x >= y
  BY <1>1, <1>5
<1> QED BY <1>6 DEF Max

LEMMA FirstPod ==
  ASSUME NEW S \in SUBSET Pods, S # {}
  PROVE  Min(S) \in S
<1> DEFINE Before(x) == {y \in S : y < x}
           Befores == {Before(x) : x \in S}
<1>1. S \subseteq Nat /\ IsFiniteSet(S)
  BY RevisionAssumption, FS_Subset
<1>2. Befores \subseteq FiniteSubsetsOf(S) /\ Befores # {}
  <2>1. FiniteSubsetsOf(S) = SUBSET S
    BY <1>1, FS_FiniteSubsetsOfFinite
  <2>2. \A x \in S : Before(x) \in SUBSET S
    OBVIOUS
  <2> HIDE DEF Before
  <2> QED BY <2>1, <2>2
<1>3. PICK A \in Befores : \A B \in Befores : <<B, A>> \notin StrictSubsetOrdering(S)
  <2> HIDE DEF Befores
  <2> QED BY <1>2, FS_StrictSubsetOrderingWellFounded, WFMin
<1>4. PICK x \in S : A = Before(x)
  OBVIOUS
<1>5. ASSUME NEW y \in S, y < x PROVE FALSE
  <2>1. Before(y) \subseteq Before(x) /\ y \in Before(x) /\ y \notin Before(y)
    <3>1. x \in Nat /\ y \in Nat /\ S \subseteq Nat
      BY <1>1
    <3>2. \A z \in S : z < y => z < x
      BY <1>5, <3>1
    <3>3. ~(y < y)
      BY <3>1
    <3> QED BY <1>5, <3>2, <3>3
  <2>2. <<Before(y), Before(x)>> \in StrictSubsetOrdering(S)
    BY <2>1 DEF StrictSubsetOrdering
  <2> QED BY <1>3, <1>4, <2>2
<1>6. \A y \in S : x =< y
  BY <1>1, <1>5
<1> QED BY <1>6 DEF Min

-----------------------------------------------------------------------------
(* The pods of a record.                                                    *)

Started(id) == {p \in PodNames(id) : seen[p].digest[id[2]] # None}

LEMMA PodNamesType ==
  ASSUME NEW id \in Ids
  PROVE  /\ PodNames(id) \in SUBSET Pods /\ PodNames(id) # {}
         /\ \A p \in PodNames(id) : Live(p) /\ id[2] \in DOMAIN seen[p].revision
BY DEF Ids, PodNames, Counted, Listed, Live, ContainersOf

(* The digest is that of a pod of the record, and nothing else is unknown.  *)
LEMMA MergedDigest ==
  ASSUME NEW id \in Ids
  PROVE  IF Started(id) = {} THEN RunningDigest(id) = None
         ELSE \E p \in Started(id) : RunningDigest(id) = DigestIn(p, id[2])
<1>1. Started(id) \in SUBSET Pods
  BY PodNamesType DEF Started
<1>2. Started(id) # {} => Max(Started(id)) \in Started(id)
  BY <1>1, LastPod
<1> QED BY <1>2 DEF RunningDigest, Started

-----------------------------------------------------------------------------
(* What is known at each point of a scan.                                   *)

(* No tag was pushed more often than there were pushes.                     *)
Pushes == \A i \in Images : published[i] <= pushes

OwnDeployment == <<"Deployment", <<Self, None>>>>

(* The own ReplicaSet stays as long as the own pod; without a failure the   *)
(* own Deployment is found, until the startup scan is over.                 *)
OwnFound ==
  /\ ownPod.workload = Self /\ <<Self, ownPod.revision>> \in replicaSets
  /\ faults = 0 => excluded \in {None, OwnDeployment}

(* Without a failure every owner of Helm's is found, but ReplicaSets and    *)
(* workloads that may be gone.                                              *)
HelmFound ==
  pc = "check" /\ faults = 0 =>
    \A p \in Listed : seen[p].workload \in Helm \ deleted /\ Owner(p)[1] # "ReplicaSet" =>
      Owner(p) \in managed

(* What it found is Helm's.                                                 *)
HelmOnly ==
  pc = "check" => \A p \in Listed : Owner(p) \in managed => seen[p].workload \in Helm

DiscoveryInv == TypeOK /\ Pushes /\ OwnFound /\ HelmFound /\ HelmOnly

LEMMA OwnersApart ==
  ASSUME NEW p \in Listed, NEW q \in Listed, Owner(p) = Owner(q)
  PROVE  seen[p].workload = seen[q].workload
BY DEF Owner, ResolvedOwner, Controller

LEMMA OwnerType ==
  ASSUME NEW pod \in Pod, NEW p \in Pods, NEW rsOwners
  PROVE  /\ ResolvedOwner(p, pod, rsOwners) \in Refs
         /\ ResolvedOwner(p, pod, rsOwners)[1] \in {"ReplicaSet", "Deployment", "StatefulSet", "Job", "Pod"}
BY DEF ResolvedOwner, Controller, Refs, Pod

LEMMA FaultCounts ==
  ASSUME TypeOK, Fault
  PROVE  faults' \in 0..MaxFaults /\ faults' # 0
BY BoundAssumption DEF TypeOK, Fault

LEMMA InitInv == Init => DiscoveryInv
<1> SUFFICES ASSUME Init PROVE DiscoveryInv
  OBVIOUS
<1>1. Self \in Workloads /\ FirstRevision \in Revisions /\ MaxPushes \in Nat
  BY WorkloadAssumption, RevisionAssumption, BoundAssumption
<1>2. [s \in Slots |-> IF s \in DOMAIN FirstRevision THEN 0 ELSE None]
        \in [Slots -> 0..MaxPushes \cup {None}]
  BY <1>1
<1>3. ownPod \in Pod /\ ownPod.workload = Self /\ ownPod.revision = FirstRevision
  BY <1>1, <1>2 DEF Init, Pod
<1>4. TypeOK
  BY <1>1, <1>3, BoundAssumption DEF Init, NoPods, TypeOK
<1>5. OwnFound
  BY <1>1, <1>3, WorkloadAssumption DEF Init, OwnFound
<1>6. HelmFound /\ HelmOnly /\ Pushes
  BY DEF Init, HelmFound, HelmOnly, Pushes
<1> QED BY <1>4, <1>5, <1>6 DEF DiscoveryInv

(* The cluster leaves the scan alone.                                       *)
LEMMA ClusterStep ==
  ASSUME DiscoveryInv, TypeOK', Pushes', UNCHANGED <<ownPod, scanVars, faults>>,
         <<Self, ownPod.revision>> \in replicaSets', deleted \subseteq deleted'
  PROVE  DiscoveryInv'
<1>1. OwnFound'
  BY DEF DiscoveryInv, OwnFound, scanVars
<1>2. UNCHANGED <<pc, seen, owners, managed, faults>>
  BY DEF scanVars
<1>3. Listed' = Listed /\ \A p : Owner(p)' = Owner(p)
  BY <1>2 DEF Listed, Owner, ResolvedOwner, Controller
<1>4. HelmFound'
  BY <1>2, <1>3 DEF DiscoveryInv, HelmFound
<1>5. HelmOnly'
  BY <1>2, <1>3 DEF DiscoveryInv, HelmOnly
<1> QED BY <1>1, <1>4, <1>5 DEF DiscoveryInv

LEMMA NextInv == DiscoveryInv /\ [Next]_vars => DiscoveryInv'
<1> SUFFICES ASSUME DiscoveryInv, [Next]_vars PROVE DiscoveryInv'
  OBVIOUS
<1>1. CASE UNCHANGED vars
  <2>1. TypeOK' /\ Pushes' /\ UNCHANGED <<ownPod, replicaSets, deleted, scanVars, faults>>
    BY <1>1 DEF vars, clusterVars, scanVars, DiscoveryInv, TypeOK, Pushes
  <2> QED BY <2>1, ClusterStep DEF DiscoveryInv, OwnFound
<1>2. ASSUME NEW w \in Workloads, NEW r \in Revisions, Rollout(w, r) PROVE DiscoveryInv'
  <2>1. TypeOK' /\ Pushes' /\ UNCHANGED <<ownPod, scanVars, faults>>
        /\ replicaSets \subseteq replicaSets' /\ UNCHANGED deleted
    BY <1>2, BoundAssumption DEF Rollout, scanVars, DiscoveryInv, TypeOK, Pushes
  <2> QED BY <2>1, ClusterStep DEF DiscoveryInv, OwnFound
<1>3. ASSUME NEW w \in Workloads, NEW r \in Revisions, PruneReplicaSet(w, r) PROVE DiscoveryInv'
  <2>1. TypeOK' /\ Pushes' /\ UNCHANGED <<ownPod, scanVars, faults>>
        /\ <<Self, ownPod.revision>> \in replicaSets' /\ UNCHANGED deleted
    BY <1>3 DEF PruneReplicaSet, scanVars, DiscoveryInv, TypeOK, Pushes, OwnFound
  <2> QED BY <2>1, ClusterStep
<1>4. ASSUME NEW i \in Images, Push(i) PROVE DiscoveryInv'
  <2>1. \A j \in Images : published[j] \in 0..MaxPushes /\ published[j] <= pushes
    BY DEF DiscoveryInv, TypeOK, Pushes
  <2>2. published' \in [Images -> 0..MaxPushes] /\ pushes' \in 0..MaxPushes /\ Pushes'
    BY <1>4, <2>1, BoundAssumption DEF Push, DiscoveryInv, TypeOK, Pushes
  <2>3. TypeOK' /\ UNCHANGED <<ownPod, replicaSets, deleted, scanVars, faults>>
    BY <1>4, <2>2 DEF Push, scanVars, DiscoveryInv, TypeOK
  <2> QED BY <2>2, <2>3, ClusterStep DEF DiscoveryInv, OwnFound
<1>5. CASE Detect
  <2>1. ResolvedOwner(SelfPod, ownPod, replicaSets) = OwnDeployment
    BY WorkloadAssumption DEF DiscoveryInv, OwnFound, OwnDeployment, ResolvedOwner, Controller
  <2>2. /\ faults' \in 0..MaxFaults /\ (faults' = 0 => excluded' \in {None, OwnDeployment})
        /\ excluded' \in Refs \cup {None}
        /\ pc' = "idle" /\ UNCHANGED <<clusterVars, seen, owners, managed>>
    <3>1. ownPod \in Pod /\ SelfPod \in Pods
      BY WorkloadAssumption DEF DiscoveryInv, TypeOK
    <3>2. /\ ResolvedOwner(SelfPod, ownPod, replicaSets) \in Refs
          /\ ResolvedOwner(SelfPod, ownPod, {}) \in Refs
      BY <3>1, OwnerType
    <3> QED BY <1>5, <2>1, <3>2, FaultCounts DEF Detect, DiscoveryInv, TypeOK
  <2>3. TypeOK' /\ Pushes'
    BY <2>2 DEF clusterVars, DiscoveryInv, TypeOK, Pushes
  <2> QED BY <2>2, <2>3 DEF clusterVars, DiscoveryInv, OwnFound, HelmFound, HelmOnly
<1>6. CASE ListPods
  <2>1. PossiblePod \subseteq Pod
    BY DEF PossiblePod
  <2>2. seen' \in [Pods -> Pod \cup {None}]
    BY <1>6, <2>1 DEF ListPods, DiscoveryInv, TypeOK
  <2>3. pc' = "replicasets" /\ UNCHANGED <<clusterVars, excluded, owners, managed, faults>>
    BY <1>6 DEF ListPods
  <2>4. TypeOK' /\ Pushes'
    BY <2>2, <2>3 DEF clusterVars, DiscoveryInv, TypeOK, Pushes
  <2> QED BY <2>3, <2>4 DEF clusterVars, DiscoveryInv, OwnFound, HelmFound, HelmOnly
<1>7. CASE ListReplicaSets
  <2>1. /\ pc' = "workloads" /\ UNCHANGED <<clusterVars, seen, excluded, managed>>
        /\ faults' \in 0..MaxFaults /\ (faults' = 0 => faults = 0)
        /\ owners' \subseteq replicaSets
    BY <1>7, FaultCounts DEF ListReplicaSets, DiscoveryInv, TypeOK
  <2>2. TypeOK' /\ Pushes'
    BY <2>1 DEF clusterVars, DiscoveryInv, TypeOK, Pushes
  <2> QED BY <2>1, <2>2 DEF clusterVars, DiscoveryInv, OwnFound, HelmFound, HelmOnly
<1>8. CASE ListWorkloads
  <2>1. PICK failed \in SUBSET ({Owner(p)[1] : p \in Listed} \ {"Pod"}) :
          /\ faults + Cardinality(failed) <= MaxFaults
          /\ faults' = faults + Cardinality(failed)
          /\ managed' = {Owner(p) : p \in {q \in Listed : InHelm(q) /\ Owner(q)[1] \notin failed}}
    BY <1>8 DEF ListWorkloads
  <2>2. pc' = "check" /\ UNCHANGED <<clusterVars, excluded, seen, owners>>
    BY <1>8 DEF ListWorkloads
  <2>3. \A p \in Listed :
          Owner(p) \in Refs /\ Owner(p)[1] \in {"ReplicaSet", "Deployment", "StatefulSet", "Job", "Pod"}
    BY OwnerType DEF DiscoveryInv, TypeOK, Listed, Owner
  <2>4. IsFiniteSet(failed)
    <3>1. IsFiniteSet({"ReplicaSet"} \cup {"Deployment"} \cup {"StatefulSet"} \cup {"Job"})
      BY FS_Singleton, FS_Union
    <3> QED BY <2>3, <3>1, FS_Subset
  <2>5. Cardinality(failed) \in Nat /\ (Cardinality(failed) = 0 => failed = {})
    BY <2>4, FS_CardinalityType, FS_EmptySet
  <2>6. faults' \in 0..MaxFaults /\ (faults' = 0 => faults = 0 /\ failed = {})
    BY <2>1, <2>5, BoundAssumption DEF DiscoveryInv, TypeOK
  <2>7. managed' \subseteq Refs
    BY <2>1, <2>3
  <2>8. TypeOK' /\ Pushes'
    BY <2>2, <2>6, <2>7 DEF clusterVars, DiscoveryInv, TypeOK, Pushes
  <2>9. ASSUME faults' = 0, NEW p \in Listed, seen[p].workload \in Helm \ deleted,
               Owner(p)[1] # "ReplicaSet"
        PROVE  Owner(p) \in managed'
    BY <2>1, <2>6, <2>9 DEF InHelm
  <2>10. \A p \in Listed : Owner(p) \in managed' => seen[p].workload \in Helm
    BY <2>1, OwnersApart DEF InHelm
  <2>11. HelmFound' /\ HelmOnly'
    BY <2>2, <2>9, <2>10 DEF clusterVars, HelmFound, HelmOnly, Listed, Owner, ResolvedOwner, Controller
  <2> QED BY <2>2, <2>6, <2>8, <2>11 DEF clusterVars, DiscoveryInv, OwnFound
<1>9. CASE HandOn
  <2>1. TypeOK' /\ Pushes'
    BY <1>9 DEF HandOn, NoPods, clusterVars, DiscoveryInv, TypeOK, Pushes
  <2> QED BY <1>9, <2>1 DEF HandOn, clusterVars, DiscoveryInv, OwnFound, HelmFound, HelmOnly
<1>10. ASSUME NEW w \in Workloads, DeleteWorkload(w) PROVE DiscoveryInv'
  <2>1. TypeOK' /\ Pushes' /\ UNCHANGED <<ownPod, replicaSets, scanVars, faults>>
        /\ deleted \subseteq deleted'
    BY <1>10, BoundAssumption DEF DeleteWorkload, scanVars, DiscoveryInv, TypeOK, Pushes
  <2> QED BY <2>1, ClusterStep DEF DiscoveryInv, OwnFound
<1> QED BY <1>1, <1>2, <1>3, <1>4, <1>5, <1>6, <1>7, <1>8, <1>9, <1>10 DEF Next, Cluster, Scan

LEMMA NoneIsNoDigest ==
  ASSUME DiscoveryInv, NEW id \in Ids
  PROVE  /\ ConfiguredImage(id) \in Images
         /\ <<ConfiguredImage(id), published[ConfiguredImage(id)]>> # None
         /\ \A p \in Started(id) : DigestIn(p, id[2]) # None
<1>1. ASSUME NEW p \in PodNames(id)
      PROVE  /\ seen[p].digest \in [Slots -> 0..MaxPushes \cup {None}]
             /\ id[2] \in Slots /\ seen[p].revision[id[2]] \in Images
  <2>1. p \in Pods /\ seen[p] # None /\ id[2] \in DOMAIN seen[p].revision
    BY PodNamesType DEF Live
  <2>2. seen[p].revision \in Revisions /\ seen[p].digest \in [Slots -> 0..MaxPushes \cup {None}]
    BY <2>1 DEF DiscoveryInv, TypeOK, Pod
  <2> QED BY <2>1, <2>2, RevisionAssumption
<1>2. ConfiguredImage(id) \in Images
  BY <1>1, PodNamesType, FirstPod DEF ConfiguredImage, ContainerSpecImage
<1>3. published[ConfiguredImage(id)] \in Nat
  BY <1>2, BoundAssumption DEF DiscoveryInv, TypeOK
<1>4. ASSUME NEW p \in Started(id) PROVE seen[p].digest[id[2]] \in Nat
  BY <1>1, BoundAssumption DEF Started
<1> QED BY <1>1, <1>2, <1>3, <1>4, RevisionAssumption DEF DigestIn, Started

LEMMA InvAlways == Spec => []DiscoveryInv
BY InitInv, NextInv, PTL DEF Spec

-----------------------------------------------------------------------------
(* The theorems.                                                            *)

(* Lists, digests, owners and counts keep their types, and no tag is pushed *)
(* more often than the bound on all pushes allows (DiscoverImages).         *)
THEOREM DiscoveryTypes == Spec => []TypeOK
BY InvAlways, PTL DEF DiscoveryInv

(* Whatever pods were merged, a record that is up to date has a pod that    *)
(* counts and runs what the tag is now (DiscoverImages).                    *)
THEOREM UpToDateRuns == Spec => []UpToDateIsRun
<1>1. DiscoveryInv => UpToDateIsRun
  <2> SUFFICES ASSUME DiscoveryInv, NEW id \in Ids, Status(id) = "up_to_date"
               PROVE  LET image == ConfiguredImage(id)
                      IN \E p \in PodNames(id) :
                           Live(p) /\ DigestIn(p, id[2]) = <<image, published[image]>>
    BY DEF UpToDateIsRun
  <2> DEFINE image == ConfiguredImage(id)
  <2>1. RunningDigest(id) # None /\ RunningDigest(id) = <<image, published[image]>>
    BY NoneIsNoDigest DEF Status
  <2>2. PICK p \in Started(id) : RunningDigest(id) = DigestIn(p, id[2])
    BY <2>1, MergedDigest
  <2>3. p \in PodNames(id) /\ Live(p)
    BY PodNamesType DEF Started
  <2> QED BY <2>1, <2>2, <2>3
<1> QED BY InvAlways, <1>1, PTL

(* Whatever pods were merged, an update is raised only where a pod that     *)
(* counts is outdated or two of them have different images (DiscoverImages).*)
THEOREM FalseUpdatesAreRollouts == Spec => []FalseUpdatesOnlyInRollouts
<1>1. FalseUpdatesOnlyInRollouts
  <2> SUFFICES ASSUME NEW id \in Ids, Status(id) = "update_available"
               PROVE  \/ \E p \in PodNames(id) :
                           /\ Live(p)
                           /\ seen[p].digest[id[2]] \notin {None, published[seen[p].revision[id[2]]]}
                      \/ \E p, q \in PodNames(id) :
                           /\ Live(p) /\ Live(q)
                           /\ seen[p].revision[id[2]] # seen[q].revision[id[2]]
    BY DEF FalseUpdatesOnlyInRollouts
  <2> DEFINE image == ConfiguredImage(id)
  <2>1. RunningDigest(id) # None /\ RunningDigest(id) # <<image, published[image]>>
    BY DEF Status
  <2>2. PICK p \in Started(id) : RunningDigest(id) = DigestIn(p, id[2])
    BY <2>1, MergedDigest
  <2>3. p \in PodNames(id) /\ Live(p) /\ seen[p].digest[id[2]] # None
    BY PodNamesType DEF Started
  <2>4. PICK q \in PodNames(id) : Live(q) /\ image = seen[q].revision[id[2]]
    BY PodNamesType, FirstPod DEF ConfiguredImage, ContainerSpecImage
  <2>5. CASE seen[p].revision[id[2]] = image
    BY <2>1, <2>2, <2>3, <2>5 DEF DigestIn
  <2>6. CASE seen[p].revision[id[2]] # image
    BY <2>3, <2>4, <2>6
  <2> QED BY <2>5, <2>6
<1> QED BY <1>1, PTL

(* Where all pods of a record have one image and all that have started run  *)
(* an old digest of it, the record says so (DiscoverImages).                *)
THEOREM OutdatedReported == Spec => []OutdatedIsReported
<1>1. DiscoveryInv => OutdatedIsReported
  <2> SUFFICES ASSUME DiscoveryInv, NEW id \in Ids, Started(id) # {},
                      \A q \in Started(id) :
                        seen[q].digest[id[2]] # published[seen[q].revision[id[2]]],
                      \A q \in PodNames(id) : seen[q].revision[id[2]] = ConfiguredImage(id)
               PROVE  Status(id) = "update_available"
    BY PodNamesType DEF OutdatedIsReported, Started
  <2> PICK p \in Started(id) : RunningDigest(id) = DigestIn(p, id[2])
    BY MergedDigest
  <2>1. DigestIn(p, id[2]) # None
    BY NoneIsNoDigest
  <2>2. DigestIn(p, id[2]) # <<ConfiguredImage(id), published[ConfiguredImage(id)]>>
    BY DEF DigestIn, Started
  <2> QED BY <2>1, <2>2 DEF Status
<1> QED BY InvAlways, <1>1, PTL

(* No update of what Helm manages is listed or found by the filter, as long *)
(* as no list failed and neither the workload nor the ReplicaSet of a pod   *)
(* was gone before its list was read (suppressImageUpdate,                  *)
(* buildWorkloadManagementMap).                                             *)
THEOREM HelmIsHidden == Spec => []HelmUpdatesHidden
<1>1. DiscoveryInv => HelmUpdatesHidden
  <2> SUFFICES ASSUME DiscoveryInv, pc = "check", faults = 0, NEW rec \in ListRecords,
                      rec.status = "update_available", ~SuppressImageUpdate(rec),
                      rec.kind # "ReplicaSet", NEW p \in PodNames(rec.id)
               PROVE  seen[p].workload \notin Helm \ deleted
    <3>1. ASSUME NEW records, NEW rec \in GetUpdatesSummary(records) \cup
                                         GetImages(records, None, None, "update_available")
          PROVE  rec \in records /\ rec.status = "update_available" /\ ~SuppressImageUpdate(rec)
      BY RevisionAssumption DEF GetUpdatesSummary, GetImages, Statuses
    <3> QED BY <3>1 DEF HelmUpdatesHidden
  <2>1. rec.kind = rec.id[1][1] /\ rec.helm = (rec.id[1] \in managed)
    BY DEF ListRecords
  <2>2. rec.id[1] \notin managed
    BY <2>1 DEF SuppressImageUpdate
  <2>3. p \in Listed /\ Owner(p) = rec.id[1]
    BY DEF PodNames, Counted
  <2> QED BY <2>1, <2>2, <2>3 DEF DiscoveryInv, HelmFound
<1> QED BY InvAlways, <1>1, PTL

(* The startup scan counts no pod of the own Deployment, old or new, as     *)
(* long as no list failed (CurrentWorkload, excludedWorkload).              *)
THEOREM OwnPodsUnseen == Spec => []OwnRolloutUnseen
<1>1. DiscoveryInv => OwnRolloutUnseen
  <2> SUFFICES ASSUME DiscoveryInv, excluded # None, faults = 0, NEW p \in Listed,
                      seen[p].workload = Self, Owner(p)[1] = "Deployment"
               PROVE  p \notin Counted
    BY DEF OwnRolloutUnseen
  <2>1. Owner(p) = OwnDeployment
    BY WorkloadAssumption DEF Owner, ResolvedOwner, Controller, OwnDeployment
  <2> QED BY <2>1 DEF DiscoveryInv, OwnFound, Counted
<1> QED BY InvAlways, <1>1, PTL

-----------------------------------------------------------------------------
(* The pages.                                                               *)

LEMMA RecordsType ==
  ASSUME DiscoveryInv, pc = "check", NEW rec \in ListRecords
  PROVE  /\ rec.status \in Statuses /\ rec.registry # None
         /\ rec.release = [name |-> rec.release.name, here |-> rec.release.here]
         /\ rec.release.here \in BOOLEAN
<1>1. PICK id \in Ids :
        /\ rec.registry = Registry[ConfiguredImage(id)] /\ rec.status = Status(id)
        /\ rec.release = IF id[1] \in managed THEN Release[seen[Min(PodNames(id))].workload]
                                              ELSE NoRelease
  BY DEF ListRecords
<1>2. rec.status \in Statuses
  <2>1. \/ RunningDigest(id) = None
        \/ RunningDigest(id) = <<ConfiguredImage(id), published[ConfiguredImage(id)]>>
        \/ /\ RunningDigest(id) # None
           /\ RunningDigest(id) # <<ConfiguredImage(id), published[ConfiguredImage(id)]>>
    OBVIOUS
  <2> QED BY <1>1, <2>1, NoneIsNoDigest DEF Status, Statuses
<1>3. rec.registry # None
  BY <1>1, NoneIsNoDigest, WorkloadAssumption
<1>4. /\ rec.release = [name |-> rec.release.name, here |-> rec.release.here]
      /\ rec.release.here \in BOOLEAN
  <2>1. CASE id[1] \in managed
    <3> DEFINE p == Min(PodNames(id))
    <3>1. p \in PodNames(id)
      BY PodNamesType, FirstPod
    <3>2. p \in Listed /\ Owner(p) = id[1]
      BY <3>1 DEF PodNames, Counted
    <3>3. seen[p].workload \in Helm
      BY <2>1, <3>2 DEF DiscoveryInv, HelmOnly
    <3> HIDE DEF p
    <3>4. rec.release = Release[seen[p].workload]
      BY <1>1, <2>1 DEF p
    <3> QED BY <3>3, <3>4, WorkloadAssumption
  <2>2. CASE id[1] \notin managed
    BY <1>1, <2>2 DEF NoRelease
  <2> QED BY <2>1, <2>2
<1> QED BY <1>2, <1>3, <1>4

LEMMA RecordsFinite ==
  ASSUME DiscoveryInv
  PROVE  IsFiniteSet(ListRecords)
<1>1. IsFiniteSet(Ids)
  <2> DEFINE owner == [p \in Counted |-> Owner(p)]
             Found == {owner[p] : p \in Counted}
  <2>1. IsFiniteSet(Counted)
    BY RevisionAssumption, FS_Subset DEF Counted, Listed
  <2>2. owner \in Surjection(Counted, Found)
    BY DEF Surjection
  <2>3. IsFiniteSet(Found)
    <3> HIDE DEF owner, Found
    <3> QED BY <2>1, <2>2, FS_Surjection
  <2>4. IsFiniteSet(Found \X Slots)
    <3> HIDE DEF Found
    <3> QED BY <2>3, RevisionAssumption, FS_Product
  <2>5. Ids \subseteq Found \X Slots
    <3> SUFFICES ASSUME NEW i \in Ids PROVE i \in Found \X Slots
      OBVIOUS
    <3>1. PICK p \in Counted : \E s \in ContainersOf(p) : i = <<Owner(p), s>>
      BY DEF Ids
    <3>2. seen[p] \in Pod
      BY DEF Counted, Listed, DiscoveryInv, TypeOK
    <3>3. ContainersOf(p) \subseteq Slots
      BY <3>2, RevisionAssumption DEF ContainersOf, Pod
    <3> QED BY <3>1, <3>3
  <2> QED BY <2>4, <2>5, FS_Subset
<1> DEFINE id == [rec \in ListRecords |-> rec.id]
<1>2. id \in Injection(ListRecords, Ids)
  BY DEF ListRecords, Injection, IsInjective
<1> HIDE DEF id
<1> QED BY <1>1, <1>2, FS_Injection

LEMMA TwoParts ==
  ASSUME NEW S, NEW T, IsFiniteSet(S), IsFiniteSet(T), S \cap T = {}
  PROVE  /\ IsFiniteSet(S \cup T) /\ Cardinality(S \cup T) = Cardinality(S) + Cardinality(T)
         /\ Cardinality(S) \in Nat /\ Cardinality(T) \in Nat
<1>1. IsFiniteSet(S \cup T)
      /\ Cardinality(S \cup T) = Cardinality(S) + Cardinality(T) - Cardinality(S \cap T)
  BY FS_Union
<1>2. Cardinality(S \cap T) = 0
  BY FS_EmptySet
<1>3. Cardinality(S) \in Nat /\ Cardinality(T) \in Nat
  BY FS_CardinalityType
<1> QED BY <1>1, <1>2, <1>3

(* The counts, the hidden updates and the total.                            *)
LEMMA TotalIsSum ==
  ASSUME NEW R, IsFiniteSet(R), \A rec \in R : rec.status \in Statuses
  PROVE  LET With(t) == {rec \in R : rec.status = t /\ ~SuppressImageUpdate(rec)}
         IN Cardinality(R) = Cardinality(With("up_to_date")) + Cardinality(With("update_available"))
              + Cardinality(With("unknown")) + Cardinality(With("check_failed"))
              + Cardinality({rec \in R : SuppressImageUpdate(rec)})
<1> DEFINE With(t) == {rec \in R : rec.status = t /\ ~SuppressImageUpdate(rec)}
           A == With("up_to_date")
           B == With("update_available")
           C == With("unknown")
           D == With("check_failed")
           H == {rec \in R : SuppressImageUpdate(rec)}
<1>1. IsFiniteSet(A) /\ IsFiniteSet(B) /\ IsFiniteSet(C) /\ IsFiniteSet(D) /\ IsFiniteSet(H)
  BY FS_Subset
<1>2. R = A \cup B \cup C \cup D \cup H
  BY DEF Statuses
<1>3. A \cap B = {} /\ (A \cup B) \cap C = {} /\ (A \cup B \cup C) \cap D = {}
  OBVIOUS
<1>4. (A \cup B \cup C \cup D) \cap H = {}
  OBVIOUS
<1> HIDE DEF A, B, C, D, H
<1>5. /\ IsFiniteSet(A \cup B) /\ Cardinality(A \cup B) = Cardinality(A) + Cardinality(B)
      /\ Cardinality(A) \in Nat /\ Cardinality(B) \in Nat
  BY <1>1, <1>3, TwoParts
<1>6. /\ IsFiniteSet(A \cup B \cup C)
      /\ Cardinality(A \cup B \cup C) = Cardinality(A \cup B) + Cardinality(C)
      /\ Cardinality(C) \in Nat
  BY <1>1, <1>3, <1>5, TwoParts
<1>7. /\ IsFiniteSet(A \cup B \cup C \cup D)
      /\ Cardinality(A \cup B \cup C \cup D) = Cardinality(A \cup B \cup C) + Cardinality(D)
      /\ Cardinality(D) \in Nat
  BY <1>1, <1>3, <1>6, TwoParts
<1>8. /\ Cardinality(R) = Cardinality(A \cup B \cup C \cup D) + Cardinality(H)
      /\ Cardinality(H) \in Nat
  BY <1>1, <1>2, <1>4, <1>7, TwoParts
<1>9. Cardinality(R) = Cardinality(A) + Cardinality(B) + Cardinality(C) + Cardinality(D) + Cardinality(H)
  BY <1>5, <1>6, <1>7, <1>8
<1> QED BY <1>9 DEF A, B, C, D, H

LEMMA OneForEachHost ==
  ASSUME NEW R, IsFiniteSet(R)
  PROVE  Cardinality(GetRegistries(R)) = Cardinality({rec.registry : rec \in R})
<1> DEFINE host == [rec \in R |-> rec.registry]
           Hosts == {rec.registry : rec \in R}
           entry == [h \in Hosts |-> [host |-> h, count |-> Cardinality({rec \in R : rec.registry = h})]]
<1>1. host \in Surjection(R, Hosts)
  BY DEF Surjection
<1>2. entry \in Bijection(Hosts, GetRegistries(R))
  BY DEF Bijection, Injection, IsInjective, Surjection, GetRegistries
<1>3. IsFiniteSet(Hosts)
  <2> HIDE DEF host, Hosts, entry
  <2> QED BY <1>1, FS_Surjection
<1> HIDE DEF host, Hosts, entry
<1>4. ExistsBijection(Hosts, GetRegistries(R))
  BY <1>2 DEF ExistsBijection
<1>5. Cardinality(GetRegistries(R)) = Cardinality(Hosts)
  BY <1>3, <1>4, FS_Bijection
<1> QED BY <1>5 DEF Hosts

(* Any records of any scan give numbers that agree on all pages (getSummary,*)
(* getUpdatesSummary, getImages, getRegistries, helmManagedImageCounts).    *)
THEOREM NumbersAgree == Spec => []PagesAgree
<1>1. ASSUME DiscoveryInv, pc = "check" PROVE PagesAgree
  <2> DEFINE R == ListRecords
             With(t) == {rec \in R : rec.status = t /\ ~SuppressImageUpdate(rec)}
             updates == GetUpdatesSummary(R)
             hidden == GetImages(R, None, None, None)
                         \ UNION {GetImages(R, None, None, t) : t \in Statuses}
  <2>1. IsFiniteSet(R)
    BY <1>1, RecordsFinite
  <2>2. \A rec \in R : /\ rec.status \in Statuses /\ rec.registry # None
                       /\ rec.release = [name |-> rec.release.name, here |-> rec.release.here]
                       /\ rec.release.here \in BOOLEAN
    BY <1>1, RecordsType
  <2> HIDE DEF R
  <2>3. None \notin Statuses /\ "update_available" \in Statuses
    BY RevisionAssumption DEF Statuses
  <2>4. \A t \in Statuses : GetImages(R, None, None, t) = With(t)
    BY <2>3 DEF GetImages, SuppressImageUpdate
  <2>5. GetImages(R, None, None, None) = R
    BY <2>3 DEF GetImages
  <2>6. hidden = {rec \in R : SuppressImageUpdate(rec)}
    <3>1. \A rec \in R : SuppressImageUpdate(rec) <=> \A t \in Statuses : rec \notin With(t)
      BY <2>2
    <3> HIDE DEF With
    <3> QED BY <2>4, <2>5, <3>1
  <2>7. updates = With("update_available")
    BY DEF GetUpdatesSummary
  <2>8. \A t \in Statuses : GetSummary(R).count[t] = Cardinality(With(t))
    BY DEF GetSummary
  <2>9. /\ GetSummary(R).total = Cardinality(R)
        /\ GetSummary(R).registries = Cardinality({rec.registry : rec \in R})
    BY DEF GetSummary
  <2>10. Cardinality(R) = Cardinality(With("up_to_date")) + Cardinality(With("update_available"))
              + Cardinality(With("unknown")) + Cardinality(With("check_failed"))
              + Cardinality({rec \in R : SuppressImageUpdate(rec)})
    BY <2>1, <2>2, TotalIsSum
  <2>11. \A r \in GetRegistries(R) : r.count = Cardinality(GetImages(R, r.host, None, None))
    <3> SUFFICES ASSUME NEW r \in GetRegistries(R)
                 PROVE  r.count = Cardinality(GetImages(R, r.host, None, None))
      OBVIOUS
    <3>1. PICK h \in {rec.registry : rec \in R} :
            r = [host |-> h, count |-> Cardinality({rec \in R : rec.registry = h})]
      BY DEF GetRegistries
    <3>2. h # None /\ r.host = h /\ r.count = Cardinality({rec \in R : rec.registry = h})
      BY <2>2, <3>1
    <3>3. GetImages(R, h, None, None) = {rec \in R : rec.registry = h}
      BY <2>3, <3>2 DEF GetImages
    <3> QED BY <3>2, <3>3
  <2>12. ASSUME NEW rec \in hidden, rec.release.name # None, rec.release.here
         PROVE  HelmManagedImageCounts(R, rec.release.name) > 0
    <3> DEFINE its == {x \in R : x.release = [name |-> rec.release.name, here |-> TRUE]}
    <3>1. rec \in its
      BY <2>2, <2>6, <2>12
    <3>2. IsFiniteSet(its)
      BY <2>1, FS_Subset
    <3>3. Cardinality(its) \in Nat /\ Cardinality(its) # 0
      <4> HIDE DEF its
      <4> QED BY <3>1, <3>2, FS_CardinalityType, FS_EmptySet
    <3> QED BY <3>3 DEF HelmManagedImageCounts
  <2>13. GetSummary(R).registries = Cardinality(GetRegistries(R))
    BY <2>1, <2>9, OneForEachHost
  <2>14. /\ GetSummary(R).count["update_available"] = Cardinality(updates)
         /\ GetImages(R, None, None, "update_available") = updates
    BY <2>3, <2>4, <2>7, <2>8
  <2>15. GetSummary(R).total =
           GetSummary(R).count["up_to_date"] + GetSummary(R).count["update_available"]
             + GetSummary(R).count["unknown"] + GetSummary(R).count["check_failed"]
             + Cardinality(hidden)
    BY <2>6, <2>8, <2>9, <2>10 DEF Statuses
  <2> HIDE DEF With, updates, hidden
  <2> QED BY <2>11, <2>12, <2>13, <2>14, <2>15 DEF PagesAgree, R, updates, hidden
<1>2. DiscoveryInv => PagesAgree
  BY <1>1 DEF PagesAgree
<1> QED BY InvAlways, <1>2, PTL
=============================================================================
