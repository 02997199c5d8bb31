------------------------------ MODULE Discovery ------------------------------
(* From pods to records: what one call of DiscoverImages (discover.go) makes *)
(* of a namespace in which workloads are rolled out while it looks, and what *)
(* the handlers that read (api/handler.go) make of the records.              *)
(*                                                                           *)
(* The pods, the ReplicaSets and the workloads are three lists, taken one    *)
(* after the other.  Pods of one workload share a record for each of their   *)
(* containers: its image is that of the first pod of the list, its digest    *)
(* that of the last one whose container has started.                         *)
(*                                                                           *)
(* A DaemonSet is to the scan what a StatefulSet is.  Jobs of a CronJob are  *)
(* Jobs, with Helm's label or annotation only if its job template has them;  *)
(* pods of controllers that resolvedOwner does not name count as bare.       *)
EXTENDS Integers, FiniteSetsExt

CONSTANTS Pods,          \* pod names; their order is that of the lists
          Workloads,
          Kind,          \* of every workload
          Images,
          Slots,         \* [init : BOOLEAN, name : ...], a container of a pod
          Revisions,     \* the pod templates: an image for some of the slots
          FirstRevision, \* the one all workloads start with
          Helm,          \* the workloads that have Helm's label or annotation themselves
          Release,       \* of these: [name, here], name None without the annotation;
                         \* is it, or may it be, a release of the same namespace
          Registry,      \* of every image
          SkipCompleted, \* of the DiscoveryOptions
          Internal,      \* images left out for ExcludeInternalRegistry
          Self, SelfPod, \* the workload and the pod of this process
          None,
          MaxChanges,    \* bounds: rollouts and deletions together,
          MaxFaults,     \* failing calls,
          MaxPushes      \* all pushes together

Statuses == {"up_to_date", "update_available", "unknown", "check_failed"}
Kinds == {"Deployment", "StatefulSet", "Job", "Pod"}
Refs == ({"Deployment", "StatefulSet", "Job"} \X (Workloads \X {None}))
          \cup ({"ReplicaSet"} \X (Workloads \X Revisions))
          \cup ({"Pod"} \X (Pods \X {None}))

ASSUME WorkloadAssumption ==
  /\ Kind \in [Workloads -> Kinds]
  /\ Helm \subseteq Workloads /\ Internal \subseteq Images
  /\ DOMAIN Registry = Images /\ \A i \in Images : Registry[i] # None
  /\ DOMAIN Release = Helm
  /\ \A w \in Helm : /\ Release[w] = [name |-> Release[w].name, here |-> Release[w].here]
                     /\ Release[w].here \in BOOLEAN
  /\ Self \in Workloads /\ Kind[Self] = "Deployment" /\ SelfPod \in Pods
ASSUME RevisionAssumption ==
  /\ FirstRevision \in Revisions /\ IsFiniteSet(Slots)
  /\ Pods \subseteq Nat /\ IsFiniteSet(Pods)
  /\ None \notin Workloads \cup Revisions \cup Refs \cup Statuses \cup (Images \X Nat)
  /\ \A r \in Revisions : DOMAIN r \subseteq Slots /\ \A s \in DOMAIN r : r[s] \in Images
ASSUME OptionAssumption == SkipCompleted \in BOOLEAN
ASSUME BoundAssumption == MaxChanges \in Nat /\ MaxPushes \in Nat /\ MaxFaults \in Nat

VARIABLES template,     \* the pod template of every workload
          replicaSets,  \* the ReplicaSets of the Deployments, by revision
          deleted,      \* the workloads that are gone; their pods may still terminate
          published,    \* how often the tag of an image was pushed
          ownPod,       \* the pod this process runs in
          pc,           \* where the scan is
          excluded,     \* the ExcludedWorkloads of the startup scan
          seen,         \* the pods it listed
          owners,       \* the ReplicaSets whose Deployment it found
          managed,      \* the owners it found to be managed by Helm
          changes, pushes, faults

clusterVars == <<template, replicaSets, deleted, published, ownPod, changes, pushes>>
scanVars == <<pc, excluded, seen, owners, managed>>
vars == <<clusterVars, scanVars, faults>>

(* A digest of an image is the number of the push it comes from, None as    *)
(* long as the container has not started.                                   *)
Pod == [workload : Workloads, revision : Revisions, completed : BOOLEAN,
        digest : [Slots -> 0..MaxPushes \cup {None}]]
NoPods == [p \in Pods |-> None]

TypeOK ==
  /\ template \in [Workloads -> Revisions]
  /\ replicaSets \subseteq Workloads \X Revisions /\ owners \subseteq Workloads \X Revisions
  /\ deleted \subseteq Workloads \ {Self} /\ published \in [Images -> 0..MaxPushes]
  /\ ownPod \in Pod /\ seen \in [Pods -> Pod \cup {None}]
  /\ pc \in {"detect", "idle", "replicasets", "workloads", "check"}
  /\ excluded \in Refs \cup {None} /\ managed \subseteq Refs
  /\ changes \in 0..MaxChanges /\ pushes \in 0..MaxPushes /\ faults \in 0..MaxFaults

-----------------------------------------------------------------------------
(* The cluster.                                                             *)

Rollout(w, r) ==
  /\ Kind[w] \in {"Deployment", "StatefulSet"} /\ w \notin deleted
  /\ template[w] # r /\ changes < MaxChanges
  /\ template' = [template EXCEPT ![w] = r]
  /\ replicaSets' = IF Kind[w] = "Deployment" THEN replicaSets \cup {<<w, r>>} ELSE replicaSets
  /\ changes' = changes + 1
  /\ UNCHANGED <<deleted, published, ownPod, pushes, scanVars, faults>>

(* The object goes at once, what it owns is collected later.                *)
DeleteWorkload(w) ==
  /\ w # Self /\ Kind[w] # "Pod" /\ w \notin deleted /\ changes < MaxChanges
  /\ deleted' = deleted \cup {w}
  /\ changes' = changes + 1
  /\ UNCHANGED <<template, replicaSets, published, ownPod, pushes, scanVars, faults>>

(* A ReplicaSet goes when it is an old one whose pods are gone, or with its *)
(* Deployment.                                                              *)
PruneReplicaSet(w, r) ==
  /\ <<w, r>> \in replicaSets /\ <<w, r>> # <<Self, ownPod.revision>>
  /\ r # template[w] \/ w \in deleted
  /\ replicaSets' = replicaSets \ {<<w, r>>}
  /\ UNCHANGED <<template, deleted, published, ownPod, changes, pushes, scanVars, faults>>

Push(i) ==
  /\ pushes < MaxPushes /\ pushes' = pushes + 1
  /\ published' = [published EXCEPT ![i] = @ + 1]
  /\ UNCHANGED <<template, replicaSets, deleted, ownPod, changes, scanVars, faults>>

(* Pods there may be now, those of a deleted workload too: of a ReplicaSet  *)
(* that exists, of the first or the present template of a StatefulSet, of a *)
(* Job, or bare; completed or not, with containers that run what their node *)
(* pulled, now or earlier.  A pod whose containers have no status yet is as *)
(* good as none, and one whose ReplicaSet has gone before the pods are      *)
(* listed is seen like one whose ReplicaSet goes after it.                  *)
PossiblePod ==
  {pod \in Pod :
     /\ Kind[pod.workload] \in {"Job", "Pod"} => pod.revision = template[pod.workload]
     /\ Kind[pod.workload] = "StatefulSet" => pod.revision \in {FirstRevision, template[pod.workload]}
     /\ Kind[pod.workload] = "Deployment" => <<pod.workload, pod.revision>> \in replicaSets
     /\ \A s \in Slots : pod.digest[s] # None =>
          s \in DOMAIN pod.revision /\ pod.digest[s] <= published[pod.revision[s]]}

-----------------------------------------------------------------------------
(* The scan.                                                                *)

Controller(p, pod) ==
  CASE Kind[pod.workload] = "Deployment" -> <<"ReplicaSet", <<pod.workload, pod.revision>>>>
    [] Kind[pod.workload] \in {"StatefulSet", "Job"} -> <<Kind[pod.workload], <<pod.workload, None>>>>
    [] OTHER -> <<"Pod", <<p, None>>>>

(* Mutant: the kind of the Deployment with the name of its ReplicaSet.      *)
OwnerKeepsName(p, pod, rsOwners) ==
  LET ref == Controller(p, pod)
  IN IF ref[1] = "ReplicaSet" /\ ref[2] \in rsOwners THEN <<"Deployment", ref[2]>> ELSE ref

ResolvedOwner(p, pod, rsOwners) ==
  LET ref == Controller(p, pod)
  IN IF ref[1] = "ReplicaSet" /\ ref[2] \in rsOwners
       THEN <<"Deployment", <<pod.workload, None>>>> ELSE ref

Fault == faults < MaxFaults /\ faults' = faults + 1

(* Mutant: the owner of the own pod is not resolved.                        *)
DetectController ==
  /\ pc = "detect" /\ pc' = "idle"
  /\ excluded' = Controller(SelfPod, ownPod)
  /\ UNCHANGED <<clusterVars, seen, owners, managed, faults>>

(* CurrentWorkload, before the first scan: without the pod nothing is       *)
(* excluded, without the ReplicaSets the wrong owner is.                    *)
Detect ==
  /\ pc = "detect" /\ pc' = "idle"
  /\ \/ /\ excluded' = ResolvedOwner(SelfPod, ownPod, replicaSets)
        /\ UNCHANGED faults
     \/ /\ Fault
        /\ excluded' \in {None, ResolvedOwner(SelfPod, ownPod, {})}
  /\ UNCHANGED <<clusterVars, seen, owners, managed>>

(* Listing pods may fail too: the namespace is skipped, nothing is found.   *)
ListPods ==
  /\ pc = "idle" /\ pc' = "replicasets"
  /\ \E others \in [Pods \ {SelfPod} -> PossiblePod \cup {None}] :
       seen' = [p \in Pods |-> IF p = SelfPod THEN ownPod ELSE others[p]]
  /\ UNCHANGED <<clusterVars, excluded, owners, managed, faults>>

Listed == {p \in Pods : seen[p] # None}
Needed == {Controller(p, seen[p])[2] : p \in {q \in Listed : Kind[seen[q].workload] = "Deployment"}}

ListReplicaSets ==
  /\ pc = "replicasets" /\ pc' = "workloads"
  /\ \/ owners' = Needed \cap replicaSets /\ UNCHANGED faults
     \/ Needed # {} /\ owners' = {} /\ Fault
  /\ UNCHANGED <<clusterVars, excluded, seen, managed>>

Owner(p) == ResolvedOwner(p, seen[p], owners)

(* An owner that is not in its list is nobody's: a ReplicaSet may be gone,  *)
(* a deleted workload is.  Of Helm's marks a Deployment gives its           *)
(* ReplicaSets the annotations, not the label.                              *)
InHelm(p) ==
  LET w == seen[p].workload
  IN /\ w \in Helm
     /\ Owner(p)[1] = "ReplicaSet" => Owner(p)[2] \in replicaSets /\ Release[w].name # None
     /\ Owner(p)[1] \notin {"ReplicaSet", "Pod"} => w \notin deleted

(* One list for each kind of owner but pods, whose own metadata counts.     *)
ListWorkloads ==
  /\ pc = "workloads" /\ pc' = "check"
  /\ \E failed \in SUBSET ({Owner(p)[1] : p \in Listed} \ {"Pod"}) :
       /\ faults + Cardinality(failed) <= MaxFaults
       /\ faults' = faults + Cardinality(failed)
       /\ managed' = {Owner(p) : p \in {q \in Listed : InHelm(q) /\ Owner(q)[1] \notin failed}}
  /\ UNCHANGED <<clusterVars, excluded, seen, owners>>

(* Mutant: completed pods count whatever the settings say.                  *)
CountedAll == {p \in Listed : Owner(p) # excluded}

Counted == {p \in Listed : ~(SkipCompleted /\ seen[p].completed) /\ Owner(p) # excluded}

(* Mutant: the image the workload has now instead of the one of the pod.    *)
ImageOfWorkload(p, s) ==
  IF s \in DOMAIN template[seen[p].workload] THEN template[seen[p].workload][s]
                                             ELSE seen[p].revision[s]

ContainerSpecImage(p, s) == seen[p].revision[s]

ContainersOf(p) == {s \in DOMAIN seen[p].revision : ContainerSpecImage(p, s) \notin Internal}

Ids == UNION {{<<Owner(p), s>> : s \in ContainersOf(p)} : p \in Counted}

PodNames(id) == {p \in Counted : Owner(p) = id[1] /\ id[2] \in ContainersOf(p)}

DigestIn(p, s) == <<seen[p].revision[s], seen[p].digest[s]>>

(* Mutant: the digest of the last pod, started or not.                      *)
DigestOfLast(id) ==
  LET last == Max(PodNames(id))
  IN IF seen[last].digest[id[2]] = None THEN None ELSE DigestIn(last, id[2])

RunningDigest(id) ==
  LET started == {p \in PodNames(id) : seen[p].digest[id[2]] # None}
  IN IF started = {} THEN None ELSE DigestIn(Max(started), id[2])

ConfiguredImage(id) == ContainerSpecImage(Min(PodNames(id)), id[2])

(* Then checkRecords compares with what the tag is now; newer tags aside.   *)
Status(id) ==
  LET running == RunningDigest(id)
      image == ConfiguredImage(id)
  IN CASE running = None -> "unknown"
       [] running = <<image, published[image]>> -> "up_to_date"
       [] OTHER -> "update_available"

-----------------------------------------------------------------------------
(* The handlers that read.                                                  *)

NoRelease == [name |-> None, here |-> FALSE]

ListRecords ==
  {[id |-> id, registry |-> Registry[ConfiguredImage(id)], kind |-> id[1][1],
    status |-> Status(id), helm |-> id[1] \in managed,
    release |-> IF id[1] \in managed THEN Release[seen[Min(PodNames(id))].workload]
                                     ELSE NoRelease] : id \in Ids}

(* Mutant: only where the annotation names a release.                       *)
SuppressNamed(rec) == rec.status = "update_available" /\ rec.release.name # None

SuppressImageUpdate(rec) == rec.status = "update_available" /\ rec.helm

GetUpdatesSummary(records) ==
  {rec \in records : rec.status = "update_available" /\ ~SuppressImageUpdate(rec)}

(* A filter that is not given is None; the free search is left out.         *)
GetImages(records, registry, kind, status) ==
  {rec \in records :
     /\ registry \in {None, rec.registry}
     /\ kind \in {None, rec.kind}
     /\ status \in {None, rec.status}
     /\ ~(status = "update_available" /\ SuppressImageUpdate(rec))}

(* The images of each registry.                                             *)
GetRegistries(records) ==
  {[host |-> host, count |-> Cardinality({rec \in records : rec.registry = host})] :
     host \in {rec.registry : rec \in records}}

(* Mutant: what Helm manages is counted like the rest.                      *)
SummaryOfAll(records) ==
  [total |-> Cardinality(records),
   count |-> [t \in Statuses |-> Cardinality({rec \in records : rec.status = t})],
   registries |-> Cardinality({rec.registry : rec \in records})]

GetSummary(records) ==
  [total |-> Cardinality(records),
   count |-> [t \in Statuses |->
     Cardinality({rec \in records : rec.status = t /\ ~SuppressImageUpdate(rec)})],
   registries |-> Cardinality({rec.registry : rec \in records})]

(* For a release of this namespace.                                         *)
HelmManagedImageCounts(records, name) ==
  Cardinality({rec \in records : rec.release = [name |-> name, here |-> TRUE]})

(* The records are handed on, and the next scan excludes no workload.       *)
HandOn ==
  /\ pc = "check" /\ pc' = "idle"
  /\ excluded' = None /\ seen' = NoPods /\ owners' = {} /\ managed' = {}
  /\ UNCHANGED <<clusterVars, faults>>

Scan == Detect \/ ListPods \/ ListReplicaSets \/ ListWorkloads \/ HandOn

Init ==
  /\ template = [w \in Workloads |-> FirstRevision]
  /\ ownPod = [workload |-> Self, revision |-> FirstRevision, completed |-> FALSE,
               digest |-> [s \in Slots |-> IF s \in DOMAIN FirstRevision THEN 0 ELSE None]]
  /\ replicaSets = {<<w, template[w]>> : w \in {v \in Workloads : Kind[v] = "Deployment"}}
  /\ published = [i \in Images |-> 0]
  /\ pc = "detect" /\ excluded = None
  /\ seen = NoPods /\ owners = {} /\ managed = {}
  /\ deleted = {} /\ changes = 0 /\ pushes = 0 /\ faults = 0

Cluster ==
  \/ \E w \in Workloads, r \in Revisions : Rollout(w, r) \/ PruneReplicaSet(w, r)
  \/ \E w \in Workloads : DeleteWorkload(w)
  \/ \E i \in Images : Push(i)

Next == Cluster \/ Scan

Spec == Init /\ [][Next]_vars

-----------------------------------------------------------------------------
(* Properties, about the records when they are checked.                     *)

Live(p) == seen[p] # None /\ ~(SkipCompleted /\ seen[p].completed)

(* Up to date is never said of a tag that no pod of the workload runs: a    *)
(* pod that still counts runs the very digest the tag has now               *)
(* (DiscoverImages takes digest and image from different pods).             *)
UpToDateIsRun ==
  pc = "check" =>
    \A id \in Ids : Status(id) = "up_to_date" =>
      LET image == ConfiguredImage(id)
      IN \E p \in PodNames(id) : Live(p) /\ DigestIn(p, id[2]) = <<image, published[image]>>

(* An update is never raised for nothing, unless a rollout shows two images *)
(* of one container at once: then the first pod gives the image, the last   *)
(* the digest, and both may be current.                                     *)
FalseUpdatesOnlyInRollouts ==
  pc = "check" =>
    \A id \in Ids : Status(id) = "update_available" =>
      LET live == {p \in PodNames(id) : Live(p)}
          outdated(p) == seen[p].digest[id[2]] \notin {None, published[seen[p].revision[id[2]]]}
      IN (\E p \in live : outdated(p))
           \/ (\E p, q \in live : seen[p].revision[id[2]] # seen[q].revision[id[2]])

(* An update that all pods need is reported, also while some of them have   *)
(* not started, and whatever lists failed: if the started containers of a   *)
(* workload all run an old digest of the one image it has, each of its      *)
(* records with a started container says so.                                *)
OutdatedIsReported ==
  pc = "check" =>
    \A id \in Ids :
      LET pods == PodNames(id)
          started == {p \in pods : Live(p) /\ seen[p].digest[id[2]] # None}
          image == ConfiguredImage(id)
      IN /\ started # {}
         /\ \A p \in started : seen[p].digest[id[2]] # published[seen[p].revision[id[2]]]
         /\ \A p \in pods : seen[p].revision[id[2]] = image
         => Status(id) = "update_available"

(* Updates of what Helm manages are neither listed nor found by a filter,   *)
(* with its label or its annotation, as long as the workload is there, no   *)
(* list failed and no pod outlived its ReplicaSet in the lists; of a        *)
(* workload deleted while its pods terminate they are shown                 *)
(* (suppressImageUpdate, buildWorkloadManagementMap).                       *)
HelmUpdatesHidden ==
  pc = "check" /\ faults = 0 =>
    LET records == ListRecords
    IN \A rec \in GetUpdatesSummary(records) \cup GetImages(records, None, None, "update_available") :
         rec.kind # "ReplicaSet" => \A p \in PodNames(rec.id) : seen[p].workload \notin Helm \ deleted

(* The pages agree in their numbers, also while lists fail and records are  *)
(* merged: the updates counted are the updates listed and the images found  *)
(* by that filter; a registry has the images found by its own; and what the *)
(* summary has in its total but in no count are updates, each counted as an *)
(* image of its release if that is known and of this namespace (getSummary, *)
(* getUpdatesSummary, getImages, getRegistries, helmManagedImageCounts).    *)
PagesAgree ==
  pc = "check" =>
    LET records == ListRecords
        summary == GetSummary(records)
        updates == GetUpdatesSummary(records)
        hidden == GetImages(records, None, None, None)
                    \ UNION {GetImages(records, None, None, t) : t \in Statuses}
        registries == GetRegistries(records)
    IN /\ summary.count["update_available"] = Cardinality(updates)
       /\ GetImages(records, None, None, "update_available") = updates
       /\ summary.registries = Cardinality(registries)
       /\ \A r \in registries : r.count = Cardinality(GetImages(records, r.host, None, None))
       /\ summary.total = summary.count["up_to_date"] + summary.count["update_available"]
            + summary.count["unknown"] + summary.count["check_failed"] + Cardinality(hidden)
       /\ \A rec \in hidden : rec.release.name # None /\ rec.release.here =>
            HelmManagedImageCounts(records, rec.release.name) > 0

(* The startup scan records nothing of the workload it runs in, neither the *)
(* new pod nor pods of the rollout before, as long as their Deployment can  *)
(* be found.                                                                *)
OwnRolloutUnseen ==
  pc = "check" /\ excluded # None /\ faults = 0 =>
    \A p \in Listed : seen[p].workload = Self /\ Owner(p)[1] = "Deployment" => p \notin Counted
=============================================================================
