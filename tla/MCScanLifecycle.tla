--------------------------- MODULE MCScanLifecycle ---------------------------
(* A small cluster for ScanLifecycle: container a in namespace n1 belongs to *)
(* a Deployment and is recorded as aRS, of workload webRS, while its         *)
(* ReplicaSet has no known owner; b, of a workload of the same kind and name *)
(* in n2, is gone but still in the data file.                                *)
EXTENDS ScanLifecycle, TLC

CONSTANTS a, aRS, b, n1, n2, web, webRS, m1

MCIds == {a, aRS, b}
MCNsOf == a :> n1 @@ aRS :> n1 @@ b :> n2
MCWorkloadOf == a :> web @@ aRS :> webRS @@ b :> web
OnlyARSName == a :> aRS
AnyDeployed == [Containers -> Images \cup {None}]

(* The settings that may be put leave out the one container there is.       *)
MCStartSettings == [included |-> {}, excluded |-> {}]
MCSettingsValues == {[included |-> {}, excluded |-> {n1}]}

WebInN1 == [namespace |-> n1, workload |-> web]
WebAnywhere == [namespace |-> None, workload |-> web]   \* refused with 400
MCRequests == {FullRequest, WebInN1, WebAnywhere}
MCPersisted == {[Empty EXCEPT ![b] = [image |-> m1, status |-> "failed"]]}
=============================================================================
