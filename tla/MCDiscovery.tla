----------------------------- MODULE MCDiscovery ------------------------------
(* The Deployment of the process itself, one that Helm manages, a            *)
(* StatefulSet with Helm's label only, a Job of Helm's and a bare pod; the   *)
(* second revision of a template has an init container besides and another   *)
(* image.                                                                    *)
EXTENDS Discovery, TLC

CONSTANTS self, app, db, job, bare, old, new

App == [init |-> FALSE, name |-> "c"]
Setup == [init |-> TRUE, name |-> "s"]

MCWorkloads == {self, app, db, job, bare}
MCKind == (self :> "Deployment") @@ (app :> "Deployment")
            @@ (db :> "StatefulSet") @@ (job :> "Job") @@ (bare :> "Pod")
MCHelm == {app, db, job}
MCRelease == app :> [name |-> "shop", here |-> TRUE] @@ db :> [name |-> None, here |-> TRUE]
               @@ job :> [name |-> "shop", here |-> FALSE]
MCRegistry == old :> "docker.io" @@ new :> "quay.io"
MCSlots == {App, Setup}
MCFirstRevision == App :> old
MCRevisions == {MCFirstRevision, (App :> new) @@ (Setup :> old)}
=============================================================================
