--------------------------- MODULE RegistryLookups ---------------------------
(* The pool of CheckPool with the lookups its workers make: which registry   *)
(* is asked, by which reference and with which credentials (scanner.go and   *)
(* routes.go of backend/internal/k8s, backend/pkg/ociref/parse.go), and what *)
(* is made of the answer (backend/internal/registry/checker.go), while tags  *)
(* are pushed.                                                               *)
(*                                                                           *)
(* An image is written [host, path, tag, digest], each part but the path     *)
(* None where it is left out.                                                *)
EXTENDS CheckPool, Sequences

CONSTANTS
  Hosts,         \* the registries, [name, port]
  Image,         \* of a group: its configured image
  VersionTags,   \* the tags that start with a semantic version
  Contents,      \* of a digest: [index, readable, entries], entries a sequence
                 \* of [platform, digest]
  RegistryAt,    \* [host -> the registry that answers there]
  StartTags,     \* [<<registry, path, tag>> -> digest]: when the scan starts
  RouteAnswers,  \* answers of the route API: [get, list]
  DockerConfig,  \* the config.json: [key -> are its credentials not empty]
  Token,         \* the service account token
  Pushed,        \* bound: the digests that are pushed during the scan
  MaxPushes      \* bound: how often

VARIABLES tags,       \* what each tag names now
          pushes,     \* how many there were
          was,        \* of each group: what its image named since the scan began
          routeHost,  \* the route found for the internal registry, or None
          routeAuth,  \* the token to use there, or None
          sent        \* the lookups made: [registry, host, credentials]

lookupVars == <<tags, pushes, was, routeHost, routeAuth, sent>>
allVars == <<vars, lookupVars>>

-----------------------------------------------------------------------------
(* References.                                                              *)

DockerHub == [name |-> "docker.io", port |-> None]

Parse(image) ==
  [registry   |-> IF image.host = None THEN DockerHub ELSE image.host,
   repository |-> IF image.host = None /\ Len(image.path) = 1
                    THEN <<"library">> \o image.path ELSE image.path,
   tag        |-> IF image.tag = None /\ image.digest = None THEN "latest" ELSE image.tag,
   digest     |-> image.digest]

StripRegistryPort(host) == host.name

IsOpenShiftInternalRegistry(host) ==
  StripRegistryPort(host) \in {"image-registry.openshift-image-registry.svc",
                               "image-registry.openshift-image-registry.svc.cluster.local"}

Registry(j) == Parse(Image[j]).registry

(* The reference looked up for the image when the route is at host.         *)
ImageRef(image, host) ==
  [image EXCEPT !.host = IF host = None \/ ~IsOpenShiftInternalRegistry(Parse(image).registry)
                           THEN @ ELSE host]

GroupKey(j, host) == <<Registry(j), ImageRef(Image[j], host)>>

-----------------------------------------------------------------------------
(* The route of OpenShift's own registry, found once before the check.      *)

(* Mutant: the first of the routes, wherever it leads.                      *)
AnyRouteHost(answer) ==
  LET routes == answer.list.routes
      usable == {i \in DOMAIN routes : routes[i].host # None}
  IN IF answer.get.ok THEN answer.get.host
     ELSE IF ~answer.list.ok \/ usable = {} THEN None
     ELSE routes[CHOOSE i \in usable : \A k \in usable : i <= k].host

(* The route of the well-known name, or the first of the others that leads  *)
(* to the registry's service; both calls may fail, and a route may lack its *)
(* host.                                                                    *)
OpenShiftImageRegistryRouteHost(answer) ==
  LET routes == answer.list.routes
      usable == {i \in DOMAIN routes :
                   routes[i].service = "image-registry" /\ routes[i].host # None}
  IN IF answer.get.ok THEN answer.get.host
     ELSE IF ~answer.list.ok \/ usable = {} THEN None
     ELSE routes[CHOOSE i \in usable : \A k \in usable : i <= k].host

ASSUME LookupAssumption ==
  /\ Image \in [Jobs -> [host : Hosts \cup {None}, path : Seq(STRING),
                        tag : STRING \cup {None}, digest : Digests \cup {None}]]
  /\ None \notin Hosts /\ {Token, None} \cap DOMAIN DockerConfig = {} /\ None \notin {Token, "latest"}
  /\ \A j \in Jobs : TagKind[j] = LET tag == Parse(Image[j]).tag
                                  IN IF tag = None THEN "none"
                                     ELSE IF tag \in VersionTags THEN "version" ELSE "plain"
  /\ \A answer \in RouteAnswers, i, j \in Jobs :
       LET host == OpenShiftImageRegistryRouteHost(answer)
       IN GroupKey(i, host) = GroupKey(j, host) => i = j
  /\ Contents \in [Digests -> [index : BOOLEAN, readable : BOOLEAN,
                               entries : Seq([platform : STRING, digest : Digests])]]
  /\ StartTags \in [DOMAIN StartTags -> Digests]
  /\ Pushed \subseteq Digests /\ MaxPushes \in Nat

(* Of the cluster: the names of the internal registry's service lead to one *)
(* registry, and so do the routes to that service and the default route,    *)
(* whose service the code does not look at (routes.go:29).                  *)
ASSUME RouteAssumption ==
  LET names == {h \in Hosts : IsOpenShiftInternalRegistry(h)}
      Leads(host) == host = None \/ \A h \in names : RegistryAt[host] = RegistryAt[h]
  IN /\ Hosts \cup {DockerHub} \subseteq DOMAIN RegistryAt
     /\ \A h \in names : Leads(h)
     /\ \A answer \in RouteAnswers :
          /\ answer.list.routes \in Seq([service : STRING, host : Hosts \cup {None}])
          /\ answer.get.host \in Hosts \cup {None}
          /\ answer.get.ok => Leads(answer.get.host)
          /\ \A i \in DOMAIN answer.list.routes :
               answer.list.routes[i].service = "image-registry" => Leads(answer.list.routes[i].host)

RegistryLookup(answer, tokenFile) ==
  /\ routeHost = IF \E j \in Jobs : IsOpenShiftInternalRegistry(Registry(j))
                   THEN OpenShiftImageRegistryRouteHost(answer) ELSE None
  /\ routeAuth = IF routeHost # None /\ tokenFile = "text" THEN Token ELSE None

(* Mutant: the token goes with every lookup once there is a route.          *)
AuthenticatorOfAll(registry) == IF routeHost = None THEN None ELSE routeAuth

Authenticator(registry) ==
  IF routeHost = None \/ ~IsOpenShiftInternalRegistry(registry) THEN None ELSE routeAuth

-----------------------------------------------------------------------------
(* Credentials: without an authenticator, those of the docker config.       *)

HubKeys == <<"docker.io", "index.docker.io", "https://index.docker.io/v1/">>

Filled(key) == key \in DOMAIN DockerConfig /\ DockerConfig[key]

(* What the library's own keychain finds.                                   *)
DefaultKeychain(host) ==
  LET key == IF host = DockerHub THEN "https://index.docker.io/v1/" ELSE host.name
  IN IF Filled(key) THEN key ELSE None

DockerHubAuthConfig ==
  LET found == {i \in DOMAIN HubKeys : Filled(HubKeys[i])}
  IN IF found = {} THEN None ELSE HubKeys[CHOOSE i \in found : \A k \in found : i <= k]

Keychain(host) ==
  IF DefaultKeychain(host) # None \/ host # DockerHub
    THEN DefaultKeychain(host) ELSE DockerHubAuthConfig

RemoteOptions(host, auth) == IF auth # None THEN auth ELSE Keychain(host)

Lookup(j) ==
  LET host == Parse(ImageRef(Image[j], routeHost)).registry
  IN [registry |-> Registry(j), host |-> host,
      credentials |-> RemoteOptions(host, Authenticator(Registry(j)))]

-----------------------------------------------------------------------------
(* Manifests.                                                               *)

(* The manifest the registry at the reference's host answers with: that of  *)
(* the digest, else the one its tag names at that moment, if it has the tag. *)
Get(ref) ==
  LET key == <<RegistryAt[ref.registry], ref.repository, ref.tag>>
  IN IF ref.digest # None THEN {ref.digest} ELSE {tags[k] : k \in {key} \cap DOMAIN tags}

(* What the image itself names: at its own registry, whatever route is used. *)
Names(j) == Get(Parse(Image[j]))

(* Mutant: the first entry for linux.                                       *)
LinuxEntries(d) ==
  {i \in DOMAIN Contents[d].entries :
     Contents[d].entries[i].platform \in {"linux/amd64", "linux/arm64"}}

TargetEntries(d) ==
  {i \in DOMAIN Contents[d].entries : Contents[d].entries[i].platform = "linux/amd64"}

ResolveFromIndex(d) ==
  IF ~Contents[d].readable \/ TargetEntries(d) = {} THEN d
  ELSE Contents[d].entries[CHOOSE i \in TargetEntries(d) :
                             \A k \in TargetEntries(d) : i <= k].digest

(* The answers to a lookup; without one it fails.                           *)
ResolveWithAuth(j) ==
  {IF Contents[d].index THEN [digest |-> ResolveFromIndex(d), index |-> d]
                        ELSE [digest |-> d, index |-> None] :
     d \in Get(Parse(ImageRef(Image[j], routeHost)))}

-----------------------------------------------------------------------------
(* The scan.                                                                *)

LookupsTypeOK ==
  /\ TypeOK
  /\ tags \in [DOMAIN StartTags -> Digests]
  /\ pushes \in 0..MaxPushes
  /\ was \in [Jobs -> SUBSET Digests]
  /\ routeAuth \in {Token, None}
  /\ sent \subseteq [registry : {Registry(j) : j \in Jobs},
                     host : {Registry(j) : j \in Jobs} \cup {routeHost},
                     credentials : DOMAIN DockerConfig \cup {Token, None}]

LookupsInit ==
  /\ Init
  /\ tags = StartTags
  /\ pushes = 0
  /\ was = [j \in Jobs |-> Names(j)]
  /\ \E answer \in RouteAnswers, tokenFile \in {"missing", "blank", "text"} :
       RegistryLookup(answer, tokenFile)
  /\ sent = {}

(* Somebody pushes a tag while the scan runs.                               *)
Push(t, d) ==
  /\ ~returned /\ pushes < MaxPushes
  /\ tags[t] # d
  /\ tags' = [tags EXCEPT ![t] = d]
  /\ pushes' = pushes + 1
  /\ was' = [j \in Jobs |-> was[j] \cup Names(j)']
  /\ UNCHANGED <<vars, routeHost, routeAuth, sent>>

(* A worker at the registry: the digest first, then the newer tags, both    *)
(* from the same host and with the same credentials.                        *)
Asks(w) ==
  /\ LookUp(w)
  /\ sent' = sent \cup {Lookup(job[w])}
  /\ UNCHANGED <<tags, pushes, was, routeHost, routeAuth>>

Resolved(w) ==
  /\ at[w] = "lookup"
  /\ \E answer \in ResolveWithAuth(job[w]) : LookupAnswers(w, answer.digest, answer.index)
  /\ UNCHANGED lookupVars

(* The highest compatible tag of the repository, or none, or an error.      *)
LatestTagWithAuth(w) ==
  /\ LatestFound(w) \/ LatestNotFound(w)
  /\ sent' = sent \cup {Lookup(job[w])}
  /\ UNCHANGED <<tags, pushes, was, routeHost, routeAuth>>

Elsewhere(w) ==
  /\ Leave(w) \/ Skip(w) \/ LookupFails(w) \/ Report(w)
  /\ UNCHANGED lookupVars

WorkerStep(w) == Asks(w) \/ Resolved(w) \/ LatestTagWithAuth(w) \/ Elsewhere(w)
SenderStep == Sender /\ UNCHANGED lookupVars

LookupsNext ==
  \/ SenderStep
  \/ \E w \in Workers : WorkerStep(w)
  \/ \E t \in DOMAIN StartTags, d \in Pushed : Push(t, d)
  \/ (Cancel \/ Done) /\ UNCHANGED lookupVars

LookupsSpec == LookupsInit /\ [][LookupsNext]_allVars

(* As in CheckPool: goroutines that can run do, and every call ends.        *)
FairLookups ==
  LookupsSpec /\ WF_allVars(SenderStep) /\ \A w \in Workers : WF_allVars(WorkerStep(w))

-----------------------------------------------------------------------------
(* Properties.                                                              *)

(* The manifest a record was compared with.                                 *)
Asked(r) == IF rec[r].index # None THEN rec[r].index ELSE rec[r].registry

(* A record is judged by the manifest its own configured image named at its *)
(* own registry at some moment of the scan, by digest where the image is    *)
(* pinned to one, whatever is pushed meanwhile and whichever of the routes  *)
(* the lookup went through: up to date means that it runs that manifest or  *)
(* one listed in it (registryLookup, imageRef, ResolveWithAuth and          *)
(* checkRecordGroup).                                                       *)
JudgedByItsImage ==
  \A r \in Recs : rec[r].registry # None =>
    /\ Asked(r) \in was[JobOf[r]]
    /\ rec[r].status = "up_to_date" =>
         \/ RunningDigest[r] = Asked(r)
         \/ \E i \in DOMAIN Contents[Asked(r)].entries :
              Contents[Asked(r)].entries[i].digest = RunningDigest[r]

(* A container that runs what its tag serves, by an entry of the index, is  *)
(* told of an update without a newer tag only because its node is not       *)
(* linux/amd64, or the index lists another image for that platform first or *)
(* cannot be read (resolveFromIndex hard-codes the platform).               *)
FalseUpdatesExplained ==
  \A r \in Recs : rec[r].status = "update_available" /\ ~rec[r].latest /\ rec[r].index # None =>
    LET listed == Contents[rec[r].index].entries
    IN \A i \in DOMAIN listed : listed[i].digest = RunningDigest[r] =>
         \/ ~Contents[rec[r].index].readable
         \/ listed[i].platform # "linux/amd64"
         \/ \E k \in 1..(i - 1) : listed[k].platform = "linux/amd64"

(* Every lookup carries the credentials kept for the host it asks: the      *)
(* service account token only for images of the internal registry and only  *)
(* at its route, those of the docker config only under a name of the host,  *)
(* and none only where the config has none (authenticator, remoteOptions    *)
(* and dockerHubAliasKeychain).                                             *)
CredentialsOfHost ==
  \A l \in sent :
    LET names == IF l.host = DockerHub THEN {HubKeys[i] : i \in DOMAIN HubKeys} ELSE {l.host.name}
    IN /\ l.credentials = Token => l.host = routeHost /\ IsOpenShiftInternalRegistry(l.registry)
       /\ l.credentials \notin {Token, None} => l.credentials \in names
       /\ l.credentials = None => \A key \in names : ~Filled(key)
=============================================================================
