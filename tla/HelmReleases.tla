----------------------------- MODULE HelmReleases -----------------------------
(* The answers of GET /helm/releases while Helm upgrades a release, beside   *)
(* others that rest (getHelmReleases, k8s/helm.go, chartrepo/index.go): the  *)
(* secrets are listed namespace by namespace, then the indexes of the chart  *)
(* repositories are read one by one.  All releases are of one chart.         *)
EXTENDS Integers, Sequences, FiniteSetsExt, Functions

CONSTANTS Versions,       \* chart versions
          Repos,          \* how many repositories are configured, in order
          FirstVersion, FirstRevision,
          MaxRevision,    \* bound: revisions of the release
          MaxHistory,     \* revisions Helm keeps
          MaxEntries,     \* bound: entries of the chart in all indexes
          Namespaces, Names,  \* of releases
          Upgraded,       \* [namespace, name]: the release Helm upgrades
          Others,         \* the secrets of the other releases
          Options,        \* [included, excluded]: the scan options there may be
          MaxFaults,      \* bound: calls that fail
          None

(* "1.2.0" and, with text or numbers after a hyphen or a plus, "1.2.0-rc.1",*)
(* "1.2.0-1" and "1.2.0+7": the numbers of a tail that starts with text do  *)
(* not matter.                                                              *)
Version == [core : Seq(Nat), kind : {"final", "pre", "build"}, tail : Seq(Nat)]

ASSUME VersionsAssumption ==
  /\ FirstVersion \in Versions
  /\ \A v \in Versions : v \in Version /\ Len(v.core) \in 1..3
  /\ \A v \in Versions : v.kind = "final" => v.tail = <<>>
ASSUME BoundAssumption ==
  /\ Repos \in Nat \ {0} /\ MaxHistory \in Nat \ {0} /\ MaxEntries \in Nat /\ MaxFaults \in Nat
  /\ FirstRevision \in Nat /\ MaxRevision \in Nat

VARIABLES secrets,  \* the revisions there are
          running,  \* the chart version of the objects in the cluster
          index,    \* of every repository, the entries of the chart
          scanOpts, \* of the handler
          pc,       \* where the request is
          over,     \* is its time over
          todo,     \* the lists still to take, each of a set of namespaces
          errs,     \* the namespaces that could not be listed
          all,      \* the secrets listed
          ran,      \* what was running when those of the release were
          loaded,   \* the indexes read
          page,     \* the releases it answers with, or None
          faults

helmVars == <<secrets, running>>
lists == <<todo, errs, all, ran>>
givens == <<index, scanOpts>>
vars == <<helmVars, givens, pc, over, lists, loaded, page, faults>>

Statuses == {"pending", "deployed", "superseded", "failed"}
Revision == [number : Nat, version : Versions, status : Statuses]
Entries == {s \in SUBSET Versions : Cardinality(s) <= MaxEntries}

(* A secret by its name, which has the release and the revision in it, its  *)
(* labels, of which owner=helm is there or not, and its payload; what       *)
(* cannot be read is None.                                                  *)
OrNone(S) == S \cup {None}
Labels == [owner : BOOLEAN, name : OrNone(Names), version : OrNone(Nat), status : OrNone(Statuses)]
Payload == [number : Nat, status : OrNone(Statuses), version : Versions]
Secret == [namespace : Namespaces, release : Names, number : OrNone(Nat),
           labels : Labels, payload : OrNone(Payload)]
Release == [namespace : Namespaces, name : Names, number : Nat,
            status : OrNone(Statuses), version : OrNone(Versions)]

(* Helm writes the release and the revision into the name, the labels and   *)
(* the payload alike; somebody may have taken the last two away.            *)
Consistent(s) ==
  /\ s.number \in Nat
  /\ s.labels.name \in {None, s.release} /\ s.labels.version \in {None, s.number}
  /\ s.payload # None => s.payload.number = s.number
SameName(s, t) == s.namespace = t.namespace /\ s.release = t.release /\ s.number = t.number

ASSUME NamespacesAssumption ==
  /\ Upgraded \in [namespace : Namespaces, name : Names]
  /\ Options \subseteq [included : SUBSET Namespaces, excluded : SUBSET Namespaces]
  /\ None \notin Names /\ None \notin Versions /\ None \notin Statuses
  /\ None \notin Nat /\ None \notin Payload
ASSUME OthersAssumption ==
  /\ Others \subseteq Secret /\ IsFiniteSet(Others)
  /\ \A s \in Others : Consistent(s) /\ [namespace |-> s.namespace, name |-> s.release] # Upgraded
  /\ \A s, t \in Others : SameName(s, t) => s = t

TypeOK ==
  /\ secrets \subseteq Revision /\ running \in Versions
  /\ index \in [1..Repos -> Entries] /\ scanOpts \in Options
  /\ pc \in {"idle", "list", "indexes"} /\ over \in BOOLEAN
  /\ todo \subseteq SUBSET Namespaces /\ errs \subseteq Namespaces
  /\ all \subseteq Secret /\ ran \in OrNone(Versions)
  /\ loaded \in Seq(OrNone(SUBSET Versions)) /\ Len(loaded) <= Repos
  /\ page # None => page \subseteq [release : Release, repo : OrNone(1..Repos),
                                   latest : OrNone(Versions), update : BOOLEAN]
  /\ faults \in 0..MaxFaults

-----------------------------------------------------------------------------
(* Helm.  A rollback is an upgrade to a version of before.                  *)

Newest == CHOOSE s \in secrets : \A t \in secrets : s.number >= t.number

(* The new revision is pending; the oldest go, but never the deployed one.  *)
Upgrade(v) ==
  /\ Newest.status # "pending" /\ Newest.number < MaxRevision
  /\ LET kept == {s \in secrets : s.status = "deployed" \/ s.number > Newest.number + 1 - MaxHistory}
     IN secrets' = kept \cup {[number |-> Newest.number + 1, version |-> v, status |-> "pending"]}
  /\ UNCHANGED <<running, givens, pc, over, lists, loaded, page, faults>>

(* When the objects are ready the old revision is written, then the new.    *)
Supersede ==
  /\ Newest.status = "pending"
  /\ secrets' = {IF s.status = "deployed" THEN [s EXCEPT !.status = "superseded"] ELSE s : s \in secrets}
  /\ running' = Newest.version
  /\ UNCHANGED <<givens, pc, over, lists, loaded, page, faults>>

Settled(status) == (secrets \ {Newest}) \cup {[Newest EXCEPT !.status = status]}

Deployed ==
  /\ Newest.status = "pending" /\ running = Newest.version
  /\ \A s \in secrets : s.status # "deployed"
  /\ secrets' = Settled("deployed")
  /\ UNCHANGED <<running, givens, pc, over, lists, loaded, page, faults>>

UpgradeFails ==
  /\ Newest.status = "pending"
  /\ \E s \in secrets : s.status = "deployed"
  /\ secrets' = Settled("failed")
  /\ UNCHANGED <<running, givens, pc, over, lists, loaded, page, faults>>

-----------------------------------------------------------------------------
(* The order of chart versions.                                             *)

(* The numeric fields up to the first that is none.                         *)
ParseVersion(v) == v.core \o v.tail

Field(fields, i) == IF i <= Len(fields) THEN fields[i] ELSE 0

(* For the mutants: a number of one or two digits by its text.              *)
AsText(n) == IF n > 9 THEN (n \div 10) * 100 + (n % 10) + 1 ELSE n * 100

(* Mutant: only as many fields as both versions have.                       *)
CompareShorter(v, w) ==
  LET a == ParseVersion(v)  b == ParseVersion(w)
  IN \E i \in DOMAIN a \cap DOMAIN b :
       a[i] > b[i] /\ \A k \in 1..(i - 1) : a[k] = b[k]

(* Mutant: fields are compared as text, where 10 comes before 9.            *)
CompareAsText(v, w) ==
  LET a == ParseVersion(v)  b == ParseVersion(w)
  IN \E i \in DOMAIN a \cup DOMAIN b :
       AsText(Field(a, i)) > AsText(Field(b, i)) /\ \A k \in 1..(i - 1) : Field(a, k) = Field(b, k)

(* compareVersions(v, w) > 0.                                               *)
CompareVersions(v, w) ==
  LET a == ParseVersion(v)  b == ParseVersion(w)
  IN \E i \in DOMAIN a \cup DOMAIN b :
       Field(a, i) > Field(b, i) /\ \A k \in 1..(i - 1) : Field(a, k) = Field(b, k)

(* sort.Slice is not stable: any of the versions no other is greater than.  *)
LatestChartVersion(entries) == {v \in entries : \A w \in entries : ~CompareVersions(w, v)}

-----------------------------------------------------------------------------
(* Secrets and releases.                                                    *)

Or(x, y) == IF x # None THEN x ELSE y

(* The secrets of a namespace that the selector owner=helm finds; Helm      *)
(* labels those of its revisions.                                           *)
SecretsIn(n) ==
  {s \in Others : s.namespace = n /\ s.labels.owner} \cup
  IF n # Upgraded.namespace THEN {} ELSE
    {[namespace |-> n, release |-> Upgraded.name, number |-> r.number,
      labels |-> [owner |-> TRUE, name |-> Upgraded.name, version |-> r.number, status |-> r.status],
      payload |-> [number |-> r.number, status |-> r.status, version |-> r.version]] :
        r \in secrets}

ReleaseName(s) == Or(s.labels.name, s.release)
HelmSecretRevision(s) == Or(s.labels.version, Or(s.number, 0))

(* With what the payload says, where it can be decoded.                     *)
HelmReleaseFromSecret(s) ==
  [namespace |-> s.namespace, name |-> ReleaseName(s),
   number |-> IF s.payload = None THEN HelmSecretRevision(s) ELSE s.payload.number,
   status |-> IF s.payload = None THEN s.labels.status ELSE Or(s.payload.status, s.labels.status),
   version |-> IF s.payload = None THEN None ELSE s.payload.version]

SameRelease(s, t) == s.namespace = t.namespace /\ ReleaseName(s) = ReleaseName(t)

(* Mutant: the last secret in the order of names, where v10 is before v9.   *)
LatestByName(s) ==
  \A t \in all : SameRelease(s, t) => AsText(HelmSecretRevision(s)) >= AsText(HelmSecretRevision(t))

(* The secret of the greatest revision, in whatever order they come.        *)
Latest(s) ==
  \A t \in all : SameRelease(s, t) => HelmSecretRevision(s) >= HelmSecretRevision(t)

DiscoverHelmReleases ==
  {HelmReleaseFromSecret(s) : s \in {t \in all : t.namespace \notin scanOpts.excluded /\ Latest(t)}}

-----------------------------------------------------------------------------
(* The request.                                                             *)

Fault == faults < MaxFaults /\ faults' = faults + 1
Works == ~over /\ UNCHANGED faults
Breaks == IF over THEN UNCHANGED faults ELSE Fault

(* One list of all namespaces, or one of each that is allowed.              *)
GetHelmReleases ==
  /\ pc = "idle" /\ pc' = "list"
  /\ todo' = IF scanOpts.included = {} THEN {Namespaces}
             ELSE {{n} : n \in scanOpts.included \ scanOpts.excluded}
  /\ errs' = {} /\ ran' = None /\ page' = None
  /\ UNCHANGED <<helmVars, givens, over, all, loaded, faults>>

(* The thirty seconds of a request are over, or its client has gone.        *)
TimeOver ==
  /\ pc # "idle" /\ ~over /\ over' = TRUE
  /\ Fault
  /\ UNCHANGED <<helmVars, givens, pc, lists, loaded, page>>

(* Mutant: the first list that fails is the last one taken.                 *)
ListUntilError ==
  /\ pc = "list"
  /\ \E ns \in todo :
       \/ /\ todo' = todo \ {ns}
          /\ all' = all \cup UNION {SecretsIn(n) : n \in ns}
          /\ ran' = IF Upgraded.namespace \in ns THEN running ELSE ran
          /\ Works /\ UNCHANGED errs
       \/ todo' = {} /\ errs' = errs \cup ns /\ Breaks /\ UNCHANGED <<all, ran>>
  /\ UNCHANGED <<helmVars, givens, pc, over, loaded, page>>

ListHelmReleaseSecrets ==
  /\ pc = "list"
  /\ \E ns \in todo :
       /\ todo' = todo \ {ns}
       /\ \/ /\ all' = all \cup UNION {SecretsIn(n) : n \in ns}
             /\ ran' = IF Upgraded.namespace \in ns THEN running ELSE ran
             /\ Works /\ UNCHANGED errs
          \/ errs' = errs \cup ns /\ Breaks /\ UNCHANGED <<all, ran>>
  /\ UNCHANGED <<helmVars, givens, pc, over, loaded, page>>

(* Nothing was listed, and the answer is 500, or what was is gone through.  *)
Listed ==
  /\ pc = "list" /\ todo = {}
  /\ IF all = {} /\ errs # {} THEN pc' = "idle" /\ over' = FALSE
     ELSE pc' = "indexes" /\ UNCHANGED over
  /\ UNCHANGED <<helmVars, givens, lists, loaded, page, faults>>

(* Mutant: an index that failed is asked for again, and kept both times.    *)
FetchIndexAgain ==
  /\ pc = "indexes" /\ Len(loaded) <= Repos
  /\ \/ loaded' = Append(loaded, index[(Len(loaded) % Repos) + 1]) /\ Works
     \/ loaded' = Append(loaded, None) /\ Breaks
  /\ UNCHANGED <<helmVars, givens, pc, over, lists, page>>

(* An index that is out of reach, malformed or too large is left out.       *)
FetchIndex ==
  /\ pc = "indexes" /\ Len(loaded) < Repos
  /\ \/ loaded' = Append(loaded, index[Len(loaded) + 1]) /\ Works
     \/ loaded' = Append(loaded, None) /\ Breaks
  /\ UNCHANGED <<helmVars, givens, pc, over, lists, page>>

(* The repositories that answered and have the chart; the first one counts. *)
WithChart == {r \in DOMAIN loaded : loaded[r] \notin {None, {}}}

Bare(r) == [release |-> r, repo |-> None, latest |-> None, update |-> FALSE]

Answer(shown) ==
  /\ page' = {shown[r] : r \in DOMAIN shown}
  /\ pc' = "idle" /\ over' = FALSE /\ all' = {} /\ loaded' = <<>>
  /\ UNCHANGED <<helmVars, givens, todo, errs, ran, faults>>

(* A release whose chart is not known is passed over.                       *)
Enrich ==
  /\ pc = "indexes" /\ Len(loaded) = Repos /\ WithChart # {}
  /\ \E latest \in LatestChartVersion(loaded[Min(WithChart)]) :
       Answer([r \in DiscoverHelmReleases |->
         IF r.version = None THEN Bare(r)
         ELSE [release |-> r, repo |-> Min(WithChart), latest |-> latest,
               update |-> CompareVersions(latest, r.version)]])

(* No repository has the chart, and the releases are shown with an error.   *)
NotFound ==
  /\ pc = "indexes" /\ Len(loaded) = Repos /\ WithChart = {}
  /\ Answer([r \in DiscoverHelmReleases |-> Bare(r)])

Init ==
  /\ secrets = {[number |-> FirstRevision, version |-> FirstVersion, status |-> "deployed"]}
  /\ running = FirstVersion
  /\ index \in {i \in [1..Repos -> Entries] : MapThenSumSet(LAMBDA r : Cardinality(i[r]), 1..Repos) <= MaxEntries}
  /\ scanOpts \in Options
  /\ pc = "idle" /\ over = FALSE /\ todo = {} /\ errs = {} /\ all = {} /\ ran = None
  /\ loaded = <<>> /\ page = None /\ faults = 0

Helm == (\E v \in Versions : Upgrade(v)) \/ Supersede \/ Deployed \/ UpgradeFails
Request ==
  \/ GetHelmReleases \/ TimeOver \/ ListHelmReleaseSecrets \/ Listed
  \/ FetchIndex \/ Enrich \/ NotFound

Next == Helm \/ Request

Spec == Init /\ [][Next]_vars

-----------------------------------------------------------------------------
(* Properties.                                                              *)

(* The page never takes an old revision for the release, at no point of an  *)
(* upgrade and whatever history Helm keeps: a release shown as deployed is  *)
(* shown with the version that was running when its secrets were listed,    *)
(* and a superseded revision is never shown (DiscoverHelmReleases).         *)
ShownIsCurrent ==
  page # None =>
    \A x \in page : [namespace |-> x.release.namespace, name |-> x.release.name] = Upgraded =>
      /\ x.release.status # "superseded"
      /\ x.release.status = "deployed" => x.release.version = ran

(* An answer shows every release of the selected namespaces, each once and  *)
(* no older than any of its secrets with the label owner=helm, whatever     *)
(* other labels they have and with or without a readable payload; secrets   *)
(* without that label do not count.  A release is missing only where the    *)
(* list of its own namespace failed and another gave something, and without *)
(* any failure none is (helmReleaseFromSecret, helmSecretRevision;          *)
(* listHelmReleaseSecrets drops the errors of some namespaces when others   *)
(* have secrets).                                                           *)
NoReleaseLost ==
  LET selected == (IF scanOpts.included = {} THEN Namespaces ELSE scanOpts.included)
                    \ scanOpts.excluded
      shows(n, name) == {x \in page : x.release.namespace = n /\ x.release.name = name}
  IN page # None =>
       /\ \A s \in Others : s.labels.owner /\ s.namespace \in selected \ errs =>
            \E x \in shows(s.namespace, s.release) :
              /\ shows(s.namespace, s.release) = {x}
              /\ x.release.number >= s.number
       /\ Upgraded.namespace \in selected \ errs =>
            Cardinality(shows(Upgraded.namespace, Upgraded.name)) = 1
       /\ errs = {} \/ page # {}
       /\ \A x \in page : x.release.namespace \in selected \ errs

(* Versions by major, minor and patch number, apart from compareVersions:   *)
(* its reference.                                                           *)
Part(v, i) == IF i \in DOMAIN v.core THEN v.core[i] ELSE 0
Whole(v) == v.tail = <<>> \/ Len(v.core) = 3
Newer(v, w) ==
  \/ Part(v, 1) > Part(w, 1)
  \/ Part(v, 1) = Part(w, 1) /\ Part(v, 2) > Part(w, 2)
  \/ Part(v, 1) = Part(w, 1) /\ Part(v, 2) = Part(w, 2) /\ Part(v, 3) > Part(w, 3)

(* A chart update never names an older major, minor and patch version, and  *)
(* between final versions it names a newer one (compareVersions against the *)
(* order of SemVer).  A prerelease with a number only, or a build, of the   *)
(* very version does count as an update, and "1.2-5" is taken for 1.2.5.    *)
ChartUpdateIsReal ==
  page # None =>
    \A x \in page : x.update =>
      /\ Whole(x.latest) /\ Whole(x.release.version) =>
           ~Newer(x.release.version, x.latest)
      /\ x.latest.kind = "final" /\ x.release.version.kind = "final" =>
           Newer(x.latest, x.release.version)

(* If the repository the answer comes from holds a newer final version than *)
(* the final one shown, there is an update, and no final version of that    *)
(* repository is newer than it (EnrichHelmReleases, latestChartVersion).    *)
NoChartMissed ==
  page # None =>
    \A x \in page : x.repo # None /\ x.release.version.kind = "final" =>
      \A v \in index[x.repo] :
        v.kind = "final" /\ Newer(v, x.release.version) =>
          x.update /\ (Whole(x.latest) => ~Newer(v, x.latest))
=============================================================================
