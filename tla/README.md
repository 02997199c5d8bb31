# A specification of Image Roundup

Image Roundup is one Go process in a Kubernetes cluster. It lists the pods of
the cluster, looks every container image up in its registry, and serves what
it found: which images have an update. This directory holds TLA+ modules for
that process, the TLC runs that check them, and proofs that TLAPS checks.

    tlc -workers 2 -config Converge.cfg MCScanLifecycle
    tlapm ScanLifecycleProofs.tla
    tlapm RegistryLookupsProofs.tla
    tlapm SettingsPagesProofs.tla
    tlapm ServerProofs.tla
    tlapm DiscoveryProofs.tla
    tlapm TagHintsProofs.tla
    tlapm HelmReleasesProofs.tla
    tlapm ClientProofs.tla

## 1. The system

| Component | State | Operations | Talks to |
|---|---|---|---|
| Result store, `cache/store.go` | records by ID, time of the last scan, running flag, error texts, one RWMutex | `SetRecords`, `ReplaceWhere`, `SetScanning`, `SetErrors`, `ScanStatus`, `ListRecords`, `Save`, `Load` | data file |
| Scan loop, `k8s/scanner.go` | startup options, loop options, a ticker | `Run` at start and per tick until its context is done | discovery, check pool, store |
| Manual scans, `api/handler.go` | none of their own; `scanOpts` of the handler | `POST /scan`: read the flag, validate, spawn `Run` or `RunScoped`, answer 202 | the same |
| Settings, `api/handler.go`, `config/config.go` | `settings`, `scanOpts`, no lock | read the environment at start, `GET`/`PUT /settings` | manual scans only |
| Discovery, `k8s/discover.go` | locals of one scan | list namespaces, pods, ReplicaSets, workloads; filter; merge pods into records | Kubernetes API |
| Check pool, `k8s/scanner.go` | channel, workers, shared record pointers, error texts under a mutex | `checkRecords`, `checkRecordGroup` | registry client |
| Registry client, `registry/checker.go` | none | resolve a reference, choose the newest compatible tag | registries |
| Server process, `cmd/server/main.go` | the data file outlives it | load, start loop and HTTP server, save after each scan, end on SIGTERM | all of the above |
| Read handlers, `api/handler.go` | none | summary, updates, images, registries, computed per request | store |
| Helm releases and chart index, `k8s/helm.go`, `chartrepo/index.go` | none | list secrets, choose revisions, read indexes, per request | Kubernetes API, chart repositories |
| OpenShift route and token, `k8s/routes.go` | none | looked up once per scan | Kubernetes API |
| Frontend | page state, a poll timer, copies of the settings | poll `GET /scan`, reload, start scans, save settings | HTTP API |

The parts call each other directly; what they share is the store, the handler's
`scanOpts` and the data file.

What is hard in it:

* Several scans. The loop never asks whether a scan runs; `POST /scan` asks
  long before the goroutine it starts raises the flag. So scans overlap: they
  share the flag, publish over each other, and save at the same time.
* Failure that looks like absence. A namespace whose pods cannot be listed is
  skipped, a ReplicaSet that cannot be listed renames its containers, and a
  cancelled context makes every list fail.
* Locks that end too early. Records and error texts are published under two
  separate locks, the store is unlocked between publishing and saving, and
  `scanOpts` has no lock at all.
* Contexts. SIGTERM cancels the loop's context but not that of a manual scan,
  which has ten minutes of its own; the check pool has to end in either case.
* Crashes. The process may end inside a save.
* Copies. A browser tab holds the settings twice, in the form and in the
  header, and sends a whole copy back to change one field.

What makes each part correct:

* store and scans: the running flag is up only while a scan runs and comes
  down after every scan; a scoped scan changes what it was asked for and
  nothing else; reported errors belong to the stored records; the store comes
  back to what really runs;
* check pool: every record is settled once, by the status table, nothing is
  lost, nobody writes after the result is handed back, and it returns;
* persistence: the data file always holds the last successful save, which is the
  last published scan, and a start loads it;
* discovery: a record that says "up to date" speaks of what some pod runs, an
  update everybody needs is reported, what Helm manages is recognised, and the
  process does not report itself while it starts;
* registry client: a record is judged by what its own configured image names,
  credentials go to the host they are kept for; the newest compatible tag is
  really newer and compatible, also after many hints were followed;
* settings: scans use the settings that are shown, and saving one change takes
  no other back;
* Helm releases: no release is lost, the current revision is shown, its chart
  update is real;
* read handlers: their numbers agree, and what Helm manages is in none of them;
* frontend: the indicator does not hang, and the page ends up showing the store.

## 2. The modules

| Module | Models | How |
|---|---|---|
| `Store` | the four fields of `cache.Store` | one operator per locked method; an atomic step each |
| `ScanLifecycle` | `Run`, `RunScoped`, the loop, `postScan`, the list calls of discovery | `Loop` and a set `Manual` of request slots, a program counter each; extends `Store` |
| `ScanLifecycleProofs` | | theorems about `ScanLifecycle` |
| `CheckContract` | what `checkRecords` promises | abstract: the verdicts appear in one step |
| `CheckPool` | `checkRecords`, `checkRecordGroup` | sender, channel and workers; shown and proved to implement `CheckContract` |
| `RegistryLookups` | `registryLookup`, `routes.go`, `parse.go`, `ResolveWithAuth`, the keychain | extends `CheckPool`: the same pool, with the lookups its workers make |
| `RegistryLookupsProofs` | | theorems about `CheckPool`, which implements `CheckContract`, and about `RegistryLookups`, which implements `CheckPool` |
| `SettingsPages` | `config.go`, `getSettings`, `putSettings`, `App.tsx`, `SettingsPage.tsx` | requests of the two copies in each tab, handlers without a lock |
| `SettingsPagesProofs` | | theorems about `SettingsPages` |
| `SaveFile` | `Store.Save`, `Store.Load` | names, inodes, descriptors with offsets; extends `Store` |
| `Server` | `main.go` | composes `ScanLifecycle` and `SaveFile`, adds the end and restart of the process |
| `DurableStore` | what `main` promises about the results it keeps | abstract: publish, save, start, a step each; `Server` is shown and proved to implement it |
| `ServerProofs` | | theorems about `Server`, over those of `ScanLifecycle` |
| `Discovery` | `DiscoverImages` pod by pod, `CurrentWorkload`, the three lists it takes; the handlers that read | beside a cluster that rolls out, prunes and pushes |
| `DiscoveryProofs` | | theorems about `Discovery` |
| `TagSelect` | the filters and the order of `registry/checker.go` | pure operators on tags |
| `TagHints` | `LatestTagWithAuth` and somebody who deploys what it says | state machine over `TagSelect` |
| `TagHintsProofs` | | theorems about `TagHints` |
| `HelmReleases` | `GET /helm/releases`: `helm.go`, `chartrepo/index.go` | one release that Helm upgrades beside the request, others that rest |
| `HelmReleasesProofs` | | theorems about `HelmReleases` |
| `Client` | `useScanStatus.ts`, `ImagesPage.tsx` (`OverviewPage.tsx` has the same effects) | timer, button and requests of one page, beside the scans as the page can tell them |
| `ClientProofs` | | theorems about `Client` |
| `MCScanLifecycle`, `MCRegistryLookups`, `MCServer`, `MCSettingsPages`, `MCDiscovery`, `MCTagHints`, `MCHelmReleases` | | small instances for TLC |

**ScanLifecycle.** `pc[s]` is where a scan is:

| `pc` | Code |
|---|---|
| `startup`, `idle`, `exited` | the loop before its first scan, in `select`, returned |
| `idle`, `refused`, `admitted` | no request; 409 answered; flag read as false, body not yet read |
| `spawned` | 202 answered, goroutine not yet running |
| `namespaces`, `pods` | in `listPods`; with `todo` empty, in `buildRSOwnerMap` |
| `check`, `publish`, `errors` | before `checkRecords`, `SetRecords`/`ReplaceWhere`, `SetErrors` |
| `finish`, `abort` | before the deferred `SetScanning(false)`, without or with an error |
| `after` | in `afterScan` |

An action is a piece of code between two points where another goroutine can
run. `CheckRecords` is one action because only its result matters to the
others: `CheckContract` states that result, `CheckPool` implements it, and the
proofs of both modules join them (`CheckIsContract`, `ImplementsContract`). A
record is its image and the outcome of its check. An error text is the image
whose lookup failed, or `CtxDone`. A container of a Deployment has a second ID,
`RSName`, for the time its ReplicaSet has no known owner. A manual scan starts
with any mixture, field by field, of the settings of the start and those that
were put (`ScanOpts`): what the unsynchronised assignment of `scanOpts`, which
`SettingsPages` has step by step, lets a reader see. (Torn words, the slice
header of one field being half old and half new, are modelled in neither.) The
fields `SkipCompleted` and `ExcludeInternalRegistry`, which
filter single pods and images, are not in the options of the model, and the
kind and name of a workload are one value. Patterns in the exclusions are the
sets they match.

**CheckPool, RegistryLookups.** In `CheckPool` a registry call answers with any
digests. `RegistryLookups` is the same pool with the calls made: a reference is
taken apart, its registry replaced by OpenShift's route, credentials are chosen,
and the registry at the host that is asked (`RegistryAt`) serves what the tag
names there at that moment, a manifest or an index, or does not know the tag. So
a lookup sent to the wrong host reads another registry. `RouteAssumption` is
what the cluster has to do with it: the service's names lead to one registry,
and so do the routes to that service and the default route, which the code takes
by its name. `LookupsArePool` proves that it implements `CheckPool`. A reference is
written in parts; a first component that is a host only by being `localhost`,
and an explicit `docker.io/`, are left out. The route is asked for once, before the check, as in the code; that is
in the initial states. The twenty-second contexts of the calls are among the
reasons a lookup may fail.

**SettingsPages.** `req[c].at` is where the request of a copy is:

| `at` | Code |
|---|---|
| `get`, `loaded` | GET sent; answered and on its way |
| `put` | PUT sent, or its body not decoded yet |
| `assign`, `derive` | in `*h.settings = next`; in `h.scanOpts = ...` |
| `encode`, `saved` | before the answer is written; answered and on its way |

An assignment has a beginning and an end. Where two overlap, or a read and an
assignment do, every field is any of the values involved (`Written`,
`Readable`). `intent`, `unsure`, `stale`, `blind` and `mixed` are history
variables: what users have set, what a lost answer leaves open, which copies
another tab's PUT has overtaken, whether one of those was sent or PUTs crossed,
and whether the last PUT to end overlapped another. `Load` is the start: lists,
switches, theme. The two intervals, the Helm repositories and `shortDigests`
are not in the settings of the model. The code takes any text for `THEME`; the
model keeps to the three the form offers.

**SaveFile.** A line takes `LineLen` cells, so that half a line differs from a
whole one, and `WriteAt` puts cells at the offset of a descriptor wherever its
inode is by then linked. `MaxLine` is the 64 KiB that `bufio.Scanner` reads of a
line, so that a file can be well formed and not be loaded (`Loadable`). `saved`
is a history variable: what the last `Save` that returned nil had encoded.
`MkdirAll` and `Create` fail as one; a rename that fails leaves the temporary
file. `Save` does not sync; a power failure that loses renamed data is not
modelled, nor is a data file that cannot be opened or read at a start.

**Server.** `Restart` is possible in every state: it stands for SIGKILL, and
for the return of `main` after SIGTERM, which waits for no scan. Everything in
memory is lost, descriptors are closed, and `Load` reads what the data name
refers to.

**Discovery.** `ScanLifecycle` has one pod per container; here a workload has
several, of several revisions, and `ResolvedOwner`, `RunningDigest`,
`ConfiguredImage` and `InHelm` say what one call makes of them. `ListPods`,
`ListReplicaSets` and `ListWorkloads` are separate steps because the cluster
moves on between them; the ReplicaSets of all kinds are read at once. A digest
is the image it was pulled for and the number of the push. A workload may be
deleted (`DeleteWorkload`), by `helm uninstall` for instance: its pods terminate for
a while, and in the list of workloads their owner is missing, as the ReplicaSet of
a Deployment may be. A DaemonSet is to the scan what a StatefulSet is, and a
CronJob shows as its Jobs. `Status` is the
comparison of `checkRecordGroup` without newer tags, which `CheckPool` has. A
pod whose containers have no status yet gives no record, and is left out. The
namespace and workload filters are in `ScanLifecycle`. The handlers that read
are operators on the set of records a scan has made (`ListRecords`): a snapshot,
as in the code. A release's number of images is theirs, for the namespace looked at.

**TagSelect, TagHints.** A tag is what the regular expressions of the code take
it apart into: numbers, "v" or not, tokens, and how the first token is joined.
Tokens are representatives of the words the code tells apart. A `Check` is a
whole `LatestTagWithAuth`; `Deploy` is an operator who follows the answer, which
may be old. A platform and a repository are chosen for good at the start.

**HelmReleases.** A chart version is its numeric fields as far as `parseVersion`
reads them, and whether it is final, a prerelease or a build. A repository's
index stays as it is for the request; it can be out of reach. `todo` are the
lists still to take: one of all namespaces, or one of each in the allowlist, in
any order, of the secrets that have the label `owner=helm`. A secret has the
release and the revision in its name, in its other labels and in its payload;
Helm writes them all, and secrets that have lost the last two, or the label
`owner` too, are among those at rest (`Others`). `over` is the end of the request's
context, after which every call fails. The text of errors and the time of an
update are left out, and so is the payload's name for the release, which is
Helm's own.

**Client.** Time is not modelled: the timer may fire at any moment, which is
why `reload` needs no three or thirty seconds. A request for records in
`loads` is `None` until the server answers it, then the version it was answered
with; answers arrive in any order. A page that is closed ends the behaviour and
is left out. React may batch two answers that come at once; the model runs the
effect for each.

## 3. The runs

| Run | Question | Result |
|---|---|---|
| `converge` | With scans overlapping, settings changed and calls failing: do the flag and scoped publication stay right, do scans end, does the store heal? | holds |
| `settings` | Do scans use the settings shown, and is no change taken back? | holds, for copies no other tab has overtaken |
| `pool` | Does the worker pool keep its contract, return, settle by the status table, ask the right registry with the right credentials? | holds |
| `restarts` | Do results survive: does the data file always hold the last save, whole, is that a published scan, and does a start load it (`DurableStore`)? | holds without manual scans, for lines within the limit of `Load` |
| `tags` | Does following hints stay in the stream, go forward, come to an end, miss nothing? | holds |
| `discovery` | What can be relied on in records merged from pods during a rollout, and in the numbers made of them? | holds |
| `helm` | Is every release shown whose namespace could be listed, is it the current revision, is its chart update real and not missed? | holds, for secrets that keep `owner=helm` |
| `page` | Does the page's indicator come to rest, and does it load a scan it has seen? | holds |
| `reload` | "Reload table data once a running scan finishes"? | violated |
| `stream_jump` | "LinuxServer stream jumps are not suggested"? | violated |
| `shared_tmp` | Is a save atomic with manual scans too? | violated |
| `shutdown` | Do persisted records survive a SIGTERM in the middle of a scan? | violated |

What the passing runs show beyond "holds":

* `discovery`: a record in a rollout can pair the image of the first pod with
  the digest of the last, and then reports an update where there is none.
  `FalseUpdatesOnlyInRollouts` says that this is the only way to a false
  update, and `UpToDateIsRun` that it is no way to a false "up to date".
  An update of what Helm manages is shown when a list failed, for a ReplicaSet
  that was pruned between two lists, and for a workload that is deleted while its
  pods terminate, since its metadata is gone by then; `HelmUpdatesHidden` says
  that there is no further way.
* `restarts`: `Save` writes lines of any length and `Load` reads lines below 64 KiB.
  A record names every pod of its workload (discover.go:125) and carries error
  texts, and neither is bounded. Once one record is longer, its save succeeds
  without a warning, and the next start warns that it could not load the data
  (main.go:38) and begins with no records at all, until its first scan. That disagrees with "Load
  reads records previously written by Save" (store.go:151). `SaveIsAtomic` and
  `KeepsResults` state it as their exception: such a save is in the file whole, and
  is lost whole. The run has records that fit and one that does not.
* `converge`: `Converges` speaks of behaviours in which scans `Astray` come to an
  end. Those are scans under changed settings, and scoped scans of a namespace
  outside the allowlist of the start, which `scopedScanOptions` puts aside. While
  there are such, they and the loop, which keeps the options of the start
  (Development.md:499-505), publish different sets in turn for ever. The second
  kind came out of the proof of `FreshScanRepairs`; it takes an allowlist, which
  the instance of the run does not have.
* `settings`: of two tabs, the one that saves later takes back what the other
  changed, and so does a tab whose header or form was loaded before (a GET
  refreshes the one copy that asked; a saved form refreshes both of its own tab
  only, "so open pages stay in sync", Development.md:245-246). `NothingLost`
  says that there is no further way. Switching the theme discards what was
  edited in the form and not saved.
* `pool`: an index is always read for linux/amd64, so a container on another
  node that runs what its tag serves has an update forever;
  `FalseUpdatesExplained` lists the reasons for such an update and no other
  exists. `JudgedByItsImage` depends on the choice of the route: Quay has a
  repository of the same name, and a route to the console, listed first, leads
  there. An image with a digest and no tag is compared and gets a verdict,
  where README.md:229 has it "unknown".
* `helm`: a namespace of the allowlist that cannot be listed is missing from
  the answer without a word when another has releases; `NoReleaseLost` says that
  nothing else is. It speaks of secrets with the label `owner=helm`, which the list
  asks for: of a release whose last secret has lost it, an earlier revision is
  shown. The other properties speak of major, minor and patch. A
  prerelease with text equals its final version, `1.2.0-1` or `1.2.0+5` count
  as an update of `1.2.0`, and `1.2-5` is read as 1.2.5, which is why both
  speak of `Whole` versions: with three numbers or no tail.
* `page`: the last scan that runs while the page shows "running" is loaded,
  if no request fails any more. The condition is needed: see `reload`.

What the counterexamples show:

* `reload`: the page's first poll is answered "down" and it reloads; that request
  is answered with the records there are. Then the scan of the loop publishes
  and ends, all before the next poll, which is answered "down" again: nothing has
  changed for the effect, and the page never asks for what the scan found.
  `PageCatchesUp` only asks that the page has once been answered with the newest
  records, so an older answer that arrives last, which the page does take
  (ImagesPage.tsx:101-103), is not what violates it.
* `stream_jump`: the running tag is 1, without a stream word; `3.0-develop` is
  pushed, and no filter looks at its stream. The hint is `3.0-develop`.
* `shared_tmp`: a client is told the flag is down, the loop starts its scan,
  the client's scan starts beside it (against the 409 of Development.md); both
  end and open the one `.tmp` file; one renames it while the other has its
  records still to write there.
* `shutdown`: the signal comes after discovery began; the remaining lists fail
  with a warning each; nothing was found; nothing replaces everything and is
  saved.

Two more disagreements need no run to be seen. Development.md:210 calls latest
tag hints display-only, while `checkRecordGroup` makes an up-to-date version tag
with a newer tag `update_available`, as README.md:226-227 says and
`SettledByTable` checks. And api.md:104-115 has clients poll until `running` is
false, which it also is between a 202 and the start of its scan.

Bounds. In `converge` a container that runs, under two names, and the record of
one that is gone, of a workload of the same name in another namespace, are the
fewest with which a scoped scan can hit the wrong record; with one image a
container runs it or not, and no two need to be told apart. The settings that
are put leave the running container out. One manual slot
beside the loop gives two scans at once, and the slot is used again and again;
the theorems of section 5 have any number. `MaxFaults` = 1 allows one failing
call, lost owner or deadline per behaviour, at any point, on top of SIGTERM and of all
the calls a done context makes fail; `MaxChanges` = 1 lets the cluster change
once, at any point. `converge` counts on both bounds: it asks what happens
after the last change. In `settings` two tabs, five requests, two of them under
way at once and one failing: both copies of a tab loaded, saved and loaded
again, or a save in each tab. Three groups for two workers make a worker come back for
more and another group wait. The eight workers of the code are the constant
`MaxWorkers`. The three images of `pool` are one of the internal
registry, by tag; one of Docker Hub by a bare name; one with a tag and a digest.
The registries behind the service and its route, Quay and Docker Hub are three,
and the first two have a repository in common. In `restarts` one record's
line fits in `MaxLine` just so and the other's is one cell too long, so every
set of records occurs that loads, and that does not.
One push at any point can fall between any two calls. Three inodes are enough for the two names and one saver's
descriptor, four for two savers.

Twenty tags, up to three in the repository at once: two candidates beside the
running one are what order and filters can be wrong about. In `discovery`,
two pods of any workload, revision and state beside the own one make a merge; a
rollout or the deletion of a workload (`MaxChanges` = 1), a push and a failing list call
fall between any two lists, and ReplicaSets are pruned at any time; one
Deployment is Helm's, one is the process itself, a StatefulSet with Helm's label
alone, a Job of Helm's and bare pods are the other kinds. `SkipCompleted` is set, as by
default: without it a completed pod is one like the others. With one deletion or
one rollout each exception of `HelmUpdatesHidden` occurs by itself. In `helm` the five versions differ in the number of digits, the
number of fields and the kind of tail, two repositories have two entries
between them and give a fallback, and revisions 8 to 10 pass from one digit to
two with history being pruned. Three namespaces, one of them without releases,
give a list that fails before, between and after two others. In `page`, a scan of the loop, one of the page, a change of filter
and a failing request; in `reload` a single scan and no fault.

Deadlock is not checked in `converge`: after SIGTERM the loop exits and no
request is accepted, and the process really stops. Nor is it in `settings`: once
the requests of the bound are made and no form is open, nobody does anything. In
the other passing runs it is.

## 4. Fairness

`LoopStep` and `ManualStep(s)` are weakly fair: a goroutine that can run does
run, every Kubernetes call and lookup returns or fails (lookups have contexts
of twenty seconds; a list call of the loop is trusted to end, it has no
deadline of its own), and the ticker ticks. Nothing obliges clients to post,
the cluster to change, SIGTERM or a deadline to come. `PoolReturns` needs the
same of the sender and of each worker.

In `Client` each step of a scan, the poll, a request of the button once clicked,
and every request for records are weakly fair: the server's scans end, requests
are answered or fail, and `useScanStatus` sets its timer again after either.
Nobody has to click, to filter, or to start a scan, and a request may always
fail instead until the bound on faults is reached.

`Converges` is stated for behaviours without SIGTERM, since a process told to
end owes nothing, and in which manual scans `Astray` come to an end (section 3).

## 5. The proofs

`ScanLifecycleProofs` proves for every cluster topology, every set of manual
slots, requests and settings and every bound:

* `TypeCorrect`: `Spec => []TypeOK`. By an action each; the facts that need an
  argument are that renaming by lost owners and the filters keep a record map a
  record map, and that scoped options are options.
* `FlagNeverStuck`: `Spec => []QuiescentNotScanning`. The property is inductive
  with `TypeOK`: whoever raises the flag becomes active in the same step, and
  whoever stops being active lowers it in the same step.
* `ScopedPublishIsLocal`: `Spec => ScopedPublishLocal`. An action property, so
  it needs what is known before the step. The inductive `ScopeInv` ties the
  options of an active manual scan to its request (the namespace asked for is
  the allowlist, the workload is the filter) and says that what it has found
  lies within the request: before the workload filter, in the namespace; after
  it, in the workload too. `ScopedRecordMatcher` of such options is
  exactly what the request asks for, whatever the settings were.

* `QuietScansSeeWhatRuns`, `FreshScanRepairs`, `ConvergedForGood`: what there is of
  `Converges` besides liveness. `FreshScan(s)` says of a scan that what it holds is
  what runs, as far as it has come: in the namespaces listed so far, after the
  owners in the workloads asked for. `Calm` is a system in which no call fails
  any more, `Quiet` a step in which the cluster rests and no scan is `Astray`. In a
  calm and quiet system every scan that begins is fresh and stays so; the next
  full one of fresh scans to publish makes the store right, whatever was in it; and
  no fresh scan, scoped or full, makes it wrong again. That the loop does begin
  and publish is fairness, and TLC's.
* `ScansWindDown`: a step of a scan lowers its `Rank` or shortens its lists, and no
  other step of anybody raises either. The same part of `AcceptedScanEnds`.
* `CheckIsContract`, `CallsFollowContract`: `CheckRecords(s)` is exactly a `Return` of
  `CheckContract` for the records the scan holds, grouped by image; the call
  begins as the contract does (`Unsettled`: no texts and no status yet), and
  meanwhile every step of the others is a stutter or the end of its context.
  With `ImplementsContract` below this joins the two modules: what the pool does
  is what the scans assume of it.

They rest on the named ASSUMEs of `Store` and `ScanLifecycle` on the constants,
which TLC evaluates in every run: IDs have a namespace and a workload; a
container and its name under a ReplicaSet are in the same namespace, and no
two share a name. These follow from the form of an ID.

`RegistryLookupsProofs` proves of `CheckPool`, for any records, digests and tags,
any groups and any number of workers:

* `TypeCorrect`: `Spec => []TypeOK`.
* `SettledTheorem`: `Spec => []SettledByTable`. The table holds of every record
  all along, not only at the end: `ComparedEntry` shows it for what a lookup
  writes, `NotedEntry` that noting a newer tag keeps it.
* `ImplementsContract`: `Spec => KeepsContract`. The inductive `PoolInv` says that
  a group belongs to the sender, to one worker or to nobody (`Ownership`); that
  its records are all unchecked, all failed or all settled, and unchecked as
  long as it is pending or only received (`Progress`); that the error texts are
  those of the failed groups nobody holds any more, and that of the context only
  when a group was skipped, which needs a done context (`Texts`); and that nobody
  is left once it returned (`End`). `Return` is then the one step of the contract,
  and every other step but `Cancel` stutters.
* `PoolWindsDown`, `PoolNeverStuck`: what there is of `PoolReturns` besides
  liveness. Every step but the end of the context takes something out of the
  finite sets `GroupSteps` (four steps for each group) and `Here` (the workers not
  gone), or sets `closed` or `returned`, and nothing is put back; and until
  `checkRecords` returns the guard of some step holds, since no worker leaves
  before the channel is closed (`End`).

They rest on the named ASSUMEs of `CheckPool`: every group has a record, and the
names of "no group" and of the context's error are not groups.

And of `RegistryLookups`, for any images, registries, routes, docker config, and
any pushes:

* `LookupsArePool`: every step of the pool with lookups is a step of `CheckPool`
  or a push, which changes nothing there. So `PoolInv` holds of it too, and with
  it `LookupsTypeCorrect` and `LookupsKeepContract`.
* `JudgedTheorem`, `ExplainedTheorem`, `CredentialsTheorem`: `LookupsInv` is
  `PoolInv` and three parts of its own: `Registries` types the tags and says
  that what a tag names now is among what it was; `Questions` says of every
  lookup made that it carries the credentials of its host; `Entries` says of
  every settled record which manifest it was compared with.

They rest on `LookupAssumption`: the constants have their types, and no two groups
are looked up by the same reference; and on `RouteAssumption` (section 2), about
the cluster. That a route whose service is another's is not taken, and that the
host is replaced for the internal registry only, is the code's part, and what
`JudgedTheorem` shows. Tags need not exist.

`SettingsPagesProofs` proves for any tabs, environments and edits, any number of
requests and failures:

* `SettingsTypes`: `Spec => []TypeOK`.
* `OptionsAreThoseShown`: `Spec => []OptionsFollowSettings`. `Alone` says that a
  PUT that overlaps no other has nobody else between its assignments, `Effect`
  that from its first assignment on the settings are its body, and that outside
  all assignments the scan options are those of the settings, or are known to
  be a mixture.
* `OptionsAreMixtures`: of whatever settings the process starts with and PUTs are
  sent, `scanOpts` holds each field of one, also where assignments overlap, so a
  scan that begins finds one of the `ScanOpts` of `ScanLifecycle`, which assumes it.
* `NothingIsLost`: `Spec => []NothingLost`. As long as users keep to the copies the
  property allows (`~blind`), `Keeps` holds: one PUT at a time (`OnePut`); a copy
  that misses it counts as stale (`Overtaken`); what the settings, a copy, a body
  or an answer under way say of a field is what users last set there, or one of
  the values of a PUT whose answer was lost (`Vouched`), and while
  another tab's PUT has made its assignments, it is that PUT's body (`Trusted`).
  It takes all of them together: a PUT's body was a copy, a copy was an answer,
  an answer was the settings, and the settings were a body.

They rest on `EnvironmentAssumption` and `EditsAssumption`: what `Load` makes of an
environment and what an edit makes of settings are settings.

`ServerProofs` proves for every cluster, any number of manual scans and of saves
under way at once, any limit on lines and lines on both sides of it, any number
of crashes, restarts, cancelled scans, writes that fail half-way and renames
that fail (`ServerSpec`):

* `ServerTypes`: `ServerSpec => []ServerTypeOK`. Savers that overlap may leave any
  mixture of their lines under either name; `Load` still makes records of it,
  or nothing.
* `SavesAloneAreAtomic`: `ServerSpec /\ []OneSaver => []SaveIsAtomic`. `OneSaver` says
  that at most one save is under way, the condition `shared_tmp` shows to be
  needed, and the only one. `Disk` says of each saver where it is and what
  that makes of the names, its descriptor and the contents: while it is alone
  the file under the temporary name is never the data file, and at each step of
  the encoder it `Holds` the lines of exactly the records not left. `HoldsLine` is
  the step of that argument, a line appended to such a file; `HoldsRecords` its
  end, that the file has those records and no others, `HoldsFits` that all its
  lines can be read if all of theirs can, and `LoadsTheSaved` what a start then
  makes of it: these records, or none.
* `FlagSurvivesRestarts`, `ScopeSurvivesRestarts`: `QuiescentNotScanning` and
  `ScopedPublishLocal`, by the lemmas of `ScanLifecycleProofs`: saving, failing and
  loading are stutters or new beginnings of that module.

And for a deployment nobody posts scans to (`LoopServerSpec`), whose loop is the
one saver:

* `CrashesLeaveTheFile`: `LoopServerSpec => []SaveIsAtomic`.
* `DeploymentsAreDurable`: `LoopServerSpec => KeepsResults`, which is the
  specification of `DurableStore` with `records`, `lastScan` and `saved` for its
  variables. The rename is its `Save`: the snapshot that was encoded is still what
  the store holds, since only the loop publishes and it is in `afterScan`
  (`LoopInv`). A start is its `Restart`, by `SaveIsAtomic`, where `Readable` are the records
  whose lines `Load` can read. Every other step of
  scans and savers is its `Publish` or a stutter.
* `ErrorsGoWithRecords`: `LoopServerSpec => []ErrorsMatchRecords`, by `Texts`, which
  follows the texts from the check to the two publications.

They rest on the ASSUMEs of `ScanLifecycle`, on lines not being empty and on
`InodeAssumption`: there is an inode for a new file beside the data file and the
files other savers hold open. A restart may come at any moment, any number of
times; the other bounds are those of `ScanLifecycle`, whatever their values.

`DiscoveryProofs` proves for any workloads, kinds, templates and images, any
finite number of pods, and any rollouts, pushes and failing lists:

* `DiscoveryTypes`: `Spec => []TypeOK`.
* `UpToDateRuns`, `FalseUpdatesAreRollouts`, `OutdatedReported`:
  `UpToDateIsRun`, `FalseUpdatesOnlyInRollouts` and `OutdatedIsReported` hold of
  whatever was listed; the argument is about the merge. `LastPod` and
  `FirstPod` say that a finite set of pods has a last and a first one, and
  `MergedDigest` that the digest is then that of a started pod.
* `HelmIsHidden`: `Spec => []HelmUpdatesHidden`. `HelmFound` follows the lists: a
  list that did not fail has found each owner of Helm's that is neither a pruned
  ReplicaSet nor deleted, a pod keeps its workload, and what is deleted stays so.
* `OwnPodsUnseen`: `Spec => []OwnRolloutUnseen`. `OwnFound`: the own ReplicaSet
  stays as long as the own pod, so `CurrentWorkload` finds the own Deployment.
* `NumbersAgree`: `Spec => []PagesAgree`. The records are finitely many, each has
  one status or is hidden, and there is one entry for each host.

They rest on `WorkloadAssumption`, `RevisionAssumption` and `BoundAssumption`: the
constants have their types, pods are finitely many and ordered, and what stands
for "nothing" is nothing else. `Pushes` in the invariant is needed for types
only: no tag was pushed more often than there were pushes.

`TagHintsProofs` proves for every set of tags, any bound on them and any number
of hints followed:

* `TypeCorrect`: `Spec => []TypeOK`.
* `HintsStayInStream`: `Spec => []StaysInStream`. The filters compare a
  candidate with the running tag, the property with the tag first deployed, so
  the argument is that what passes them composes: `Passes` gathers all filters,
  `HintInv` says that the running tag, and the hint too, are in the stream of
  the origin, and one lemma each shows that filters and version order are
  transitive.
* `HintsNeverLeadBack`: `Spec => NeverBack`. `HintInv` also keeps that a hint is
  greater than the running version, which nothing but `Deploy` changes.
* `HintsAreFinal`: `Spec => []HintIsFinal`, by transitivity and irreflexivity of
  the version order.
* `UpdatesFound`: `Spec => []NoUpdateMissed`. `StreamPasses`: the filters keep what
  is of the very stream; `SomeBest`: of finitely many tags that pass, there is
  one that none is greater than, and it beats the running tag.

They rest on `TagsAssumption` only: tags are tags, and no hint is none.

`HelmReleasesProofs` proves for any versions, repositories, namespaces, options
and secrets at rest, any history Helm keeps and any failures:

* `HelmTypes`: `Spec => []TypeOK`.
* `CurrentShown`: `Spec => []ShownIsCurrent`. `Cluster` says that the newest
  revision was never superseded and, once deployed, is what runs; `Snapshot`
  keeps of the secrets listed what `Cluster` says at the moment of their list.
  `Latest`, which compares what labels and names say, picks that last secret.
* `ReleasesShown`: `Spec => []NoReleaseLost`. `Lists`: each selected namespace is
  in one list, which is still to come, has failed or has been taken whole.
  `GroupLast` and `OneLatest`: each release has one last secret among those with
  the label `owner=helm`, and that one is shown.
* `ChartUpdatesAreReal`, `ChartsFound`: `ChartUpdateIsReal` and `NoChartMissed`. An
  answer compares with the newest of the index of one repository (`Charts`), and
  `GreaterIsNewer` and `LatestIsNewest` relate the order of `compareVersions`,
  field by field, to `Newer`, that of major, minor and patch, for numbers of any size.

They rest on `VersionsAssumption` (a version has one to three numbers before its
tail, and a final version no tail), `OthersAssumption`
(the secrets at rest are finitely many, of different names, and say one thing
in name, label and payload) and on what stands for "nothing" being nothing else.

`ClientProofs` proves for any finite number of scans, pages that click and filter
at any moment, and any failures:

* `PageTypes`: `Spec => []TypeOK`. Each scan publishes at most once, so the version
  of the records is at most the number of scans that began, no answer is newer
  than the records, and the requests under way stay a bag.
* `SeenScanIsKept`: from when the page sees a scan run that is the last to begin,
  with no older answer under way (`Seen`), it waits for the scan to end, has
  asked for its records, or has them (`Kept`). What is left of `SeenScanIsLoaded`
  is that requests are answered.

Only model-checked: liveness (`FlagClears`, `AcceptedScanEnds`, `Converges`,
`PoolReturns`, `IndicatorRests`, `SeenScanIsLoaded`), since fairness and ENABLED
are out of the prover's reach. Of `AcceptedScanEnds`, `Converges`, `PoolReturns` and
`SeenScanIsLoaded` the part that needs no fairness is proved, as said above: what
a step can only bring nearer, and what stays once it is reached. Every other
property of the passing runs is proved.
Induction over data and RECURSIVE operators are out of its reach too; no module
has either.

## 6. Not modelled

The API documentation page and the deployment manifests, which are constants.
Of the read handlers, the free search, the lookup of one image and the wording
of an update. Of the configuration, the integers, the Helm repositories, the
address and the data directory. Of the registry client, the HTTP exchange, which
the library does. Of a start, the errors of reading a data file that is there. Of the
frontend, everything that only renders; a page of the model has one post under
way at a time, while its buttons are disabled only once it shows a scan as
running. `UpdateRecord`
has no caller.

## 7. The plan

Done, in this order: `Store`, `ScanLifecycle` and its proofs, `CheckPool` with
`CheckContract` and their proofs, `SaveFile`, `Server`, `TagSelect`, `TagHints`
and its proofs, `Discovery`, `Client`, `HelmReleases`, `RegistryLookups` and its
proofs, `SettingsPages` and its proofs, the proofs of `Server`, of `Discovery`, of
`NoUpdateMissed` and of `HelmReleases`; `DurableStore`, `Server` proved with any
number of savers, the safety halves of the liveness properties, the proofs of
`Client`, and the theorems that join `ScanLifecycle` to `CheckContract` and to
`SettingsPages`.

What is left to prove is a condition for `KeepsResults` with manual scans,
as `OneSaver` is one for `SaveIsAtomic`, and that `Client`'s scans are those of
`ScanLifecycle` as a page sees them. What is left to model is named in section 6.
