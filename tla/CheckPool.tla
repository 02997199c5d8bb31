------------------------------ MODULE CheckPool ------------------------------
(* The worker pool of checkRecords and the check of one group of records,    *)
(* checkRecordGroup (backend/internal/k8s/scanner.go).                       *)
(*                                                                           *)
(* One goroutine sends the groups over an unbuffered channel, at most        *)
(* MaxWorkers others receive and check them, and the context may be done at  *)
(* any point.  A worker owns the records of the group it holds, so its       *)
(* writes to them are one step per registry call; the caller reads them      *)
(* after wg.Wait.                                                            *)
(*                                                                           *)
(* The answers of the registry are chosen freely at each call;               *)
(* RegistryLookups says which answers a registry gives.                      *)
EXTENDS Naturals, FiniteSets

CONSTANTS Recs, Jobs, JobOf, CtxDone,
          Digests,
          RunningDigest,  \* of a record, None if its container reports none
          TagKind,        \* of a group: "none", "plain" or "version"
          MaxWorkers,     \* eight in the code
          None            \* no group, no digest

ASSUME RecordAssumption ==
  /\ JobOf \in [Recs -> Jobs]
  /\ \A j \in Jobs : \E r \in Recs : JobOf[r] = j
  /\ RunningDigest \in [Recs -> Digests \cup {None}]
  /\ TagKind \in [Jobs -> {"none", "plain", "version"}]
ASSUME PoolAssumption == MaxWorkers \in Nat \ {0} /\ IsFiniteSet(Jobs)
ASSUME NamesAssumption == None \notin Jobs \cup Digests /\ CtxDone \notin Jobs

VARIABLES rec,        \* the records, shared by pointer
          pending,    \* groups not yet sent
          closed,     \* the channel is closed
          at, job,    \* of each worker: where it is, the group it holds
          scanErrors, \* appended to under mu
          cancelled,  \* the context is done
          returned    \* wg.Wait is over and the result is handed back

vars == <<rec, pending, closed, at, job, scanErrors, cancelled, returned>>

ScanWorkerCount(n) == IF n = 0 THEN 1 ELSE IF n < MaxWorkers THEN n ELSE MaxWorkers
Workers == 1..ScanWorkerCount(Cardinality(Jobs))

Group(j) == {r \in Recs : JobOf[r] = j}
Status == {"unknown", "up_to_date", "update_available", "check_failed"}

TypeOK ==
  /\ rec \in [Recs -> [status : Status, checked : BOOLEAN, registry : Digests \cup {None},
                       index : Digests \cup {None}, latest : BOOLEAN]]
  /\ pending \subseteq Jobs
  /\ closed \in BOOLEAN
  /\ at \in [Workers -> {"receive", "received", "lookup", "latest", "report", "gone"}]
  /\ job \in [Workers -> Jobs \cup {None}]
  /\ scanErrors \subseteq Jobs \cup {CtxDone}
  /\ cancelled \in BOOLEAN
  /\ returned \in BOOLEAN

(* As discovery leaves them, grouped and with the workers started.          *)
Init ==
  /\ rec = [r \in Recs |-> [status |-> "unknown", checked |-> FALSE,
                            registry |-> None, index |-> None, latest |-> FALSE]]
  /\ pending = Jobs
  /\ closed = FALSE
  /\ at = [w \in Workers |-> "receive"]
  /\ job = [w \in Workers |-> None]
  /\ scanErrors = {}
  /\ cancelled \in BOOLEAN
  /\ returned = FALSE

(* SIGTERM, or the ten minutes of a manual scan.                            *)
Cancel ==
  /\ ~cancelled
  /\ cancelled' = TRUE
  /\ UNCHANGED <<rec, pending, closed, at, job, scanErrors, returned>>

-----------------------------------------------------------------------------
(* The sender and the channel.                                              *)

(* Sending on an unbuffered channel hands the group to a receiving worker.  *)
(* The groups come out of a map, in any order.                              *)
Send(j, w) ==
  /\ ~closed /\ j \in pending /\ at[w] = "receive"
  /\ pending' = pending \ {j}
  /\ at' = [at EXCEPT ![w] = "received"]
  /\ job' = [job EXCEPT ![w] = j]
  /\ UNCHANGED <<rec, closed, scanErrors, cancelled, returned>>

(* After the last group, or when select takes ctx.Done.                     *)
Close ==
  /\ ~closed
  /\ pending = {} \/ cancelled
  /\ closed' = TRUE
  /\ UNCHANGED <<rec, pending, at, job, scanErrors, cancelled, returned>>

(* Mutant: the result is handed back once everything was sent.              *)
ReturnUnwaited ==
  /\ closed /\ ~returned
  /\ returned' = TRUE
  /\ UNCHANGED <<rec, pending, closed, at, job, scanErrors, cancelled>>

(* wg.Wait.                                                                 *)
Return ==
  /\ closed /\ ~returned
  /\ \A w \in Workers : at[w] = "gone"
  /\ returned' = TRUE
  /\ UNCHANGED <<rec, pending, closed, at, job, scanErrors, cancelled>>

-----------------------------------------------------------------------------
(* A worker.                                                                *)

Leave(w) ==
  /\ closed /\ at[w] = "receive"
  /\ at' = [at EXCEPT ![w] = "gone"]
  /\ UNCHANGED <<rec, pending, closed, job, scanErrors, cancelled, returned>>

Update(j, new) == rec' = [r \in Recs |-> IF r \in Group(j) THEN new[r] ELSE rec[r]]

(* Mutant: the digest of the index is not compared.                         *)
PlatformDigestMatches(running, registry, index) == running # None /\ running = registry

DigestMatches(running, registry, index) ==
  running # None /\ (running = registry \/ (index # None /\ running = index))

LookUp(w) ==
  /\ at[w] = "received" /\ ~cancelled
  /\ at' = [at EXCEPT ![w] = "lookup"]
  /\ UNCHANGED <<rec, pending, closed, job, scanErrors, cancelled, returned>>

(* Mutant: the worker stops instead of going on to receive.                 *)
SkipAndStop(w) ==
  /\ at[w] = "received" /\ cancelled
  /\ scanErrors' = scanErrors \cup {CtxDone}
  /\ UNCHANGED <<rec, pending, closed, at, job, cancelled, returned>>

(* The context is done before the lookup: the group is left alone and the   *)
(* text of the context is its error.                                        *)
Skip(w) ==
  /\ at[w] = "received" /\ cancelled
  /\ scanErrors' = scanErrors \cup {CtxDone}
  /\ at' = [at EXCEPT ![w] = "receive"]
  /\ job' = [job EXCEPT ![w] = None]
  /\ UNCHANGED <<rec, pending, closed, cancelled, returned>>

(* The lookup fails, for the registry's reasons or the context's.           *)
LookupFails(w) ==
  /\ at[w] = "lookup"
  /\ Update(job[w], [r \in Group(job[w]) |->
       [rec[r] EXCEPT !.status = "check_failed", !.checked = TRUE]])
  /\ at' = [at EXCEPT ![w] = "report"]
  /\ UNCHANGED <<pending, closed, job, scanErrors, cancelled, returned>>

Compared(running, registry, index) ==
  IF running = None THEN "unknown"
  ELSE IF DigestMatches(running, registry, index) THEN "up_to_date" ELSE "update_available"

NeedsLatest(tag, status) ==
  \/ tag # "none" /\ status = "update_available"
  \/ tag = "version" /\ status = "up_to_date"

(* The lookup answers with a digest, and that of the index around it if     *)
(* there is one; newer tags are asked for if a record of the group needs    *)
(* them.                                                                    *)
LookupAnswers(w, digest, index) ==
  LET status(r) == Compared(RunningDigest[r], digest, index)
      more == \E r \in Group(job[w]) : NeedsLatest(TagKind[job[w]], status(r))
  IN /\ at[w] = "lookup"
     /\ Update(job[w], [r \in Group(job[w]) |->
          [status |-> status(r), checked |-> TRUE,
           registry |-> digest, index |-> index, latest |-> FALSE]])
     /\ at' = [at EXCEPT ![w] = IF more THEN "latest" ELSE "receive"]
     /\ job' = [job EXCEPT ![w] = IF more THEN @ ELSE None]
     /\ UNCHANGED <<pending, closed, scanErrors, cancelled, returned>>

(* LatestTag finds a newer tag for the whole group; a record pinned to a    *)
(* version tag has an update even though its digest is current.             *)
LatestFound(w) ==
  /\ at[w] = "latest"
  /\ Update(job[w], [r \in Group(job[w]) |->
       [rec[r] EXCEPT !.latest = TRUE,
                      !.status = IF @ = "up_to_date" /\ TagKind[job[w]] = "version"
                                   THEN "update_available" ELSE @]])
  /\ at' = [at EXCEPT ![w] = "receive"]
  /\ job' = [job EXCEPT ![w] = None]
  /\ UNCHANGED <<pending, closed, scanErrors, cancelled, returned>>

(* There is none, or the lookup fails, which is only logged.                *)
LatestNotFound(w) ==
  /\ at[w] = "latest"
  /\ at' = [at EXCEPT ![w] = "receive"]
  /\ job' = [job EXCEPT ![w] = None]
  /\ UNCHANGED <<rec, pending, closed, scanErrors, cancelled, returned>>

(* Mutant: the group is gone by the time its error is appended.             *)
ReportLate(w) ==
  /\ at[w] = "report"
  /\ job' = [job EXCEPT ![w] = None]
  /\ scanErrors' = scanErrors \cup {job'[w]}
  /\ at' = [at EXCEPT ![w] = "receive"]
  /\ UNCHANGED <<rec, pending, closed, cancelled, returned>>

(* The error text is appended under the mutex.                              *)
Report(w) ==
  /\ at[w] = "report"
  /\ scanErrors' = scanErrors \cup {job[w]}
  /\ at' = [at EXCEPT ![w] = "receive"]
  /\ job' = [job EXCEPT ![w] = None]
  /\ UNCHANGED <<rec, pending, closed, cancelled, returned>>

Sender == (\E j \in Jobs, w \in Workers : Send(j, w)) \/ Close \/ Return
Worker(w) ==
  \/ Leave(w) \/ LookUp(w) \/ Skip(w) \/ LookupFails(w)
  \/ \E digest \in Digests, index \in Digests \cup {None} : LookupAnswers(w, digest, index)
  \/ LatestFound(w) \/ LatestNotFound(w) \/ Report(w)

Done == returned /\ UNCHANGED vars

Next == Sender \/ (\E w \in Workers : Worker(w)) \/ Cancel \/ Done

Spec == Init /\ [][Next]_vars

(* Goroutines that can run do run, and every registry call ends: its        *)
(* context expires after twenty seconds.                                    *)
FairSpec == Spec /\ WF_vars(Sender) /\ \A w \in Workers : WF_vars(Worker(w))

-----------------------------------------------------------------------------
(* Properties.                                                              *)

Verdict(r) == IF ~rec[r].checked THEN "unchecked"
              ELSE IF rec[r].status = "check_failed" THEN "failed" ELSE "settled"

Contract == INSTANCE CheckContract WITH
  verdict <- [r \in Recs |-> IF returned THEN Verdict(r) ELSE "unchecked"],
  texts <- IF returned THEN scanErrors ELSE {}

(* The pool keeps the promise the scan relies on: no record is missed,      *)
(* looked up twice with different outcomes or written to after the result   *)
(* was handed back, the error texts are those of the records that failed,   *)
(* and unchecked records come only from a done context (checkRecords).      *)
KeepsContract == Contract!Spec

(* Sender and workers never wait on each other forever, with any number of  *)
(* groups and wherever the context is done: checkRecords returns.           *)
PoolReturns == <>returned

(* README, "Status definitions", for images with a tag: a settled record is *)
(* unknown without a running digest, up to date only if its digest is the   *)
(* tag's and no newer tag is noted for a version tag, and has an update     *)
(* otherwise (checkRecordGroup over all its registry calls).                *)
SettledByTable ==
  returned => \A r \in Recs :
    LET tag == TagKind[JobOf[r]]
        current == RunningDigest[r] \in {rec[r].registry, rec[r].index}
    IN rec[r].checked /\ rec[r].status # "check_failed" /\ tag # "none" =>
         rec[r].status = IF RunningDigest[r] = None THEN "unknown"
                         ELSE IF current /\ ~(tag = "version" /\ rec[r].latest)
                              THEN "up_to_date" ELSE "update_available"
=============================================================================
