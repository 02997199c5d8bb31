------------------------------- MODULE Server --------------------------------
(* One deployment of Image Roundup across restarts (backend/cmd/server):     *)
(* main loads the persisted records, runs the scans of ScanLifecycle, and    *)
(* hands each of them an afterScan that saves the store (SaveFile).  The     *)
(* process may end at any point: main returns within seconds of SIGTERM      *)
(* without waiting for a scan or a save, and it may be killed.               *)
EXTENDS ScanLifecycle, SaveFile

ASSUME SaversAssumption == Savers = Procs

serverVars == <<vars, fileVars>>

ServerInit == Init /\ SaveInit

ServerTypeOK == TypeOK /\ SaveTypeOK

(* A scan's own steps.  The write lock of the store waits for savers that   *)
(* hold the read lock.                                                      *)
Scan(s) ==
  /\ \/ ListNamespaces(s)
     \/ \E ns \in Namespaces : ListPods(s, ns)
     \/ ResolveOwners(s) \/ CheckRecords(s)
     \/ Publish(s) \/ PublishErrors(s) \/ Finish(s)
  /\ ReadLocked => UNCHANGED storeVars
  /\ UNCHANGED fileVars

(* Mutant: afterScan runs in a goroutine of its own, beside later scans.    *)
SaveStepAnytime(s) ==
  /\ \/ OpenTmp(s) \/ LockStore(s) \/ UnlockStore(s) \/ Close(s)
     \/ \E i \in Ids : Encode(s, i)
  /\ UNCHANGED vars

(* afterScan: a step of Save between its first and its last,                *)
SaveStep(s) ==
  /\ pc[s] = "after"
  /\ \/ OpenTmp(s) \/ LockStore(s) \/ UnlockStore(s) \/ Close(s)
     \/ \E i \in Ids : Encode(s, i)
  /\ UNCHANGED vars

(* a file operation that fails,                                             *)
SaveFails(s) ==
  /\ pc[s] = "after"
  /\ faults < MaxFaults /\ faults' = faults + 1
  /\ OpenFails(s) \/ CloseFails(s) \/ RenameFails(s) \/ \E i \in Ids : EncodeFails(s, i)
  /\ UNCHANGED <<storeVars, procVars, clusterVars>>

(* and the last, after which the scan's goroutine is free.                  *)
SaveEnds(s) == (Rename(s) \/ GiveUp(s)) /\ AfterScan(s)

Persisting(s) == SaveStep(s) \/ SaveFails(s) \/ SaveEnds(s)

(* The process ends, whatever it is doing, and main runs again.             *)
Restart ==
  /\ records' = Load /\ lastScan' = FALSE /\ scanning' = FALSE /\ errors' = {}
  /\ pc' = StartPc
  /\ opts' = [s \in Procs |-> NoOptions]
  /\ request' = [s \in Procs |-> FullRequest]
  /\ todo' = [s \in Procs |-> {}]
  /\ found' = [s \in Procs |-> Empty]
  /\ errs' = [s \in Procs |-> {}]
  /\ cancelled' = [s \in Procs |-> FALSE]
  /\ DropDescriptors
  /\ UNCHANGED <<clusterVars, faults>>

Outside ==
  /\ \/ Signal
     \/ \E c \in Containers, m \in Images \cup {None} : ChangeCluster(c, m)
  /\ UNCHANGED fileVars

LoopServer ==
  \/ /\ StartupScan \/ Tick \/ LoopExit
     /\ ReadLocked => UNCHANGED storeVars
     /\ UNCHANGED fileVars
  \/ Scan(Loop)
  \/ Persisting(Loop)
  \/ Outside
  \/ Restart

(* A deployment nobody sends POST /scan to.                                 *)
LoopServerSpec == ServerInit /\ [][LoopServer]_serverVars

Requested(s) ==
  /\ Post(s) \/ (\E req \in Requests : Accept(s, req)) \/ BeginManual(s) \/ Deadline(s)
  /\ ReadLocked => UNCHANGED storeVars
  /\ UNCHANGED fileVars

(* One with manual scans too.                                               *)
ServerNext == LoopServer \/ \E s \in Manual : Requested(s) \/ Scan(s) \/ Persisting(s)

ServerSpec == ServerInit /\ [][ServerNext]_serverVars

-----------------------------------------------------------------------------
(* Properties.                                                              *)

(* Every line of these records can be read again.                           *)
Fits(recs) == \A i \in Ids : recs[i] # None => LineLen[i] <= MaxLine

(* "The write is atomic" (Save): whatever a crash or a failing write or     *)
(* rename interrupts, and also while a save is under way, the data file     *)
(* holds exactly what the last successful Save had encoded, and loading it  *)
(* gives that, or nothing at all if one of its lines is longer than Load    *)
(* can read: such a Save succeeds and loses every record to the next start. *)
(* This holds as long as saves do not overlap; overlapping ones share one   *)
(* temporary file.                                                          *)
SaveIsAtomic ==
  IF data = None THEN saved = None
  ELSE /\ WellFormed(file[data]) /\ saved = [i \in Ids |-> RecordIn(file[data], i)]
       /\ Load = IF Fits(saved) THEN saved ELSE Empty

(* The saved file is the result of a scan of this process, never a mixture  *)
(* of two, and a restart brings back just that, if all its lines can be     *)
(* read: a deployment without manual scans keeps its results as             *)
(* DurableStore does.                                                       *)
Durable == INSTANCE DurableStore WITH
  Results <- RecordMap, Start <- Persisted, Nothing <- Empty, scanned <- lastScan,
  Readable <- {recs \in RecordMap : Fits(recs)}
KeepsResults == Durable!Spec

(* "Load persisted results from the previous run so the UI is not empty on  *)
(* restart" (main): while containers run, nothing changes and no call       *)
(* fails, stopping the process does not leave it without persisted records. *)
(* The code does not keep to this: discovery under the cancelled context    *)
(* finds nothing, and the empty result is published and saved.              *)
ShutdownKeepsRecords ==
  [][saved \notin {None, Empty} => saved' # Empty]_serverVars
=============================================================================
