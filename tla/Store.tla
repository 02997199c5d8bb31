-------------------------------- MODULE Store --------------------------------
(* The in-memory result store (backend/internal/cache/store.go).             *)
(*                                                                           *)
(* Four fields behind one RWMutex: the records by ID, the time of the last   *)
(* scan, the in-progress flag and the error texts of the last scan.  Every   *)
(* method takes the lock once, so each operator below is one atomic step;    *)
(* what a caller does BETWEEN two of them is not protected by anything.      *)
(*                                                                           *)
(* Abstractions: a record is its configured image and the outcome of its     *)
(* registry check; lastScan keeps only whether a scan has stamped it since   *)
(* the process started; an error text is the image whose lookup failed, or   *)
(* CtxDone for the text of a cancelled context.                              *)
EXTENDS Naturals

CONSTANTS Ids,       \* record IDs: namespace:kind:name:container
          Images,    \* configured image references
          CtxDone,   \* the error text of a cancelled or expired context
          None       \* no record, no image, no value

Statuses == {"unknown", "ok", "failed"}
Record == [image : Images, status : Statuses]
ErrorTexts == Images \cup {CtxDone}

ASSUME NoneIsNoRecord == None \notin Record /\ None \notin Images
ASSUME CtxDoneIsNoImage == CtxDone \notin Images

VARIABLES records,   \* Ids -> Record, None where the map has no entry
          lastScan,  \* a scan has published since this process started
          scanning,  \* the in-progress flag ScanStatus reports as "running"
          errors     \* the error texts ScanStatus reports

storeVars == <<records, lastScan, scanning, errors>>

RecordMap == [Ids -> Record \cup {None}]
Empty == [i \in Ids |-> None]

StoreTypeOK ==
  /\ records \in RecordMap
  /\ lastScan \in BOOLEAN
  /\ scanning \in BOOLEAN
  /\ errors \subseteq ErrorTexts

(* New, then Load of whatever an earlier process persisted: the records     *)
(* come back, the time of the last scan and its errors do not.              *)
StoreInit(persisted) ==
  /\ records \in persisted
  /\ lastScan = FALSE
  /\ scanning = FALSE
  /\ errors = {}

(* Mutant: records that were not found again stay.                          *)
MergeRecords(new) ==
  /\ records' = [i \in Ids |-> IF new[i] # None THEN new[i] ELSE records[i]]
  /\ lastScan' = TRUE
  /\ UNCHANGED <<scanning, errors>>

(* A full scan's result replaces everything.                                *)
SetRecords(new) ==
  /\ records' = new
  /\ lastScan' = TRUE
  /\ UNCHANGED <<scanning, errors>>

(* A scoped scan's result replaces the records the matcher selects.         *)
ReplaceWhere(new, shouldReplace) ==
  /\ records' = [i \in Ids |-> IF new[i] # None THEN new[i]
                               ELSE IF i \in shouldReplace THEN None
                               ELSE records[i]]
  /\ lastScan' = TRUE
  /\ UNCHANGED <<scanning, errors>>

SetScanning(v) ==
  /\ scanning' = v
  /\ UNCHANGED <<records, lastScan, errors>>

(* Mutant: a scan without errors leaves the old ones in place.              *)
SetErrorsIfAny(errs) ==
  /\ errors' = IF errs = {} THEN errors ELSE errs
  /\ UNCHANGED <<records, lastScan, scanning>>

SetErrors(errs) ==
  /\ errors' = errs
  /\ UNCHANGED <<records, lastScan, scanning>>
=============================================================================
