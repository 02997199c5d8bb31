---------------------------- MODULE DurableStore -----------------------------
(* What main (backend/cmd/server) promises about the results it keeps, with  *)
(* the data file reduced to its content: a scan publishes, the finished scan *)
(* saves what was published, and a process that starts finds what was last   *)
(* saved, all of it and nothing else, or no record at all where that cannot  *)
(* be read again.                                                            *)
CONSTANTS Results,   \* the sets of records the store may hold
          Start,     \* those it may hold at first
          Readable,  \* those that can be read again once they are saved
          Nothing,   \* the one without records
          None       \* nothing was saved

VARIABLES records,   \* what the store holds
          scanned,   \* this process has published a scan
          saved      \* what was last saved

vars == <<records, scanned, saved>>

Init == records \in Start /\ scanned = FALSE /\ saved = None

Publish ==
  /\ records' \in Results /\ scanned' = TRUE
  /\ UNCHANGED saved

Save ==
  /\ scanned
  /\ saved' = records
  /\ UNCHANGED <<records, scanned>>

Restart ==
  /\ records' = IF saved \in Readable THEN saved ELSE Nothing
  /\ scanned' = FALSE
  /\ UNCHANGED saved

Next == Publish \/ Save \/ Restart

Spec == Init /\ [][Next]_vars
=============================================================================
