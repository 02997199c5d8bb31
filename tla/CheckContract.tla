---------------------------- MODULE CheckContract ----------------------------
(* What checkRecords (backend/internal/k8s/scanner.go) promises its caller:  *)
(* in one step, when it returns, every record has been settled by the one    *)
(* lookup of its group, and the texts of the failed lookups are returned.    *)
(* Only if the context is done by then may records be left as discovery made *)
(* them.  Nothing is written to a record afterwards: the caller publishes    *)
(* the very same pointers to the store.                                      *)
CONSTANTS Recs,      \* the records of one scan
          Jobs,      \* the groups of records that share one lookup
          JobOf,     \* the group of a record
          CtxDone    \* the error text of a done context

VARIABLES verdict,    \* per record: "unchecked", "failed" or "settled"
          texts,      \* the error texts returned
          cancelled,  \* the context is done
          returned    \* checkRecords has returned

vars == <<verdict, texts, cancelled, returned>>

Init ==
  /\ verdict = [r \in Recs |-> "unchecked"]
  /\ texts = {}
  /\ cancelled \in BOOLEAN
  /\ returned = FALSE

Cancel ==
  /\ ~cancelled
  /\ cancelled' = TRUE
  /\ UNCHANGED <<verdict, texts, returned>>

Return ==
  /\ ~returned
  /\ \E of \in [Jobs -> {"unchecked", "failed", "settled"}], ctx \in SUBSET {CtxDone} :
       LET skipped == {j \in Jobs : of[j] = "unchecked"}
           failed == {j \in Jobs : of[j] = "failed"}
       IN /\ skipped # {} => cancelled
          /\ skipped = {} => ctx = {}
          /\ verdict' = [r \in Recs |-> of[JobOf[r]]]
          /\ texts' = failed \cup ctx
  /\ returned' = TRUE
  /\ UNCHANGED cancelled

Next == Cancel \/ Return

Spec == Init /\ [][Next]_vars
=============================================================================
