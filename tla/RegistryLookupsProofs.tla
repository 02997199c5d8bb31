------------------------ MODULE RegistryLookupsProofs ------------------------
(* Proofs about CheckPool, for any records, groups and number of workers,    *)
(* and about RegistryLookups, which implements it, for any images,           *)
(* manifests, routes, credentials and pushes.                                *)
EXTENDS RegistryLookups, FiniteSetTheorems, WellFoundedInduction, TLAPS

-----------------------------------------------------------------------------
(* CheckPool.                                                               *)

(* Where the groups stand: their records are written to together.           *)
Unchecked == {j \in Jobs : \A r \in Group(j) : ~rec[r].checked}
Failed == {j \in Jobs : \A r \in Group(j) : rec[r].checked /\ rec[r].status = "check_failed"}
Settled == {j \in Jobs : \A r \in Group(j) : rec[r].checked /\ rec[r].status # "check_failed"}

Held == {j \in Jobs : \E w \in Workers : job[w] = j}

(* Groups that a worker gave up for a done context.                         *)
Skipped == {j \in Unchecked : j \notin pending /\ j \notin Held}

(* What a record is once a lookup has answered.                             *)
TableEntry(r, e) ==
  LET tag == TagKind[JobOf[r]]
      current == RunningDigest[r] \in {e.registry, e.index}
  IN e.checked /\ e.status # "check_failed" /\ tag # "none" =>
       e.status = IF RunningDigest[r] = None THEN "unknown"
                  ELSE IF current /\ ~(tag = "version" /\ e.latest)
                       THEN "up_to_date" ELSE "update_available"

Table == \A r \in Recs : TableEntry(r, rec[r])

(* A group belongs to the sender, to one worker, or to nobody.              *)
Ownership ==
  /\ \A w \in Workers : job[w] = None <=> at[w] \in {"receive", "gone"}
  /\ \A w \in Workers : job[w] \notin pending
  /\ \A w, v \in Workers : job[w] = job[v] /\ job[w] # None => w = v

(* The records of a group are checked together, by the worker who owns it.  *)
Progress ==
  /\ Jobs = Unchecked \cup Failed \cup Settled
  /\ pending \subseteq Unchecked
  /\ \A w \in Workers :
       /\ at[w] \in {"received", "lookup"} => job[w] \in Unchecked
       /\ at[w] = "latest" => job[w] \in Settled
       /\ at[w] = "report" => job[w] \in Failed

Texts ==
  /\ scanErrors \subseteq Failed \cup {CtxDone}
  /\ Failed \subseteq Held \cup scanErrors
  /\ CtxDone \in scanErrors => Skipped # {}
  /\ Skipped # {} => cancelled

End ==
  /\ closed /\ pending # {} => cancelled
  /\ \A w \in Workers : at[w] = "gone" => closed
  /\ returned => closed /\ \A w \in Workers : at[w] = "gone"

PoolInv == TypeOK /\ Ownership /\ Progress /\ Texts /\ End /\ Table
-----------------------------------------------------------------------------
(* Facts about the records of a group.                                      *)

LEMMA Groups ==
  /\ JobOf \in [Recs -> Jobs]
  /\ \A j \in Jobs : Group(j) \subseteq Recs /\ Group(j) # {}
  /\ \A r \in Recs, j \in Jobs : r \in Group(j) <=> j = JobOf[r]
BY RecordAssumption DEF Group

LEMMA Exclusive ==
  /\ Unchecked \cup Failed \cup Settled \subseteq Jobs
  /\ Unchecked \cap Failed = {}
  /\ Unchecked \cap Settled = {}
  /\ Failed \cap Settled = {}
BY Groups DEF Unchecked, Failed, Settled

(* Writing to the records of one group leaves the other groups alone.       *)
LEMMA Others ==
  ASSUME NEW k \in Jobs, NEW new, Update(k, new)
  PROVE  /\ Unchecked' \ {k} = Unchecked \ {k}
         /\ Failed' \ {k} = Failed \ {k}
         /\ Settled' \ {k} = Settled \ {k}
<1>1. ASSUME NEW j \in Jobs, j # k, NEW r \in Group(j)
      PROVE  rec'[r] = rec[r]
  BY <1>1, Groups DEF Update
<1> QED
  BY <1>1 DEF Unchecked, Failed, Settled, Group

(* Steps that write to no record.                                           *)
LEMMA SameRecords ==
  ASSUME rec' = rec
  PROVE  /\ Unchecked' = Unchecked
         /\ Failed' = Failed
         /\ Settled' = Settled
         /\ Table' = Table
BY DEF Unchecked, Failed, Settled, Table, Group

(* The group a worker is busy with.                                         *)
LEMMA Busy ==
  ASSUME TypeOK, Ownership, NEW w \in Workers, at[w] \notin {"receive", "gone"}
  PROVE  /\ job[w] \in Jobs
         /\ job[w] # None
         /\ job[w] \in Held
         /\ job[w] \notin pending
BY NamesAssumption DEF TypeOK, Ownership, Held

-----------------------------------------------------------------------------
(* The invariant: the steps that write to no record.                        *)

LEMMA InitInv == Init => PoolInv
<1> SUFFICES ASSUME Init PROVE PoolInv
  OBVIOUS
<1>1. TypeOK
  BY DEF Init, TypeOK, Status
<1>2. Unchecked = Jobs
  BY Groups DEF Init, Unchecked
<1>3. Ownership /\ End
  BY NamesAssumption DEF Init, Ownership, End
<1>4. Progress
  BY <1>2, Exclusive DEF Init, Progress
<1>5. Texts
  BY <1>2, <1>4, Exclusive DEF Init, Progress, Texts, Skipped
<1>6. Table
  BY DEF Init, Table, TableEntry
<1> QED
  BY <1>1, <1>3, <1>4, <1>5, <1>6 DEF PoolInv

LEMMA CancelInv == ASSUME PoolInv, Cancel PROVE PoolInv'
<1> USE DEF Cancel
<1>1. TypeOK'
  BY DEF PoolInv, TypeOK
<1>2. Ownership' /\ End'
  BY DEF PoolInv, Ownership, End
<1>3. Progress' /\ Table'
  BY SameRecords DEF PoolInv, Progress
<1>4. Texts'
  BY SameRecords DEF PoolInv, Texts, Skipped, Held
<1> QED
  BY <1>1, <1>2, <1>3, <1>4 DEF PoolInv

LEMMA SendInv ==
  ASSUME PoolInv, NEW j \in Jobs, NEW w \in Workers, Send(j, w)
  PROVE  PoolInv'
<1> USE DEF Send
<1>1. TypeOK'
  BY DEF PoolInv, TypeOK
<1>2. Ownership'
  BY NamesAssumption DEF PoolInv, TypeOK, Ownership
<1>3. Progress' /\ Table'
  BY SameRecords, NamesAssumption DEF PoolInv, TypeOK, Progress
<1>4. Held' = Held \cup {j}
  BY NamesAssumption DEF PoolInv, TypeOK, Ownership, Held
<1>5. Skipped' = Skipped
  BY <1>4, SameRecords DEF Skipped
<1>6. Texts'
  BY <1>4, <1>5, SameRecords DEF PoolInv, Texts
<1>7. End'
  BY DEF PoolInv, TypeOK, End
<1> QED
  BY <1>1, <1>2, <1>3, <1>6, <1>7 DEF PoolInv

LEMMA CloseInv == ASSUME PoolInv, Close PROVE PoolInv'
<1> USE DEF Close
<1>1. TypeOK' /\ Ownership' /\ End'
  BY DEF PoolInv, TypeOK, Ownership, End
<1>2. Progress' /\ Table'
  BY SameRecords DEF PoolInv, Progress
<1>3. Texts'
  BY SameRecords DEF PoolInv, Texts, Skipped, Held
<1> QED
  BY <1>1, <1>2, <1>3 DEF PoolInv

LEMMA ReturnInv == ASSUME PoolInv, Return PROVE PoolInv'
<1> USE DEF Return
<1>1. TypeOK' /\ Ownership' /\ End'
  BY DEF PoolInv, TypeOK, Ownership, End
<1>2. Progress' /\ Table'
  BY SameRecords DEF PoolInv, Progress
<1>3. Texts'
  BY SameRecords DEF PoolInv, Texts, Skipped, Held
<1> QED
  BY <1>1, <1>2, <1>3 DEF PoolInv

LEMMA LeaveInv == ASSUME PoolInv, NEW w \in Workers, Leave(w) PROVE PoolInv'
<1> USE DEF Leave
<1>1. TypeOK' /\ Ownership' /\ End'
  BY DEF PoolInv, TypeOK, Ownership, End
<1>2. Progress' /\ Table'
  BY SameRecords DEF PoolInv, TypeOK, Progress
<1>3. Texts'
  BY SameRecords DEF PoolInv, Texts, Skipped, Held
<1> QED
  BY <1>1, <1>2, <1>3 DEF PoolInv

LEMMA LookUpInv == ASSUME PoolInv, NEW w \in Workers, LookUp(w) PROVE PoolInv'
<1> USE DEF LookUp
<1>1. TypeOK' /\ Ownership' /\ End'
  BY DEF PoolInv, TypeOK, Ownership, End
<1>2. Progress' /\ Table'
  BY SameRecords DEF PoolInv, TypeOK, Progress
<1>3. Texts'
  BY SameRecords DEF PoolInv, Texts, Skipped, Held
<1> QED
  BY <1>1, <1>2, <1>3 DEF PoolInv

(* A worker that is done with its group.                                    *)
LEMMA Released ==
  ASSUME TypeOK, Ownership, End, NEW w \in Workers, at[w] \notin {"receive", "gone"},
         at' = [at EXCEPT ![w] = "receive"], job' = [job EXCEPT ![w] = None],
         UNCHANGED <<pending, closed, cancelled, returned>>
  PROVE  /\ Ownership' /\ End'
         /\ Held' = Held \ {job[w]}
         /\ at'[w] = "receive"
         /\ \A v \in Workers : v # w => at'[v] = at[v] /\ job'[v] = job[v]
         /\ \A v \in Workers : v # w => job[v] # job[w]
<1>1. \A v \in Workers : v # w => at'[v] = at[v] /\ job'[v] = job[v]
  BY DEF TypeOK
<1>2. at'[w] = "receive" /\ job'[w] = None
  BY DEF TypeOK
<1>3. \A v \in Workers : v # w => job[v] # job[w]
  BY Busy DEF Ownership
<1>4. Ownership'
  BY <1>1, <1>2, <1>3, NamesAssumption DEF TypeOK, Ownership
<1>5. End'
  BY <1>1, <1>2 DEF TypeOK, End
<1>6. Held' = Held \ {job[w]}
  BY <1>1, <1>2, <1>3, NamesAssumption DEF Held
<1> QED
  BY <1>1, <1>2, <1>3, <1>4, <1>5, <1>6

LEMMA SkipInv == ASSUME PoolInv, NEW w \in Workers, Skip(w) PROVE PoolInv'
<1> USE DEF Skip
<1>1. /\ job[w] \in Jobs /\ job[w] \in Held /\ job[w] \notin pending
      /\ job[w] \in Unchecked
  BY Busy DEF PoolInv, Progress
<1>2. /\ Ownership' /\ End'
      /\ Held' = Held \ {job[w]}
      /\ at'[w] = "receive"
      /\ \A v \in Workers : v # w => at'[v] = at[v] /\ job'[v] = job[v]
  BY Released DEF PoolInv
<1>3. TypeOK'
  BY DEF PoolInv, TypeOK
<1>4. Progress' /\ Table'
  BY <1>2, SameRecords DEF PoolInv, Progress
<1>5. Skipped' = Skipped \cup {job[w]}
  BY <1>1, <1>2, SameRecords DEF Skipped
<1>6. Texts'
  BY <1>1, <1>2, <1>5, Exclusive, SameRecords DEF PoolInv, Texts
<1> QED
  BY <1>2, <1>3, <1>4, <1>6 DEF PoolInv

LEMMA LatestNotFoundInv ==
  ASSUME PoolInv, NEW w \in Workers, LatestNotFound(w)
  PROVE  PoolInv'
<1> USE DEF LatestNotFound
<1>1. /\ job[w] \in Jobs /\ job[w] \in Held
      /\ job[w] \in Settled
  BY Busy DEF PoolInv, Progress
<1>2. /\ Ownership' /\ End'
      /\ Held' = Held \ {job[w]}
      /\ at'[w] = "receive"
      /\ \A v \in Workers : v # w => at'[v] = at[v] /\ job'[v] = job[v]
  BY Released DEF PoolInv
<1>3. TypeOK'
  BY DEF PoolInv, TypeOK
<1>4. Progress' /\ Table'
  BY <1>2, SameRecords DEF PoolInv, Progress
<1>5. Skipped' = Skipped
  BY <1>1, <1>2, Exclusive, SameRecords DEF Skipped
<1>6. Texts'
  BY <1>1, <1>2, <1>5, Exclusive, SameRecords DEF PoolInv, Texts
<1> QED
  BY <1>2, <1>3, <1>4, <1>6 DEF PoolInv

LEMMA ReportInv == ASSUME PoolInv, NEW w \in Workers, Report(w) PROVE PoolInv'
<1> USE DEF Report
<1>1. /\ job[w] \in Jobs /\ job[w] \in Held
      /\ job[w] \in Failed
  BY Busy DEF PoolInv, Progress
<1>2. /\ Ownership' /\ End'
      /\ Held' = Held \ {job[w]}
      /\ at'[w] = "receive"
      /\ \A v \in Workers : v # w => at'[v] = at[v] /\ job'[v] = job[v]
  BY Released DEF PoolInv
<1>3. TypeOK'
  BY <1>1 DEF PoolInv, TypeOK
<1>4. Progress' /\ Table'
  BY <1>2, SameRecords DEF PoolInv, Progress
<1>5. Skipped' = Skipped
  BY <1>1, <1>2, Exclusive, SameRecords DEF Skipped
<1>6. Texts'
  BY <1>1, <1>2, <1>5, NamesAssumption, Exclusive, SameRecords DEF PoolInv, Texts
<1> QED
  BY <1>2, <1>3, <1>4, <1>6 DEF PoolInv

-----------------------------------------------------------------------------
(* The invariant: the steps that write to the records of a group.           *)

Entry == [status : Status, checked : BOOLEAN, registry : Digests \cup {None},
          index : Digests \cup {None}, latest : BOOLEAN]

LEMMA Written ==
  ASSUME TypeOK, NEW k \in Jobs, NEW new \in [Group(k) -> Entry], Update(k, new)
  PROVE  /\ rec' \in [Recs -> Entry]
         /\ \A r \in Group(k) : rec'[r] = new[r]
         /\ \A r \in Recs \ Group(k) : rec'[r] = rec[r]
<1>1. rec \in [Recs -> Entry]
  BY DEF TypeOK, Entry
<1>2. rec' \in [Recs -> Entry]
  BY <1>1 DEF Update
<1> QED
  BY <1>2, Groups DEF Update

LEMMA BecomesFailed ==
  ASSUME NEW k \in Jobs, NEW new, Update(k, new),
         \A r \in Group(k) : rec'[r].checked /\ rec'[r].status = "check_failed"
  PROVE  /\ Failed' = Failed \cup {k}
         /\ Unchecked' = Unchecked \ {k}
         /\ Settled' = Settled \ {k}
<1>1. k \in Failed' /\ k \notin Unchecked' /\ k \notin Settled'
  BY Groups DEF Failed, Unchecked, Settled, Group
<1> QED
  BY <1>1, Others

LEMMA BecomesSettled ==
  ASSUME NEW k \in Jobs, NEW new, Update(k, new),
         \A r \in Group(k) : rec'[r].checked /\ rec'[r].status # "check_failed"
  PROVE  /\ Settled' = Settled \cup {k}
         /\ Unchecked' = Unchecked \ {k}
         /\ Failed' = Failed \ {k}
<1>1. k \in Settled' /\ k \notin Unchecked' /\ k \notin Failed'
  BY Groups DEF Failed, Unchecked, Settled, Group
<1> QED
  BY <1>1, Others

LEMMA TableKept ==
  ASSUME Table, NEW k \in Jobs,
         \A r \in Recs \ Group(k) : rec'[r] = rec[r],
         \A r \in Group(k) : TableEntry(r, rec'[r])
  PROVE  Table'
BY DEF Table

LEMMA LookupFailsInv ==
  ASSUME PoolInv, NEW w \in Workers, LookupFails(w)
  PROVE  PoolInv'
<1> USE DEF LookupFails
<1> DEFINE k == job[w]
           new == [r \in Group(k) |->
                     [rec[r] EXCEPT !.status = "check_failed", !.checked = TRUE]]
<1>1. /\ k \in Jobs /\ k \in Held /\ k \notin pending /\ k # None
      /\ k \in Unchecked
  BY Busy DEF PoolInv, Progress
<1>2. ASSUME NEW r \in Group(k)
      PROVE  /\ new[r] \in Entry
             /\ new[r].checked = TRUE /\ new[r].status = "check_failed"
  <2>1. rec[r] \in Entry
    BY <1>1, Groups DEF PoolInv, TypeOK, Entry
  <2> QED
    BY <2>1 DEF Entry, Status
<1>3. Update(k, new)
  OBVIOUS
<1>4. /\ rec' \in [Recs -> Entry]
      /\ \A r \in Group(k) : rec'[r] = new[r]
      /\ \A r \in Recs \ Group(k) : rec'[r] = rec[r]
  <2>1. new \in [Group(k) -> Entry]
    BY <1>2
  <2> HIDE DEF new
  <2> QED
    BY <1>1, <1>3, <2>1, Written DEF PoolInv
<1>5. TypeOK'
  BY <1>4 DEF PoolInv, TypeOK, Entry
<1>6. Ownership' /\ End'
  BY DEF PoolInv, TypeOK, Ownership, End
<1>7. \A r \in Group(k) : rec'[r].checked /\ rec'[r].status = "check_failed"
  BY <1>2, <1>4
<1>8. /\ Failed' = Failed \cup {k}
      /\ Unchecked' = Unchecked \ {k}
      /\ Settled' = Settled
  <2> HIDE DEF new, LookupFails
  <2>1. /\ Failed' = Failed \cup {k}
        /\ Unchecked' = Unchecked \ {k}
        /\ Settled' = Settled \ {k}
    BY <1>1, <1>3, <1>7, BecomesFailed
  <2>2. k \notin Settled
    BY <1>1, Exclusive
  <2> QED
    BY <2>1, <2>2
<1>9. Progress'
  <2>1. \A v \in Workers : v # w => at'[v] = at[v] /\ job[v] # k
    BY <1>1 DEF PoolInv, TypeOK, Ownership
  <2>2. at'[w] = "report"
    BY DEF PoolInv, TypeOK
  <2> QED
    BY <1>1, <1>8, <2>1, <2>2 DEF PoolInv, Progress
<1>10. Texts'
  <2>1. Held' = Held
    BY DEF Held
  <2>2. Skipped' = Skipped
    BY <1>1, <1>8, <2>1 DEF Skipped
  <2> QED
    BY <1>1, <1>8, <2>1, <2>2 DEF PoolInv, Texts
<1>11. Table'
  <2>1. \A r \in Group(k) : TableEntry(r, rec'[r])
    BY <1>7 DEF TableEntry
  <2> QED
    BY <1>1, <1>4, <2>1, TableKept DEF PoolInv
<1> QED
  BY <1>5, <1>6, <1>9, <1>10, <1>11 DEF PoolInv

(* The answer to a lookup, for one record.                                  *)
LEMMA ComparedEntry ==
  ASSUME NEW r \in Recs, NEW digest \in Digests, NEW index \in Digests \cup {None}
  PROVE  LET e == [status |-> Compared(RunningDigest[r], digest, index), checked |-> TRUE,
                   registry |-> digest, index |-> index, latest |-> FALSE]
         IN /\ e \in Entry
            /\ e.checked /\ e.status # "check_failed"
            /\ TableEntry(r, e)
BY RecordAssumption, NamesAssumption DEF Compared, DigestMatches, Entry, Status, TableEntry

LEMMA LookupAnswersInv ==
  ASSUME PoolInv, NEW w \in Workers, NEW digest \in Digests, NEW index \in Digests \cup {None},
         LookupAnswers(w, digest, index)
  PROVE  PoolInv'
<1> DEFINE k == job[w]
           new == [r \in Group(k) |->
                     [status |-> Compared(RunningDigest[r], digest, index), checked |-> TRUE,
                      registry |-> digest, index |-> index, latest |-> FALSE]]
           more == \E r \in Group(k) :
                     NeedsLatest(TagKind[k], Compared(RunningDigest[r], digest, index))
<1>1. /\ at[w] = "lookup"
      /\ Update(k, new)
      /\ at' = [at EXCEPT ![w] = IF more THEN "latest" ELSE "receive"]
      /\ job' = [job EXCEPT ![w] = IF more THEN @ ELSE None]
      /\ UNCHANGED <<pending, closed, scanErrors, cancelled, returned>>
  BY DEF LookupAnswers
<1>2. /\ k \in Jobs /\ k \in Held /\ k \notin pending /\ k # None
      /\ k \in Unchecked
  BY <1>1, Busy DEF PoolInv, Progress
<1>3. ASSUME NEW r \in Group(k)
      PROVE  /\ new[r] \in Entry
             /\ new[r].checked /\ new[r].status # "check_failed"
             /\ TableEntry(r, new[r])
  <2>1. r \in Recs
    BY <1>2, Groups
  <2> QED
    BY <2>1, ComparedEntry
<1>4. new \in [Group(k) -> Entry]
  BY <1>3
<1> HIDE DEF new, more
<1>5. /\ rec' \in [Recs -> Entry]
      /\ \A r \in Group(k) : rec'[r] = new[r]
      /\ \A r \in Recs \ Group(k) : rec'[r] = rec[r]
  BY <1>1, <1>2, <1>4, Written DEF PoolInv
<1>6. /\ Settled' = Settled \cup {k}
      /\ Unchecked' = Unchecked \ {k}
      /\ Failed' = Failed
  <2>1. \A r \in Group(k) : rec'[r].checked /\ rec'[r].status # "check_failed"
    BY <1>3, <1>5
  <2>2. /\ Settled' = Settled \cup {k}
        /\ Unchecked' = Unchecked \ {k}
        /\ Failed' = Failed \ {k}
    BY <1>1, <1>2, <2>1, BecomesSettled
  <2>3. k \notin Failed
    BY <1>2, Exclusive
  <2> QED
    BY <2>2, <2>3
<1>7. TypeOK'
  BY <1>1, <1>5 DEF PoolInv, TypeOK, Entry
<1>8. Table'
  BY <1>2, <1>3, <1>5, TableKept DEF PoolInv
<1>9. CASE more
  <2>1. at' = [at EXCEPT ![w] = "latest"] /\ job' = job
    BY <1>1, <1>9 DEF PoolInv, TypeOK
  <2>2. Ownership' /\ End'
    BY <1>1, <2>1 DEF PoolInv, TypeOK, Ownership, End
  <2>3. Progress'
    <3>1. \A v \in Workers : v # w => at'[v] = at[v] /\ job[v] # k
      BY <1>2, <2>1 DEF PoolInv, TypeOK, Ownership
    <3>2. at'[w] = "latest"
      BY <2>1 DEF PoolInv, TypeOK
    <3> QED
      BY <1>1, <1>2, <1>6, <2>1, <3>1, <3>2 DEF PoolInv, Progress
  <2>4. Texts'
    <3>1. Held' = Held
      BY <2>1 DEF Held
    <3>2. Skipped' = Skipped
      BY <1>1, <1>2, <1>6, <3>1 DEF Skipped
    <3> QED
      BY <1>1, <1>6, <3>1, <3>2 DEF PoolInv, Texts
  <2> QED
    BY <1>7, <1>8, <2>2, <2>3, <2>4 DEF PoolInv
<1>10. CASE ~more
  <2>1. at' = [at EXCEPT ![w] = "receive"] /\ job' = [job EXCEPT ![w] = None]
    BY <1>1, <1>10
  <2>2. /\ Ownership' /\ End'
        /\ Held' = Held \ {k}
        /\ at'[w] = "receive"
        /\ \A v \in Workers : v # w => at'[v] = at[v] /\ job'[v] = job[v]
        /\ \A v \in Workers : v # w => job[v] # k
    BY <1>1, <2>1, Released DEF PoolInv
  <2>3. Progress'
    BY <1>1, <1>2, <1>6, <2>2 DEF PoolInv, Progress
  <2>4. Skipped' = Skipped
    BY <1>1, <1>2, <1>6, <2>2 DEF Skipped
  <2>5. Texts'
    BY <1>1, <1>2, <1>6, <2>2, <2>4, Exclusive DEF PoolInv, Texts
  <2> QED
    BY <1>7, <1>8, <2>2, <2>3, <2>5 DEF PoolInv
<1> QED
  BY <1>9, <1>10

(* A newer tag, noted for one record.                                       *)
LEMMA NotedEntry ==
  ASSUME NEW r \in Recs, NEW e \in Entry, e.checked, e.status # "check_failed",
         TableEntry(r, e)
  PROVE  LET n == [e EXCEPT !.latest = TRUE,
                            !.status = IF @ = "up_to_date" /\ TagKind[JobOf[r]] = "version"
                                         THEN "update_available" ELSE @]
         IN /\ n \in Entry
            /\ n.checked /\ n.status # "check_failed"
            /\ TableEntry(r, n)
BY DEF Entry, Status, TableEntry

LEMMA LatestFoundInv ==
  ASSUME PoolInv, NEW w \in Workers, LatestFound(w)
  PROVE  PoolInv'
<1> DEFINE k == job[w]
           new == [r \in Group(k) |->
                     [rec[r] EXCEPT !.latest = TRUE,
                        !.status = IF @ = "up_to_date" /\ TagKind[k] = "version"
                                     THEN "update_available" ELSE @]]
<1>1. /\ at[w] = "latest"
      /\ Update(k, new)
      /\ at' = [at EXCEPT ![w] = "receive"]
      /\ job' = [job EXCEPT ![w] = None]
      /\ UNCHANGED <<pending, closed, scanErrors, cancelled, returned>>
  BY DEF LatestFound
<1>2. /\ k \in Jobs /\ k \in Held /\ k \notin pending
      /\ k \in Settled
  BY <1>1, Busy DEF PoolInv, Progress
<1>3. ASSUME NEW r \in Group(k)
      PROVE  /\ new[r] \in Entry
             /\ new[r].checked /\ new[r].status # "check_failed"
             /\ TableEntry(r, new[r])
  <2>1. r \in Recs /\ k = JobOf[r]
    BY <1>2, Groups
  <2>2. rec[r] \in Entry /\ rec[r].checked /\ rec[r].status # "check_failed"
    BY <1>2, <2>1 DEF PoolInv, TypeOK, Entry, Settled
  <2>3. TableEntry(r, rec[r])
    BY <2>1 DEF PoolInv, Table
  <2> QED
    BY <2>1, <2>2, <2>3, NotedEntry
<1>4. new \in [Group(k) -> Entry]
  BY <1>3
<1> HIDE DEF new
<1>5. /\ rec' \in [Recs -> Entry]
      /\ \A r \in Group(k) : rec'[r] = new[r]
      /\ \A r \in Recs \ Group(k) : rec'[r] = rec[r]
  BY <1>1, <1>2, <1>4, Written DEF PoolInv
<1>6. /\ Settled' = Settled
      /\ Unchecked' = Unchecked
      /\ Failed' = Failed
  <2>1. /\ Settled' = Settled \cup {k}
        /\ Unchecked' = Unchecked \ {k}
        /\ Failed' = Failed \ {k}
    BY <1>1, <1>2, <1>3, <1>5, BecomesSettled
  <2>2. k \notin Unchecked /\ k \notin Failed
    BY <1>2, Exclusive
  <2> QED
    BY <1>2, <2>1, <2>2
<1>7. /\ Ownership' /\ End'
      /\ Held' = Held \ {k}
      /\ at'[w] = "receive"
      /\ \A v \in Workers : v # w => at'[v] = at[v] /\ job'[v] = job[v]
  BY <1>1, Released DEF PoolInv
<1>8. TypeOK'
  BY <1>1, <1>5 DEF PoolInv, TypeOK, Entry
<1>9. Table'
  BY <1>2, <1>3, <1>5, TableKept DEF PoolInv
<1>10. Progress'
  BY <1>1, <1>6, <1>7 DEF PoolInv, Progress
<1>11. Skipped' = Skipped
  BY <1>1, <1>2, <1>6, <1>7, Exclusive DEF Skipped
<1>12. Texts'
  BY <1>1, <1>2, <1>6, <1>7, <1>11, Exclusive DEF PoolInv, Texts
<1> QED
  BY <1>7, <1>8, <1>9, <1>10, <1>12 DEF PoolInv

-----------------------------------------------------------------------------
(* The theorems.                                                            *)

LEMMA NextInv == PoolInv /\ [Next]_vars => PoolInv'
<1> SUFFICES ASSUME PoolInv, [Next]_vars
             PROVE  PoolInv'
  OBVIOUS
<1>1. CASE Sender
  BY <1>1, SendInv, CloseInv, ReturnInv DEF Sender
<1>2. ASSUME NEW w \in Workers, Worker(w)
      PROVE  PoolInv'
  BY <1>2, LeaveInv, LookUpInv, SkipInv, LookupFailsInv, LookupAnswersInv,
     LatestFoundInv, LatestNotFoundInv, ReportInv
  DEF Worker
<1>3. CASE UNCHANGED vars
  <2> USE <1>3 DEF vars
  <2>1. TypeOK' /\ Ownership' /\ End'
    BY DEF PoolInv, TypeOK, Ownership, End
  <2>2. Progress' /\ Table'
    BY SameRecords DEF PoolInv, Progress
  <2>3. Texts'
    BY SameRecords DEF PoolInv, Texts, Skipped, Held
  <2> QED
    BY <2>1, <2>2, <2>3 DEF PoolInv
<1> QED
  BY <1>1, <1>2, <1>3, CancelInv DEF Next, Done

LEMMA Invariance == Spec => []PoolInv
BY InitInv, NextInv, PTL DEF Spec

(* The variables keep their types, whatever the records, groups and number  *)
(* of workers (checkRecords).                                               *)
THEOREM TypeCorrect == Spec => []TypeOK
<1>1. PoolInv => TypeOK
  BY DEF PoolInv
<1> QED
  BY <1>1, Invariance, PTL

(* The README's status definitions hold of every settled record with a tag  *)
(* when checkRecords returns, for any digests and answers.                  *)
THEOREM SettledTheorem == Spec => []SettledByTable
<1>1. PoolInv => SettledByTable
  BY DEF PoolInv, Table, TableEntry, SettledByTable
<1> QED
  BY <1>1, Invariance, PTL

(* The verdict the caller sees of a record whose group stands so.           *)
LEMMA VerdictOfGroup ==
  ASSUME Progress, NEW r \in Recs
  PROVE  /\ JobOf[r] \in Jobs
         /\ Verdict(r) = IF JobOf[r] \in Unchecked THEN "unchecked"
                         ELSE IF JobOf[r] \in Failed THEN "failed" ELSE "settled"
<1>1. JobOf[r] \in Jobs /\ r \in Group(JobOf[r])
  BY Groups
<1>2. JobOf[r] \in Unchecked \cup Failed \cup Settled
  BY <1>1 DEF Progress
<1> QED
  BY <1>1, <1>2 DEF Verdict, Unchecked, Failed, Settled

(* The abstract state of the contract.                                      *)
verdictBar == [r \in Recs |-> IF returned THEN Verdict(r) ELSE "unchecked"]
textsBar == IF returned THEN scanErrors ELSE {}

(* Returning is the contract's one step: nobody holds a group any more.     *)
LEMMA ReturnRefines ==
  ASSUME PoolInv, Return
  PROVE  Contract!Return
<1> DEFINE of == [j \in Jobs |-> IF j \in Unchecked THEN "unchecked"
                                 ELSE IF j \in Failed THEN "failed" ELSE "settled"]
           ctx == scanErrors \cap {CtxDone}
<1>1. ~returned /\ returned' /\ UNCHANGED <<rec, scanErrors, cancelled>>
  BY DEF Return, PoolInv, TypeOK
<1>2. Held = {}
  BY NamesAssumption DEF Return, PoolInv, Ownership, Held
<1>3. of \in [Jobs -> {"unchecked", "failed", "settled"}] /\ ctx \in SUBSET {CtxDone}
  OBVIOUS
<1>4. /\ {j \in Jobs : of[j] = "unchecked"} = Unchecked
      /\ {j \in Jobs : of[j] = "failed"} = Failed
  BY Exclusive
<1>5. Unchecked # {} => cancelled
  BY <1>2 DEF Return, PoolInv, End, Texts, Skipped
<1>6. Unchecked = {} => ctx = {}
  BY DEF PoolInv, Texts, Skipped
<1>7. verdictBar' = [r \in Recs |-> of[JobOf[r]]]
  <2>1. \A r \in Recs : Verdict(r)' = Verdict(r)
    BY <1>1 DEF Verdict
  <2>2. \A r \in Recs : Verdict(r) = of[JobOf[r]]
    BY VerdictOfGroup DEF PoolInv
  <2> QED
    BY <1>1, <2>1, <2>2 DEF verdictBar
<1>8. textsBar' = Failed \cup ctx
  BY <1>1, <1>2 DEF PoolInv, Texts, textsBar
<1> HIDE DEF of, ctx
<1> QED
  BY <1>1, <1>3, <1>4, <1>5, <1>6, <1>7, <1>8 DEF Contract!Return, verdictBar, textsBar

(* Once it has returned, the pool is still.                                 *)
LEMMA StillAfterReturn ==
  ASSUME PoolInv, [Next]_vars, returned
  PROVE  UNCHANGED vars \/ Cancel
<1>1. ASSUME NEW w \in Workers PROVE ~Worker(w)
  BY DEF PoolInv, End, Worker, Leave, LookUp, Skip, LookupFails, LookupAnswers,
         LatestFound, LatestNotFound, Report
<1>2. ~Sender
  BY DEF PoolInv, End, Sender, Send, Close, Return
<1> QED
  BY <1>1, <1>2 DEF Next, Done

(* The steps before that leave what the caller sees alone.                  *)
LEMMA HiddenBeforeReturn ==
  ASSUME ~returned, Next, ~Return, ~Cancel
  PROVE  UNCHANGED <<returned, cancelled>>
BY DEF Next, Sender, Send, Close, Worker, Leave, LookUp, Skip, LookupFails,
       LookupAnswers, LatestFound, LatestNotFound, Report, Done

(* The pool implements the contract the scan relies on, with any number of  *)
(* records, groups and workers and wherever the context is done: the one    *)
(* atomic step ScanLifecycle takes for the check of its records is sound    *)
(* (checkRecords and checkRecordGroup).                                     *)
THEOREM ImplementsContract == Spec => KeepsContract
<1>1. Init => Contract!Init
  BY DEF Init, Contract!Init
<1>2. PoolInv /\ [Next]_vars => [Contract!Next]_(Contract!vars)
  <2> SUFFICES ASSUME PoolInv, [Next]_vars
               PROVE  Contract!Next \/ UNCHANGED Contract!vars
    OBVIOUS
  <2>1. CASE UNCHANGED vars
    BY <2>1 DEF vars, Contract!vars, Verdict
  <2>2. CASE Cancel
    BY <2>2 DEF Cancel, Contract!Next, Contract!Cancel, Verdict
  <2>3. CASE Return
    BY <2>3, ReturnRefines DEF Contract!Next
  <2>4. CASE returned
    BY <2>1, <2>2, <2>4, StillAfterReturn
  <2>5. CASE ~returned /\ Next /\ ~Return /\ ~Cancel
    BY <2>5, HiddenBeforeReturn DEF Contract!vars
  <2> QED
    BY <2>1, <2>2, <2>3, <2>4, <2>5
<1> QED
  BY <1>1, <1>2, Invariance, PTL DEF Spec, KeepsContract, Contract!Spec

(* The part of PoolReturns that is no liveness.  Of a group there are four   *)
(* steps to take: send it, begin it, look it up, and finish it.              *)
Ahead(p) == IF p = "received" THEN 2..4 ELSE IF p = "lookup" THEN 3..4 ELSE {4}
GroupSteps ==
  {jk \in Jobs \X (1..4) :
     jk[1] \in pending \/ \E w \in Workers : job[w] = jk[1] /\ jk[2] \in Ahead(at[w])}
Here == {w \in Workers : at[w] # "gone"}

WindsDown ==
  /\ GroupSteps' \subseteq GroupSteps /\ Here' \subseteq Here
  /\ (closed => closed') /\ (returned => returned')
  /\ \/ GroupSteps' # GroupSteps \/ Here' # Here
     \/ closed' # closed \/ returned' # returned

LEMMA WorkersFinite == IsFiniteSet(Workers) /\ Workers # {}
<1>1. IsFiniteSet(Jobs) /\ Cardinality(Jobs) \in Nat
  BY PoolAssumption, FS_CardinalityType
<1> DEFINE n == ScanWorkerCount(Cardinality(Jobs))
<1>2. n \in Nat /\ n >= 1
  BY <1>1, PoolAssumption DEF ScanWorkerCount
<1> HIDE DEF n
<1>3. Workers = 1..n
  BY DEF n, Workers
<1>4. IsFiniteSet(1..n) /\ 1 \in 1..n
  BY <1>2, FS_Interval
<1> QED BY <1>3, <1>4

(* A worker that goes on with its group, or is done with it.                *)
LEMMA GroupGoesOn ==
  ASSUME PoolInv, NEW w \in Workers, at[w] \notin {"receive", "gone"},
         NEW p, at' = [at EXCEPT ![w] = p], p # "gone", UNCHANGED <<pending, closed, returned>>,
         \/ p = "receive" /\ job' = [job EXCEPT ![w] = None]
         \/ p # "receive" /\ UNCHANGED job /\ Ahead(p) \subseteq Ahead(at[w])
            /\ Ahead(p) # Ahead(at[w])
  PROVE  WindsDown
<1>1. /\ job[w] \in Jobs /\ job[w] \notin pending
      /\ \A v \in Workers : v # w => job[v] # job[w]
  BY Busy DEF PoolInv, Ownership
<1>2. /\ at'[w] = p /\ \A v \in Workers : v # w => at'[v] = at[v] /\ job'[v] = job[v]
      /\ job'[w] = IF p = "receive" THEN None ELSE job[w]
  BY DEF PoolInv, TypeOK
<1>3. Here' = Here
  BY <1>2 DEF Here
<1>4. \A q : 4 \in Ahead(q) /\ Ahead(q) \subseteq 1..4
  BY DEF Ahead
<1>5. PICK k \in Ahead(at[w]) : p # "receive" => k \notin Ahead(p)
  BY <1>4
<1>6. GroupSteps' \subseteq GroupSteps
  <2> SUFFICES ASSUME NEW j \in Jobs, NEW i \in 1..4, j \notin pending,
                      NEW v \in Workers, job'[v] = j, i \in Ahead(at'[v])
               PROVE  job[v] = j /\ i \in Ahead(at[v])
    BY DEF GroupSteps
  <2>1. None \notin Jobs
    BY NamesAssumption
  <2> QED BY <1>2, <2>1
<1>7. <<job[w], k>> \in GroupSteps /\ <<job[w], k>> \notin GroupSteps'
  <2>1. <<job[w], k>> \in Jobs \X (1..4) /\ k \in Ahead(at[w])
    BY <1>1, <1>4, <1>5
  <2>2. \A v \in Workers : job'[v] = job[w] => k \notin Ahead(at'[v])
    BY <1>1, <1>2, <1>5, NamesAssumption
  <2> QED BY <1>1, <2>1, <2>2 DEF GroupSteps
<1> QED BY <1>3, <1>6, <1>7 DEF WindsDown

LEMMA SendWindsDown ==
  ASSUME PoolInv, NEW j \in Jobs, NEW w \in Workers, Send(j, w)
  PROVE  WindsDown
<1>1. /\ j \in pending /\ pending' = pending \ {j} /\ UNCHANGED <<closed, returned>>
      /\ at[w] = "receive" /\ at'[w] = "received" /\ job'[w] = j
      /\ \A v \in Workers : v # w => at'[v] = at[v] /\ job'[v] = job[v]
  BY DEF Send, PoolInv, TypeOK
<1>2. Here' = Here
  BY <1>1 DEF Here
<1>3. \A v \in Workers : job[v] # j
  BY <1>1 DEF PoolInv, Ownership
<1>4. GroupSteps' \subseteq GroupSteps
  BY <1>1 DEF GroupSteps
<1>5. <<j, 1>> \in GroupSteps /\ <<j, 1>> \notin GroupSteps'
  <2>1. \A p : 1 \notin Ahead(p)
    BY DEF Ahead
  <2> QED BY <1>1, <2>1 DEF GroupSteps
<1> QED BY <1>1, <1>2, <1>4, <1>5 DEF WindsDown

LEMMA PoolSteps ==
  ASSUME PoolInv, Next, cancelled' = cancelled
  PROVE  WindsDown \/ UNCHANGED vars
<1>1. CASE Sender
  <2>1. ASSUME NEW j \in Jobs, NEW w \in Workers, Send(j, w) PROVE WindsDown
    BY <2>1, SendWindsDown
  <2>2. CASE Close
    BY <2>2 DEF Close, WindsDown, GroupSteps, Here, PoolInv, TypeOK
  <2>3. CASE Return
    BY <2>3 DEF Return, WindsDown, GroupSteps, Here, PoolInv, TypeOK
  <2> QED BY <1>1, <2>1, <2>2, <2>3 DEF Sender
<1>2. ASSUME NEW w \in Workers, Worker(w) PROVE WindsDown
  <2>1. CASE Leave(w)
    <3>1. /\ UNCHANGED <<pending, job, closed, returned>> /\ at[w] = "receive" /\ at'[w] = "gone"
          /\ \A v \in Workers : v # w => at'[v] = at[v]
      BY <2>1 DEF Leave, PoolInv, TypeOK
    <3>2. job[w] = None
      BY <3>1 DEF PoolInv, Ownership
    <3>3. GroupSteps' = GroupSteps
      BY <3>1, <3>2, NamesAssumption DEF GroupSteps
    <3>4. Here' \subseteq Here /\ w \in Here /\ w \notin Here'
      BY <3>1 DEF Here
    <3> QED BY <3>1, <3>3, <3>4 DEF WindsDown
  <2>2. CASE ~Leave(w)
    <3>1. at[w] \in {"received", "lookup", "latest", "report"}
          /\ UNCHANGED <<pending, closed, returned>>
      BY <1>2, <2>2 DEF Worker, LookUp, Skip, LookupFails, LookupAnswers, LatestFound,
                        LatestNotFound, Report
    <3>2. PICK p \in {"receive", "lookup", "latest", "report"} :
            /\ at' = [at EXCEPT ![w] = p]
            /\ \/ p = "receive" /\ job' = [job EXCEPT ![w] = None]
               \/ p = "lookup" /\ at[w] = "received" /\ UNCHANGED job
               \/ p \in {"latest", "report"} /\ at[w] = "lookup" /\ UNCHANGED job
      <4>1. CASE LookUp(w)
        BY <4>1 DEF LookUp
      <4>2. CASE LookupFails(w)
        BY <4>2 DEF LookupFails
      <4>3. CASE Skip(w) \/ LatestFound(w) \/ LatestNotFound(w) \/ Report(w)
        BY <4>3 DEF Skip, LatestFound, LatestNotFound, Report
      <4>4. ASSUME NEW digest \in Digests, NEW index \in Digests \cup {None},
                   LookupAnswers(w, digest, index)
            PROVE  \E p \in {"receive", "latest"} :
                     /\ at' = [at EXCEPT ![w] = p]
                     /\ \/ p = "receive" /\ job' = [job EXCEPT ![w] = None]
                        \/ p = "latest" /\ at[w] = "lookup" /\ UNCHANGED job
        <5> DEFINE more == \E r \in Group(job[w]) :
                     NeedsLatest(TagKind[job[w]], Compared(RunningDigest[r], digest, index))
        <5>1. /\ at[w] = "lookup" /\ at' = [at EXCEPT ![w] = IF more THEN "latest" ELSE "receive"]
              /\ job' = [job EXCEPT ![w] = IF more THEN @ ELSE None]
          BY <4>4 DEF LookupAnswers
        <5> HIDE DEF more
        <5>2. CASE more
          BY <5>1, <5>2 DEF PoolInv, TypeOK
        <5>3. CASE ~more
          BY <5>1, <5>3
        <5> QED BY <5>2, <5>3
      <4> QED BY <1>2, <2>2, <4>1, <4>2, <4>3, <4>4 DEF Worker
    <3>3. p # "receive" => Ahead(p) \subseteq Ahead(at[w]) /\ Ahead(p) # Ahead(at[w])
      BY <3>2 DEF Ahead
    <3> QED BY <3>1, <3>2, <3>3, GroupGoesOn
  <2> QED BY <2>1, <2>2
<1> QED BY <1>1, <1>2 DEF Next, Cancel, Done

(* Every step but the end of the context takes away one of finitely many    *)
(* steps and gives none back, so checkRecords makes at most four for each   *)
(* group, one for each worker and two of its own, whatever is answered.     *)
THEOREM PoolWindsDown ==
  Spec => /\ []( /\ IsFiniteSet(Jobs) /\ IsFiniteSet(Workers)
                 /\ GroupSteps \subseteq Jobs \X (1..4) /\ Here \subseteq Workers )
          /\ [][(cancelled' = cancelled => WindsDown) /\ (cancelled => cancelled')]_vars
<1>1. IsFiniteSet(Jobs) /\ IsFiniteSet(Workers)
  BY PoolAssumption, WorkersFinite
<1>2. GroupSteps \subseteq Jobs \X (1..4) /\ Here \subseteq Workers
  BY DEF GroupSteps, Here
<1>3. PoolInv /\ [Next]_vars => [(cancelled' = cancelled => WindsDown) /\ (cancelled => cancelled')]_vars
  <2> SUFFICES ASSUME PoolInv, Next, ~UNCHANGED vars
               PROVE  (cancelled' = cancelled => WindsDown) /\ (cancelled => cancelled')
    OBVIOUS
  <2>1. cancelled => cancelled'
    BY DEF Next, Sender, Send, Close, Return, Worker, Leave, LookUp, Skip, LookupFails,
           LookupAnswers, LatestFound, LatestNotFound, Report, Cancel, Done, vars
  <2> QED BY <2>1, PoolSteps
<1> QED BY <1>1, <1>2, <1>3, Invariance, PTL DEF Spec

(* The guards of the steps of Sender and Worker.                            *)
MayMove ==
  \/ ~closed /\ (pending = {} \/ cancelled)
  \/ ~closed /\ pending # {} /\ \E w \in Workers : at[w] = "receive"
  \/ closed /\ ~returned /\ \A w \in Workers : at[w] = "gone"
  \/ \E w \in Workers : at[w] \in {"received", "lookup", "latest", "report"}
  \/ closed /\ \E w \in Workers : at[w] = "receive"

(* Until it returns, one of them can be taken: the sender never waits for   *)
(* workers that left, the workers never for a channel nobody closes, with   *)
(* any number of either (checkRecords).                                     *)
THEOREM PoolNeverStuck == Spec => [](returned \/ MayMove)
<1>1. PoolInv => returned \/ MayMove
  <2> SUFFICES ASSUME PoolInv, ~returned PROVE MayMove
    OBVIOUS
  <2>1. PICK w \in Workers : TRUE
    BY WorkersFinite
  <2>2. \A v \in Workers : at[v] \in {"receive", "received", "lookup", "latest", "report", "gone"}
    BY DEF PoolInv, TypeOK
  <2>3. \A v \in Workers : at[v] = "gone" => closed
    BY DEF PoolInv, End
  <2> QED BY <2>1, <2>2, <2>3 DEF MayMove, PoolInv, TypeOK
<1> QED BY <1>1, Invariance, PTL

-----------------------------------------------------------------------------
(* RegistryLookups.                                                         *)

LEMMA Least ==
  ASSUME NEW T, T \subseteq Nat, T # {}
  PROVE  \E i \in T : \A k \in T : i <= k
<1> DEFINE R == {ss \in Nat \X Nat : ss[1] < ss[2]}
<1>1. IsWellFoundedOn(R, Nat)
  BY NatLessThanWellFounded DEF OpToRel
<1> HIDE DEF R
<1>2. PICK i \in T : \A k \in T : ~(<<k, i>> \in R)
  BY <1>1, WFMin, Zenon
<1>3. ASSUME NEW k \in T
      PROVE  i <= k
  <2>1. i \in Nat /\ k \in Nat
    OBVIOUS
  <2>2. ~(<<k, i>> \in R)
    BY <1>2
  <2>3. ~(k < i)
    BY <2>1, <2>2 DEF R
  <2> QED
    BY <2>1, <2>3
<1> QED
  BY <1>3

-----------------------------------------------------------------------------
(* References and manifests.                                                *)

LEMMA Positions ==
  ASSUME NEW S, NEW q \in Seq(S)
  PROVE  DOMAIN q \subseteq Nat \ {0} /\ \A i \in DOMAIN q : q[i] \in S
OBVIOUS

LEMMA Manifests ==
  ASSUME NEW d \in Digests
  PROVE  /\ Contents[d].entries \in Seq([platform : STRING, digest : Digests])
         /\ DOMAIN Contents[d].entries \subseteq Nat \ {0}
         /\ \A i \in DOMAIN Contents[d].entries : Contents[d].entries[i].digest \in Digests
<1> DEFINE E == [platform : STRING, digest : Digests]
           q == Contents[d].entries
<1>1. q \in Seq(E)
  BY LookupAssumption
<1>2. /\ DOMAIN q \subseteq Nat \ {0}
      /\ \A i \in DOMAIN q : q[i] \in E
  <2> HIDE DEF E, q
  <2> QED
    BY <1>1, Positions, Zenon
<1> QED
  BY <1>1, <1>2

(* The entry taken from an index is the first one for linux/amd64.          *)
LEMMA FromIndex ==
  ASSUME NEW d \in Digests
  PROVE  /\ ResolveFromIndex(d) \in Digests
         /\ \/ ResolveFromIndex(d) = d
            \/ \E i \in DOMAIN Contents[d].entries :
                 Contents[d].entries[i].digest = ResolveFromIndex(d)
         /\ \A i \in DOMAIN Contents[d].entries :
              /\ Contents[d].readable
              /\ Contents[d].entries[i].platform = "linux/amd64"
              /\ \A k \in 1..(i - 1) : Contents[d].entries[k].platform # "linux/amd64"
              => ResolveFromIndex(d) = Contents[d].entries[i].digest
<1> DEFINE T == TargetEntries(d)
           first == CHOOSE i \in T : \A k \in T : i <= k
<1>1. CASE ~Contents[d].readable \/ T = {}
  BY <1>1 DEF ResolveFromIndex, TargetEntries
<1>2. CASE Contents[d].readable /\ T # {}
  <2>1. T \subseteq DOMAIN Contents[d].entries /\ T \subseteq Nat
    BY Manifests DEF TargetEntries
  <2>2. \E i \in T : \A k \in T : i <= k
    BY <1>2, <2>1, Least
  <2>3. first \in T /\ \A k \in T : first <= k
    BY <2>2
  <2>4. ResolveFromIndex(d) = Contents[d].entries[first].digest
    BY <1>2 DEF ResolveFromIndex
  <2>5. ASSUME NEW i \in DOMAIN Contents[d].entries,
               Contents[d].entries[i].platform = "linux/amd64",
               \A k \in 1..(i - 1) : Contents[d].entries[k].platform # "linux/amd64"
        PROVE  i = first
    <3>1. i \in T /\ i \in Nat /\ first \in Nat
      BY <2>1, <2>3, <2>5 DEF TargetEntries
    <3>2. first <= i
      BY <2>3, <3>1
    <3>3. first \notin 1..(i - 1)
      BY <2>3, <2>5 DEF TargetEntries
    <3>4. first >= 1
      BY <2>1, <2>3, Manifests
    <3> QED
      BY <3>1, <3>2, <3>3, <3>4
  <2> QED
    BY <2>1, <2>3, <2>4, <2>5, Manifests
<1> QED
  BY <1>1, <1>2

-----------------------------------------------------------------------------
(* The invariant.                                                           *)

Registries ==
  /\ tags \in [DOMAIN StartTags -> Digests]
  /\ pushes \in 0..MaxPushes
  /\ was \in [Jobs -> SUBSET Digests]
  /\ \A j \in Jobs : Names(j) \subseteq was[j]

LeadsHome(host) ==
  host # None =>
    \A h \in Hosts : IsOpenShiftInternalRegistry(h) => RegistryAt[host] = RegistryAt[h]

Questions ==
  /\ LeadsHome(routeHost)
  /\ routeAuth \in {Token, None}
  /\ routeHost = None => routeAuth = None
  /\ sent \subseteq {Lookup(j) : j \in Jobs}

Manifest(e) == IF e.index # None THEN e.index ELSE e.registry

(* What JudgedByItsImage and FalseUpdatesExplained say of one record.       *)
JudgedEntry(r, e) ==
  e.registry # None =>
    /\ Manifest(e) \in was[JobOf[r]]
    /\ e.status = "up_to_date" =>
         \/ RunningDigest[r] = Manifest(e)
         \/ \E i \in DOMAIN Contents[Manifest(e)].entries :
              Contents[Manifest(e)].entries[i].digest = RunningDigest[r]

ExplainedEntry(r, e) ==
  e.status = "update_available" /\ ~e.latest /\ e.index # None =>
    LET listed == Contents[e.index].entries
    IN \A i \in DOMAIN listed : listed[i].digest = RunningDigest[r] =>
         \/ ~Contents[e.index].readable
         \/ listed[i].platform # "linux/amd64"
         \/ \E k \in 1..(i - 1) : listed[k].platform = "linux/amd64"

Entries == \A r \in Recs : JudgedEntry(r, rec[r]) /\ ExplainedEntry(r, rec[r])

LookupsInv == PoolInv /\ Registries /\ Questions /\ Entries

(* The route found, if any, leads to the registry of the internal names.    *)
LEMMA RouteFound ==
  ASSUME NEW answer \in RouteAnswers
  PROVE  LeadsHome(OpenShiftImageRegistryRouteHost(answer))
<1> DEFINE routes == answer.list.routes
           U == {i \in DOMAIN routes : routes[i].service = "image-registry" /\ routes[i].host # None}
           first == CHOOSE i \in U : \A k \in U : i <= k
<1>1. CASE answer.get.ok
  BY <1>1, RouteAssumption DEF OpenShiftImageRegistryRouteHost, LeadsHome
<1>2. CASE ~answer.get.ok /\ (~answer.list.ok \/ U = {})
  BY <1>2 DEF OpenShiftImageRegistryRouteHost, LeadsHome
<1>3. CASE ~answer.get.ok /\ answer.list.ok /\ U # {}
  <2>1. U \subseteq Nat
    <3> DEFINE S == [service : STRING, host : Hosts \cup {None}]
    <3>1. routes \in Seq(S)
      BY RouteAssumption
    <3> HIDE DEF S, routes
    <3>2. DOMAIN routes \subseteq Nat \ {0}
      BY <3>1, Positions, Zenon
    <3> QED
      BY <3>2
  <2>2. \E i \in U : \A k \in U : i <= k
    <3> HIDE DEF U
    <3> QED
      BY <1>3, <2>1, Least
  <2>3. first \in U
    <3> HIDE DEF U
    <3> QED
      BY <2>2, Zenon
  <2>4. OpenShiftImageRegistryRouteHost(answer) = routes[first].host
    BY <1>3 DEF OpenShiftImageRegistryRouteHost
  <2>5. first \in DOMAIN routes /\ routes[first].service = "image-registry"
    BY <2>3
  <2> HIDE DEF first
  <2> QED
    BY <2>4, <2>5, RouteAssumption DEF LeadsHome
<1> QED
  BY <1>1, <1>2, <1>3

(* The reference looked up names the manifest the image itself names: the   *)
(* route changes the host alone, and only to one of the same registry.      *)
LEMMA SameTarget ==
  ASSUME LeadsHome(routeHost), NEW j \in Jobs
  PROVE  Get(Parse(ImageRef(Image[j], routeHost))) = Names(j)
<1> DEFINE ref == Parse(ImageRef(Image[j], routeHost))
           own == Parse(Image[j])
<1>1. ref.repository = own.repository /\ ref.tag = own.tag /\ ref.digest = own.digest
  BY LookupAssumption DEF Parse, ImageRef, IsOpenShiftInternalRegistry, StripRegistryPort, DockerHub
<1>2. ~IsOpenShiftInternalRegistry(DockerHub)
  BY DEF IsOpenShiftInternalRegistry, StripRegistryPort, DockerHub
<1>3. ref.registry # own.registry =>
        /\ routeHost # None /\ ref.registry = routeHost
        /\ own.registry \in Hosts /\ IsOpenShiftInternalRegistry(own.registry)
  BY <1>2, LookupAssumption DEF Parse, ImageRef
<1> HIDE DEF ref, own
<1>4. RegistryAt[ref.registry] = RegistryAt[own.registry]
  BY <1>3 DEF LeadsHome
<1>5. Get(ref) = Get(own)
  BY <1>1, <1>4 DEF Get
<1> QED
  BY <1>5 DEF Names, ref, own

(* What an image names is a digest.                                         *)
LEMMA Served ==
  ASSUME tags \in [DOMAIN StartTags -> Digests], NEW j \in Jobs
  PROVE  Names(j) \subseteq Digests
<1>1. Parse(Image[j]).digest \in Digests \cup {None}
  BY LookupAssumption DEF Parse
<1> QED
  BY <1>1 DEF Names, Get

LEMMA Answered ==
  ASSUME Registries, Questions, NEW j \in Jobs, NEW a \in ResolveWithAuth(j)
  PROVE  /\ a.digest \in Digests /\ a.index \in Digests \cup {None}
         /\ a.index = None => a.digest \in Names(j)
         /\ a.index # None => a.index \in Names(j) /\ a.digest = ResolveFromIndex(a.index)
<1>1. PICK d \in Get(Parse(ImageRef(Image[j], routeHost))) :
        a = IF Contents[d].index THEN [digest |-> ResolveFromIndex(d), index |-> d]
                                 ELSE [digest |-> d, index |-> None]
  BY DEF ResolveWithAuth
<1>2. d \in Names(j)
  BY SameTarget DEF Questions
<1>3. d \in Digests /\ ResolveFromIndex(d) \in Digests
  BY <1>2, Served, FromIndex DEF Registries
<1> QED
  BY <1>1, <1>2, <1>3, NamesAssumption

(* A record that is given the answer for its image.                         *)
LEMMA AnsweredEntry ==
  ASSUME Registries, Questions, NEW r \in Recs, NEW a \in ResolveWithAuth(JobOf[r])
  PROVE  LET e == [status |-> Compared(RunningDigest[r], a.digest, a.index), checked |-> TRUE,
                   registry |-> a.digest, index |-> a.index, latest |-> FALSE]
         IN JudgedEntry(r, e) /\ ExplainedEntry(r, e)
<1> DEFINE j == JobOf[r]
           e == [status |-> Compared(RunningDigest[r], a.digest, a.index), checked |-> TRUE,
                 registry |-> a.digest, index |-> a.index, latest |-> FALSE]
           running == RunningDigest[r]
<1>1. j \in Jobs /\ running \in Digests \cup {None}
  BY RecordAssumption
<1>2. /\ a.digest \in Digests /\ a.index \in Digests \cup {None}
      /\ a.index = None => a.digest \in Names(j)
      /\ a.index # None => a.index \in Names(j) /\ a.digest = ResolveFromIndex(a.index)
  BY <1>1, Answered
<1>3. Manifest(e) \in was[j]
  BY <1>1, <1>2 DEF Manifest, Registries
<1>4. e.status = "up_to_date" => running = a.digest \/ (running = a.index /\ a.index # None)
  BY DEF Compared, DigestMatches
<1>5. e.status = "update_available" => running # a.digest /\ running # None
  BY DEF Compared, DigestMatches
<1>6. a.index # None =>
        /\ \/ a.digest = a.index
           \/ \E i \in DOMAIN Contents[a.index].entries :
                Contents[a.index].entries[i].digest = a.digest
        /\ \A i \in DOMAIN Contents[a.index].entries :
             /\ Contents[a.index].readable
             /\ Contents[a.index].entries[i].platform = "linux/amd64"
             /\ \A k \in 1..(i - 1) : Contents[a.index].entries[k].platform # "linux/amd64"
             => a.digest = Contents[a.index].entries[i].digest
  BY <1>2, FromIndex
<1>7. JudgedEntry(r, e)
  <2>1. Manifest(e) = IF a.index # None THEN a.index ELSE a.digest
    BY DEF Manifest
  <2>2. CASE a.index = None
    BY <1>3, <1>4, <2>1, <2>2 DEF JudgedEntry
  <2>3. CASE a.index # None
    <3>1. Manifest(e) = a.index
      BY <2>1, <2>3
    <3> HIDE DEF e
    <3> QED
      BY <1>3, <1>4, <1>6, <2>3, <3>1 DEF JudgedEntry
  <2> QED
    BY <2>2, <2>3
<1>8. ExplainedEntry(r, e)
  <2>1. e.index = a.index
    OBVIOUS
  <2> HIDE DEF e
  <2>2. ASSUME e.status = "update_available", a.index # None,
               NEW i \in DOMAIN Contents[a.index].entries,
               Contents[a.index].entries[i].digest = running
        PROVE  \/ ~Contents[a.index].readable
               \/ Contents[a.index].entries[i].platform # "linux/amd64"
               \/ \E k \in 1..(i - 1) : Contents[a.index].entries[k].platform = "linux/amd64"
    <3>1. a.digest # Contents[a.index].entries[i].digest
      BY <1>5, <2>2
    <3> QED
      BY <1>6, <2>2, <3>1
  <2> QED
    BY <2>1, <2>2, Zenon DEF ExplainedEntry
<1> QED
  BY <1>7, <1>8

LEMMA LookupsInitInv == LookupsInit => LookupsInv
<1> SUFFICES ASSUME LookupsInit PROVE LookupsInv
  OBVIOUS
<1>1. PoolInv
  BY InitInv DEF LookupsInit
<1>2. Registries
  <2>1. tags \in [DOMAIN StartTags -> Digests]
    BY LookupAssumption DEF LookupsInit
  <2>2. \A j \in Jobs : Names(j) \subseteq Digests
    BY <2>1, Served
  <2>3. pushes \in 0..MaxPushes
    BY LookupAssumption DEF LookupsInit
  <2> QED
    BY <2>1, <2>2, <2>3 DEF LookupsInit, Registries
<1>3. Questions
  <2>1. PICK answer \in RouteAnswers, tokenFile \in {"missing", "blank", "text"} :
          RegistryLookup(answer, tokenFile)
    BY DEF LookupsInit
  <2>2. LeadsHome(routeHost)
    BY <2>1, RouteFound DEF RegistryLookup, LeadsHome
  <2> QED
    BY <2>1, <2>2 DEF LookupsInit, RegistryLookup, Questions
<1>4. Entries
  BY DEF LookupsInit, Init, Entries, JudgedEntry, ExplainedEntry
<1> QED
  BY <1>1, <1>2, <1>3, <1>4 DEF LookupsInv

(* Every step is one of the pool's, or leaves it alone.                     *)
LEMMA StepIsPool ==
  ASSUME LookupsInv, [LookupsNext]_allVars
  PROVE  [Next]_vars
<1>1. CASE SenderStep
  BY <1>1 DEF SenderStep, Next
<1>2. ASSUME NEW w \in Workers, WorkerStep(w)
      PROVE  Worker(w)
  <2>1. CASE Asks(w) \/ LatestTagWithAuth(w) \/ Elsewhere(w)
    BY <2>1 DEF Asks, LatestTagWithAuth, Elsewhere, Worker
  <2>2. CASE Resolved(w)
    <3>1. job[w] \in Jobs
      BY <2>2, Busy DEF Resolved, LookupsInv, PoolInv
    <3> QED
      BY <2>2, <3>1, Answered DEF Resolved, Worker, LookupsInv
  <2> QED
    BY <1>2, <2>1, <2>2 DEF WorkerStep
<1>3. CASE \E t \in DOMAIN StartTags, d \in Pushed : Push(t, d)
  BY <1>3 DEF Push
<1>4. CASE (Cancel \/ Done) /\ UNCHANGED lookupVars
  BY <1>4 DEF Next
<1>5. CASE UNCHANGED allVars
  BY <1>5 DEF allVars
<1> QED
  BY <1>1, <1>2, <1>3, <1>4, <1>5 DEF LookupsNext, Next

LEMMA PushInv ==
  ASSUME LookupsInv, NEW t \in DOMAIN StartTags, NEW d \in Pushed, Push(t, d)
  PROVE  Registries' /\ Questions' /\ Entries'
<1>1. tags' \in [DOMAIN StartTags -> Digests]
  BY LookupAssumption DEF Push, LookupsInv, Registries
<1>2. \A j \in Jobs : Names(j)' \subseteq Digests
  <2> SUFFICES ASSUME NEW j \in Jobs PROVE Names(j)' \subseteq Digests
    OBVIOUS
  <2>1. Parse(Image[j]).digest \in Digests \cup {None}
    BY LookupAssumption DEF Parse
  <2> QED
    BY <1>1, <2>1 DEF Names, Get
<1>3. /\ was' \in [Jobs -> SUBSET Digests]
      /\ \A j \in Jobs : Names(j)' \subseteq was'[j] /\ was[j] \subseteq was'[j]
  BY <1>2 DEF Push, LookupsInv, Registries
<1>4. pushes' \in 0..MaxPushes
  BY LookupAssumption DEF Push, LookupsInv, Registries
<1>5. Questions'
  <2>1. \A j \in Jobs : Lookup(j)' = Lookup(j)
    BY DEF Push, Lookup, Authenticator
  <2> QED
    BY <2>1 DEF Push, LookupsInv, Questions
<1>6. Entries'
  <2>1. rec' = rec
    BY DEF Push, vars
  <2>2. \A r \in Recs : JobOf[r] \in Jobs
    BY RecordAssumption
  <2> QED
    BY <1>3, <2>1, <2>2 DEF LookupsInv, Entries, JudgedEntry, ExplainedEntry
<1> QED
  BY <1>1, <1>3, <1>4, <1>5, <1>6 DEF Registries

(* The steps of the scan leave the registries and the route alone.          *)
LEMMA RegistriesKept ==
  ASSUME LookupsInv, UNCHANGED <<tags, pushes, was, routeHost, routeAuth>>,
         sent' \subseteq sent \cup {Lookup(j) : j \in Jobs}
  PROVE  Registries' /\ Questions'
<1>1. \A j \in Jobs : Lookup(j)' = Lookup(j) /\ Names(j)' = Names(j)
  BY DEF Lookup, Authenticator, Names, Get
<1> QED
  BY <1>1 DEF LookupsInv, Registries, Questions

LEMMA EntriesKept ==
  ASSUME Entries, was' = was, NEW k \in Jobs,
         \A r \in Recs \ Group(k) : rec'[r] = rec[r],
         \A r \in Group(k) : JudgedEntry(r, rec'[r]) /\ ExplainedEntry(r, rec'[r])
  PROVE  Entries'
<1>1. \A r \in Recs : JudgedEntry(r, rec[r]) /\ ExplainedEntry(r, rec[r])
  BY DEF Entries
<1>2. \A r \in Recs : JudgedEntry(r, rec'[r]) /\ ExplainedEntry(r, rec'[r])
  BY <1>1
<1>3. ASSUME NEW r \in Recs
      PROVE  JudgedEntry(r, rec[r])' /\ ExplainedEntry(r, rec[r])'
  <2>1. JudgedEntry(r, rec[r])' <=> JudgedEntry(r, rec'[r])
    BY DEF JudgedEntry
  <2>2. ExplainedEntry(r, rec[r])' <=> ExplainedEntry(r, rec'[r])
    BY DEF ExplainedEntry
  <2> QED
    BY <1>2, <2>1, <2>2
<1> QED
  BY <1>3 DEF Entries

LEMMA WorkerInv ==
  ASSUME LookupsInv, NEW w \in Workers, WorkerStep(w)
  PROVE  Registries' /\ Questions' /\ Entries'
<1> DEFINE k == job[w]
<1>1. CASE Asks(w)
  <2>1. k \in Jobs
    BY <1>1, Busy DEF Asks, LookUp, LookupsInv, PoolInv
  <2>2. rec' = rec /\ was' = was
    BY <1>1 DEF Asks, LookUp
  <2>3. Entries'
    BY <2>2 DEF LookupsInv, Entries, JudgedEntry, ExplainedEntry
  <2> QED
    BY <1>1, <2>1, <2>3, RegistriesKept DEF Asks
<1>2. CASE Resolved(w)
  <2>1. PICK a \in ResolveWithAuth(k) : LookupAnswers(w, a.digest, a.index)
    BY <1>2 DEF Resolved
  <2>2. at[w] = "lookup" /\ UNCHANGED lookupVars
    BY <1>2 DEF Resolved
  <2>3. k \in Jobs
    BY <2>2, Busy DEF LookupsInv, PoolInv
  <2> DEFINE new == [r \in Group(k) |->
                       [status |-> Compared(RunningDigest[r], a.digest, a.index), checked |-> TRUE,
                        registry |-> a.digest, index |-> a.index, latest |-> FALSE]]
  <2>4. Update(k, new)
    BY <2>1 DEF LookupAnswers
  <2>5. ASSUME NEW r \in Group(k)
        PROVE  /\ rec'[r] = new[r]
               /\ JudgedEntry(r, new[r]) /\ ExplainedEntry(r, new[r])
    <3>1. r \in Recs /\ JobOf[r] = k
      BY <2>3, Groups
    <3>2. rec'[r] = new[r]
      BY <2>4, <3>1 DEF Update
    <3> QED
      BY <2>1, <3>1, <3>2, AnsweredEntry DEF LookupsInv
  <2>6. \A r \in Recs \ Group(k) : rec'[r] = rec[r]
    BY <2>4 DEF Update
  <2> HIDE DEF new
  <2>7. Entries'
    BY <2>2, <2>3, <2>5, <2>6, EntriesKept DEF LookupsInv, lookupVars
  <2> QED
    BY <2>2, <2>7, RegistriesKept DEF lookupVars
<1>3. CASE LatestTagWithAuth(w)
  <2>1. at[w] = "latest"
    BY <1>3 DEF LatestTagWithAuth, LatestFound, LatestNotFound
  <2>2. k \in Jobs
    BY <2>1, Busy DEF LookupsInv, PoolInv
  <2>3. Registries' /\ Questions' /\ was' = was
    BY <1>3, <2>2, RegistriesKept DEF LatestTagWithAuth
  <2>4. CASE LatestNotFound(w)
    BY <2>3, <2>4 DEF LatestNotFound, LookupsInv, Entries, JudgedEntry, ExplainedEntry
  <2>5. CASE LatestFound(w)
    <3> DEFINE new == [r \in Group(k) |->
                         [rec[r] EXCEPT !.latest = TRUE,
                            !.status = IF @ = "up_to_date" /\ TagKind[k] = "version"
                                         THEN "update_available" ELSE @]]
    <3>1. Update(k, new)
      BY <2>5 DEF LatestFound
    <3>2. ASSUME NEW r \in Group(k)
          PROVE  JudgedEntry(r, rec'[r]) /\ ExplainedEntry(r, rec'[r])
      <4>1. r \in Recs /\ rec[r] \in Entry
        BY <2>2, Groups DEF LookupsInv, PoolInv, TypeOK, Entry
      <4>2. rec'[r] = new[r]
        BY <3>1, <4>1 DEF Update
      <4>3. /\ rec'[r].registry = rec[r].registry /\ rec'[r].index = rec[r].index
            /\ rec'[r].latest /\ (rec'[r].status = "up_to_date" => rec[r].status = "up_to_date")
        BY <4>1, <4>2 DEF Entry
      <4>4. JudgedEntry(r, rec[r])
        BY <4>1 DEF LookupsInv, Entries
      <4> QED
        BY <4>3, <4>4 DEF JudgedEntry, ExplainedEntry, Manifest
    <3>3. \A r \in Recs \ Group(k) : rec'[r] = rec[r]
      BY <3>1 DEF Update
    <3> QED
      BY <2>2, <2>3, <3>2, <3>3, EntriesKept DEF LookupsInv
  <2> QED
    BY <1>3, <2>3, <2>4, <2>5 DEF LatestTagWithAuth
<1>4. CASE Elsewhere(w)
  <2>1. Registries' /\ Questions' /\ was' = was
    BY <1>4, RegistriesKept DEF Elsewhere, lookupVars
  <2>2. CASE Leave(w) \/ Skip(w) \/ Report(w)
    <3>1. rec' = rec
      BY <2>2 DEF Leave, Skip, Report
    <3> QED
      BY <2>1, <3>1 DEF LookupsInv, Entries, JudgedEntry, ExplainedEntry
  <2>3. CASE LookupFails(w)
    <3> DEFINE new == [r \in Group(k) |->
                         [rec[r] EXCEPT !.status = "check_failed", !.checked = TRUE]]
    <3>1. k \in Jobs /\ Update(k, new)
      BY <2>3, Busy DEF LookupFails, LookupsInv, PoolInv
    <3>2. ASSUME NEW r \in Group(k)
          PROVE  JudgedEntry(r, rec'[r]) /\ ExplainedEntry(r, rec'[r])
      <4>1. r \in Recs /\ rec[r] \in Entry
        BY <3>1, Groups DEF LookupsInv, PoolInv, TypeOK, Entry
      <4>2. rec'[r] = new[r]
        BY <3>1, <4>1 DEF Update
      <4>3. /\ rec'[r].registry = rec[r].registry /\ rec'[r].index = rec[r].index
            /\ rec'[r].status = "check_failed"
        BY <4>1, <4>2 DEF Entry
      <4>4. JudgedEntry(r, rec[r])
        BY <4>1 DEF LookupsInv, Entries
      <4> QED
        BY <4>3, <4>4 DEF JudgedEntry, ExplainedEntry, Manifest
    <3>3. \A r \in Recs \ Group(k) : rec'[r] = rec[r]
      BY <3>1 DEF Update
    <3> QED
      BY <2>1, <3>1, <3>2, <3>3, EntriesKept DEF LookupsInv
  <2> QED
    BY <1>4, <2>1, <2>2, <2>3 DEF Elsewhere
<1> QED
  BY <1>1, <1>2, <1>3, <1>4 DEF WorkerStep

LEMMA LookupsNextInv == LookupsInv /\ [LookupsNext]_allVars => LookupsInv'
<1> SUFFICES ASSUME LookupsInv, [LookupsNext]_allVars
             PROVE  LookupsInv'
  OBVIOUS
<1>1. PoolInv'
  BY StepIsPool, NextInv DEF LookupsInv
<1>2. ASSUME rec' = rec, UNCHANGED lookupVars
      PROVE  Registries' /\ Questions' /\ Entries'
  <2>1. Registries' /\ Questions' /\ was' = was
    BY <1>2, RegistriesKept DEF lookupVars
  <2> QED
    BY <1>2, <2>1 DEF LookupsInv, Entries, JudgedEntry, ExplainedEntry
<1>3. Registries' /\ Questions' /\ Entries'
  <2>1. CASE SenderStep
    BY <1>2, <2>1 DEF SenderStep, Sender, Send, Close, Return
  <2>2. CASE (Cancel \/ Done) /\ UNCHANGED lookupVars
    BY <1>2, <2>2 DEF Cancel, Done, vars
  <2>3. CASE UNCHANGED allVars
    BY <1>2, <2>3 DEF allVars, vars
  <2> QED
    BY <2>1, <2>2, <2>3, WorkerInv, PushInv DEF LookupsNext
<1> QED
  BY <1>1, <1>3 DEF LookupsInv

LEMMA LookupsInvariance == LookupsSpec => []LookupsInv
BY LookupsInitInv, LookupsNextInv, PTL DEF LookupsSpec

-----------------------------------------------------------------------------
(* The theorems.                                                            *)

(* The pool with its lookups is the pool: the answers of a registry are     *)
(* among those CheckPool chooses from, so what is proved of it holds here   *)
(* (checkRecordGroup with ResolveWithAuth in its place).                    *)
THEOREM LookupsArePool == LookupsSpec => Spec
<1>1. LookupsInit => Init
  BY DEF LookupsInit
<1>2. LookupsInv /\ [LookupsNext]_allVars => [Next]_vars
  BY StepIsPool
<1> QED
  BY <1>1, <1>2, LookupsInvariance, PTL DEF LookupsSpec, Spec

(* Every record is judged by what its own image named during the scan, for  *)
(* any references, route and pushes (ResolveWithAuth, imageRef).            *)
THEOREM JudgedTheorem == LookupsSpec => []JudgedByItsImage
<1>1. LookupsInv => JudgedByItsImage
  BY DEF LookupsInv, Entries, JudgedEntry, Manifest, Asked, JudgedByItsImage
<1> QED
  BY <1>1, LookupsInvariance, PTL

(* A container that runs what the index lists for linux/amd64 is never told *)
(* of an update by the digests, whatever else the index lists               *)
(* (resolveFromIndex and digestMatches).                                    *)
THEOREM ExplainedTheorem == LookupsSpec => []FalseUpdatesExplained
<1>1. LookupsInv => FalseUpdatesExplained
  BY DEF LookupsInv, Entries, ExplainedEntry, FalseUpdatesExplained
<1> QED
  BY <1>1, LookupsInvariance, PTL

(* The credentials the docker config has for a host.                        *)
NamesOf(host) == IF host = DockerHub THEN {HubKeys[i] : i \in DOMAIN HubKeys} ELSE {host.name}

LEMMA HubConfig ==
  /\ DockerHubAuthConfig # None =>
       DockerHubAuthConfig \in NamesOf(DockerHub) /\ Filled(DockerHubAuthConfig)
  /\ DockerHubAuthConfig = None => \A key \in NamesOf(DockerHub) : ~Filled(key)
<1> DEFINE T == {i \in DOMAIN HubKeys : Filled(HubKeys[i])}
           first == CHOOSE i \in T : \A k \in T : i <= k
<1>1. DOMAIN HubKeys = 1..3
  BY DEF HubKeys
<1>2. CASE T = {}
  BY <1>2 DEF DockerHubAuthConfig, NamesOf
<1>3. CASE T # {}
  <2>1. \E i \in T : \A k \in T : i <= k
    BY <1>1, <1>3, Least
  <2>2. first \in DOMAIN HubKeys /\ Filled(HubKeys[first])
    <3>1. first \in T
      BY <2>1, Zenon
    <3> QED
      BY <3>1
  <2>3. DockerHubAuthConfig = HubKeys[first]
    BY <1>3 DEF DockerHubAuthConfig
  <2>4. HubKeys[first] \in NamesOf(DockerHub) /\ Filled(HubKeys[first])
    <3> HIDE DEF first
    <3> QED
      BY <2>2 DEF NamesOf
  <2>5. HubKeys[first] # None
    BY <2>4, LookupAssumption DEF Filled
  <2> QED
    BY <2>3, <2>4, <2>5
<1> QED
  BY <1>2, <1>3

LEMMA KeychainOfHost ==
  ASSUME NEW host
  PROVE  /\ Keychain(host) # None => Keychain(host) \in NamesOf(host) /\ Filled(Keychain(host))
         /\ Keychain(host) = None => \A key \in NamesOf(host) : ~Filled(key)
<1>1. \A key : Filled(key) => key # None
  BY LookupAssumption DEF Filled
<1>2. CASE host # DockerHub
  BY <1>1, <1>2 DEF Keychain, DefaultKeychain, NamesOf
<1>3. CASE host = DockerHub /\ DefaultKeychain(host) # None
  <2>1. "https://index.docker.io/v1/" = HubKeys[3] /\ 3 \in DOMAIN HubKeys
    BY DEF HubKeys
  <2> QED
    BY <1>3, <2>1 DEF Keychain, DefaultKeychain, NamesOf
<1>4. CASE host = DockerHub /\ DefaultKeychain(host) = None
  BY <1>4, HubConfig DEF Keychain
<1> QED
  BY <1>2, <1>3, <1>4

LEMMA LookupOf ==
  ASSUME Questions, NEW j \in Jobs
  PROVE  LET l == Lookup(j)
         IN /\ l.credentials \in DOMAIN DockerConfig \cup {Token, None}
            /\ l.host \in {Registry(j), routeHost}
            /\ l.credentials = Token => l.host = routeHost /\ IsOpenShiftInternalRegistry(l.registry)
            /\ l.credentials \notin {Token, None} => l.credentials \in NamesOf(l.host)
            /\ l.credentials = None => \A key \in NamesOf(l.host) : ~Filled(key)
<1> DEFINE auth == Authenticator(Registry(j))
           host == Parse(ImageRef(Image[j], routeHost)).registry
<1>1. /\ Lookup(j).registry = Registry(j) /\ Lookup(j).host = host
      /\ Lookup(j).credentials = IF auth # None THEN auth ELSE Keychain(host)
  BY DEF Lookup, RemoteOptions
<1>2. auth # None => auth = Token /\ routeHost # None /\ IsOpenShiftInternalRegistry(Registry(j))
  BY DEF Questions, Authenticator
<1>3. host = IF routeHost # None /\ IsOpenShiftInternalRegistry(Registry(j))
               THEN routeHost ELSE Registry(j)
  BY LookupAssumption DEF Parse, ImageRef, Registry
<1>4. \A key : Filled(key) => key \in DOMAIN DockerConfig /\ key \notin {Token, None}
  BY LookupAssumption DEF Filled
<1> HIDE DEF auth, host
<1>5. CASE auth # None
  BY <1>1, <1>2, <1>3, <1>5, LookupAssumption
<1>6. CASE auth = None
  <2> DEFINE cred == Keychain(host)
  <2>1. /\ cred # None => cred \in NamesOf(host) /\ Filled(cred)
        /\ cred = None => \A key \in NamesOf(host) : ~Filled(key)
    BY KeychainOfHost
  <2>2. cred # None => cred \in DOMAIN DockerConfig /\ cred # Token
    BY <1>4, <2>1
  <2>3. cred # Token
    BY <2>2, LookupAssumption
  <2> HIDE DEF cred
  <2>4. Lookup(j).credentials = cred
    BY <1>1, <1>6 DEF cred
  <2> QED
    BY <1>1, <1>3, <2>1, <2>2, <2>3, <2>4
<1> QED
  BY <1>5, <1>6

(* The variables keep their types, whatever is looked up.                   *)
THEOREM LookupsTypeCorrect == LookupsSpec => []LookupsTypeOK
<1>1. LookupsInv => LookupsTypeOK
  <2> SUFFICES ASSUME LookupsInv PROVE LookupsTypeOK
    OBVIOUS
  <2>1. \A j \in Jobs :
          Lookup(j) \in [registry : {Registry(i) : i \in Jobs},
                        host : {Registry(i) : i \in Jobs} \cup {routeHost},
                        credentials : DOMAIN DockerConfig \cup {Token, None}]
    BY LookupOf DEF LookupsInv, Lookup
  <2>2. sent \subseteq [registry : {Registry(i) : i \in Jobs},
                       host : {Registry(i) : i \in Jobs} \cup {routeHost},
                       credentials : DOMAIN DockerConfig \cup {Token, None}]
    BY <2>1 DEF LookupsInv, Questions
  <2> QED
    BY <2>2 DEF LookupsInv, PoolInv, Registries, Questions, LookupsTypeOK
<1> QED
  BY <1>1, LookupsInvariance, PTL

(* No lookup carries credentials kept for another host, and none goes       *)
(* without those its host has, for any images, route, token and docker      *)
(* config (authenticator, dockerHubAliasKeychain).                          *)
THEOREM CredentialsTheorem == LookupsSpec => []CredentialsOfHost
<1>1. ASSUME LookupsInv, NEW l \in sent
      PROVE  /\ l.credentials = Token => l.host = routeHost /\ IsOpenShiftInternalRegistry(l.registry)
             /\ l.credentials \notin {Token, None} => l.credentials \in NamesOf(l.host)
             /\ l.credentials = None => \A key \in NamesOf(l.host) : ~Filled(key)
  <2>1. PICK j \in Jobs : l = Lookup(j)
    BY <1>1 DEF LookupsInv, Questions
  <2> QED
    BY <1>1, <2>1, LookupOf DEF LookupsInv
<1>2. LookupsInv => CredentialsOfHost
  BY <1>1 DEF CredentialsOfHost, NamesOf
<1> QED
  BY <1>2, LookupsInvariance, PTL

(* The lookups keep the promise the scan relies on (checkRecords).          *)
THEOREM LookupsKeepContract == LookupsSpec => KeepsContract
BY LookupsArePool, ImplementsContract
=============================================================================
