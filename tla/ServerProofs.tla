---------------------------- MODULE ServerProofs ----------------------------
(* Proofs about Server, with and without manual scans, for any cluster, any  *)
(* records with lines of any length, those too long for Load among them, any *)
(* number of crashes, restarts and failing writes.                           *)
EXTENDS Server, ScanLifecycleProofs, SequenceTheorems, FiniteSetTheorems, WellFoundedInduction

-----------------------------------------------------------------------------
(* The content of files.                                                    *)

Cells == Cell \cup {Hole}

LEMMA MaxOfTwo ==
  ASSUME NEW a \in Nat, NEW b \in Nat
  PROVE  Max({a, b}) = IF a >= b THEN a ELSE b
<1>1. \E x \in {a, b} : \A y \in {a, b} : x >= y
  <2>1. CASE a >= b
    BY <2>1
  <2>2. CASE b >= a
    BY <2>2
  <2> QED BY <2>1, <2>2
<1>2. Max({a, b}) \in {a, b} /\ \A y \in {a, b} : Max({a, b}) >= y
  BY <1>1 DEF Max
<1> QED BY <1>2

LEMMA WriteType ==
  ASSUME NEW content \in Seq(Cells), NEW pos \in Nat, NEW cells \in Seq(Cells)
  PROVE  WriteAt(content, pos, cells) \in Seq(Cells)
<1> DEFINE n == Max({Len(content), pos + Len(cells)})
<1>1. Len(content) \in Nat /\ Len(cells) \in Nat
  OBVIOUS
<1>2. n \in Nat
  BY <1>1, MaxOfTwo
<1>3. Hole \in Cells
  BY DEF Cells
<1>4. WriteAt(content, pos, cells) \in [1..n -> Cells]
  <2> SUFFICES ASSUME NEW k \in 1..n
               PROVE  (IF k \in pos+1..pos+Len(cells) THEN cells[k - pos]
                       ELSE IF k <= Len(content) THEN content[k] ELSE Hole) \in Cells
    BY DEF WriteAt
  <2>1. k \in pos+1..pos+Len(cells) => k - pos \in 1..Len(cells)
    BY <1>1
  <2>2. k <= Len(content) => k \in 1..Len(content)
    BY <1>1, <1>2
  <2> QED BY <1>3, <2>1, <2>2, ElementOfSeq
<1> HIDE DEF n
<1> QED BY <1>2, <1>4, SeqDef

LEMMA LineType ==
  ASSUME NEW i \in Ids, NEW r \in Record
  PROVE  /\ Line(i, r) \in Seq(Cells) /\ Len(Line(i, r)) = LineLen[i]
         /\ LineLen[i] \in Nat \ {0}
         /\ \A k \in 1..LineLen[i] : Line(i, r)[k] = [id |-> i, rec |-> r, part |-> k]
<1>1. LineLen[i] \in Nat \ {0}
  BY LineLenAssumption
<1>2. Line(i, r) \in [1..LineLen[i] -> Cells]
  BY <1>1 DEF Line, Cells, Cell
<1>3. Line(i, r) \in Seq(Cells)
  BY <1>1, <1>2, SeqDef
<1>4. Len(Line(i, r)) = LineLen[i]
  BY <1>1, <1>2, <1>3, LenProperties
<1> QED BY <1>1, <1>3, <1>4 DEF Line

(* The last line of i.                                                      *)
LastCell(content, i, r) ==
  \E m \in DOMAIN content :
    /\ content[m].id = i /\ content[m].rec = r
    /\ \A k \in DOMAIN content : content[k].id = i => k <= m

(* A well-formed file with the records of snap but those left to encode.    *)
Holds(content, snap, left) ==
  /\ content \in Seq(Cell) /\ WellFormed(content)
  /\ \A i \in Ids :
       IF snap[i] = None \/ i \in left THEN \A k \in DOMAIN content : content[k].id # i
       ELSE LastCell(content, i, snap[i])

LEMMA HoldsNothing ==
  ASSUME NEW snap
  PROVE  Holds(<<>>, snap, {i \in Ids : snap[i] # None})
BY EmptySeq DEF Holds, WellFormed

LEMMA HoldsRecords ==
  ASSUME NEW content, NEW snap \in RecordMap, Holds(content, snap, {})
  PROVE  WellFormed(content) /\ snap = [i \in Ids |-> RecordIn(content, i)]
<1>1. ASSUME NEW i \in Ids PROVE RecordIn(content, i) = snap[i]
  <2> DEFINE ks == {k \in DOMAIN content : content[k].id = i}
  <2>1. CASE snap[i] = None
    <3>1. ks = {}
      BY <2>1 DEF Holds
    <3> QED BY <2>1, <3>1 DEF RecordIn
  <2>2. CASE snap[i] # None
    <3>1. PICK m \in DOMAIN content :
            /\ content[m].id = i /\ content[m].rec = snap[i]
            /\ \A k \in DOMAIN content : content[k].id = i => k <= m
      BY <2>2 DEF Holds, LastCell
    <3>2. DOMAIN content = 1..Len(content) /\ Len(content) \in Nat
      BY LenProperties DEF Holds
    <3>3. m \in ks /\ \A y \in ks : m >= y
      BY <3>1, <3>2
    <3>4. Max(ks) \in ks /\ \A y \in ks : Max(ks) >= y
      BY <3>3 DEF Max
    <3>5. ks \subseteq Nat
      BY <3>2
    <3>6. Max(ks) = m
      <4> HIDE DEF ks
      <4> QED BY <3>3, <3>4, <3>5
    <3> QED BY <3>1, <3>3, <3>6 DEF RecordIn
  <2> QED BY <2>1, <2>2
<1> QED BY <1>1 DEF Holds, RecordMap

(* Its lines can be read again if those of its records can.                 *)
LEMMA HoldsFits ==
  ASSUME NEW content, NEW snap \in RecordMap, Holds(content, snap, {})
  PROVE  Loadable(content) <=> Fits(snap)
<1>1. ASSUME Fits(snap), NEW k \in DOMAIN content
      PROVE  LineLen[content[k].id] <= MaxLine
  <2>1. content[k] \in Cell
    BY LenProperties, ElementOfSeq DEF Holds
  <2>2. content[k].id \in Ids
    BY <2>1 DEF Cell
  <2>3. snap[content[k].id] # None
    BY <2>2 DEF Holds
  <2> QED BY <1>1, <2>2, <2>3 DEF Fits
<1>2. ASSUME \A k \in DOMAIN content : LineLen[content[k].id] <= MaxLine,
             NEW i \in Ids, snap[i] # None
      PROVE  LineLen[i] <= MaxLine
  <2>1. LastCell(content, i, snap[i])
    BY <1>2 DEF Holds
  <2> QED BY <1>2, <2>1 DEF LastCell
<1> QED BY <1>1, <1>2 DEF Loadable, Fits, Holds

(* A line written at the end of such a file makes another one.              *)
LEMMA HoldsLine ==
  ASSUME NEW content, NEW snap \in RecordMap, NEW left \in SUBSET Ids,
         Holds(content, snap, left), NEW i \in left, snap[i] # None
  PROVE  /\ Holds(WriteAt(content, Len(content), Line(i, snap[i])), snap, left \ {i})
         /\ Len(WriteAt(content, Len(content), Line(i, snap[i]))) = Len(content) + LineLen[i]
<1> DEFINE n == Len(content)
           l == LineLen[i]
           line == Line(i, snap[i])
           new == WriteAt(content, n, line)
<1>1. /\ i \in Ids /\ snap[i] \in Record
      /\ n \in Nat /\ content \in Seq(Cell) /\ DOMAIN content = 1..n
  BY LenProperties DEF Holds, RecordMap
<1>2. /\ l \in Nat \ {0} /\ Len(line) = l
      /\ \A k \in 1..l : line[k] = [id |-> i, rec |-> snap[i], part |-> k]
  BY <1>1, LineType
<1>3. Max({n, n + l}) = n + l
  BY <1>1, <1>2, MaxOfTwo
<1>4. new = [k \in 1..n + l |-> IF k \in n+1..n+Len(line) THEN line[k - n]
                                ELSE IF k <= Len(content) THEN content[k] ELSE Hole]
  <2>1. Max({Len(content), n + Len(line)}) = n + l
    BY <1>2, <1>3
  <2> HIDE DEF n, l, line
  <2> QED BY <2>1 DEF WriteAt
<1> HIDE DEF n, l, line, new
<1>5. /\ \A k \in 1..n : k \in 1..n + l /\ new[k] = content[k]
      /\ \A k \in n+1..n+l : k \in 1..n + l /\ k - n \in 1..l /\ new[k] = line[k - n]
  BY <1>1, <1>2, <1>4 DEF n
<1>6. ASSUME NEW k \in n+1..n+l
      PROVE  /\ new[k] = [id |-> i, rec |-> snap[i], part |-> k - n]
             /\ new[k].id = i /\ new[k].rec = snap[i] /\ new[k] \in Cell
  <2>1. k - n \in 1..l /\ new[k] = line[k - n]
    BY <1>5
  <2>2. new[k] = [id |-> i, rec |-> snap[i], part |-> k - n]
    BY <1>2, <2>1
  <2>3. k - n \in Nat
    BY <1>1, <1>2
  <2> QED BY <1>1, <2>2, <2>3 DEF Cell
<1>7. \A k \in 1..n + l : k \in 1..n \/ k \in n+1..n+l
  BY <1>1, <1>2
<1>8. new \in Seq(Cell) /\ Len(new) = n + l /\ DOMAIN new = 1..n + l
  <2>1. \A k \in 1..n : content[k] \in Cell
    BY <1>1, ElementOfSeq DEF n
  <2>4. \A k \in 1..n + l : new[k] \in Cell
    BY <1>5, <1>6, <1>7, <2>1
  <2>5. DOMAIN new = 1..n + l /\ new = [k \in 1..n + l |-> new[k]]
    BY <1>4
  <2>6. new \in [1..n + l -> Cell]
    BY <2>4, <2>5
  <2>7. n + l \in Nat
    BY <1>1, <1>2
  <2>8. new \in Seq(Cell)
    BY <2>6, <2>7, SeqDef
  <2> QED BY <2>5, <2>7, <2>8, LenProperties
<1>9. WellFormed(new)
  <2> SUFFICES ASSUME NEW k \in 1..n + l
               PROVE  /\ new[k] # Hole
                      /\ new[k].part > 1 =>
                           k > 1 /\ new[k-1] = [new[k] EXCEPT !.part = @ - 1]
                      /\ new[k].part < LineLen[new[k].id] =>
                           k < Len(new) /\ new[k+1] = [new[k] EXCEPT !.part = @ + 1]
    BY <1>8 DEF WellFormed
  <2>1. CASE k \in 1..n
    <3>1. new[k] = content[k]
      BY <1>5, <2>1
    <3>2. /\ content[k] # Hole
          /\ content[k].part > 1 =>
               k > 1 /\ content[k-1] = [content[k] EXCEPT !.part = @ - 1]
          /\ content[k].part < LineLen[content[k].id] =>
               k < n /\ content[k+1] = [content[k] EXCEPT !.part = @ + 1]
      BY <1>1, <2>1 DEF Holds, WellFormed, n
    <3>3. k > 1 => k - 1 \in 1..n
      BY <1>1, <2>1
    <3>4. k < n => k + 1 \in 1..n
      BY <1>1, <2>1
    <3> QED BY <1>1, <1>2, <1>5, <1>8, <3>1, <3>2, <3>3, <3>4
  <2>2. CASE k \in n+1..n+l
    <3>1. new[k] = [id |-> i, rec |-> snap[i], part |-> k - n]
      BY <1>6, <2>2
    <3>2. new[k] # Hole
      BY <1>1, <3>1, NoneIsNoRecord DEF Hole
    <3>3. ASSUME k - n > 1 PROVE k > 1 /\ new[k-1] = [id |-> i, rec |-> snap[i], part |-> k - n - 1]
      <4>1. k - 1 \in n+1..n+l /\ k > 1 /\ (k - 1) - n = k - n - 1
        BY <1>1, <1>2, <2>2, <3>3
      <4> QED BY <1>6, <4>1
    <3>4. ASSUME k - n < l PROVE k < n + l /\ new[k+1] = [id |-> i, rec |-> snap[i], part |-> k - n + 1]
      <4>1. k + 1 \in n+1..n+l /\ k < n + l /\ (k + 1) - n = k - n + 1
        BY <1>1, <1>2, <2>2, <3>4
      <4> QED BY <1>6, <4>1
    <3> QED BY <1>8, <3>1, <3>2, <3>3, <3>4 DEF l
  <2> QED BY <1>1, <1>2, <2>1, <2>2
<1>10. ASSUME NEW j \in Ids
       PROVE  IF snap[j] = None \/ j \in left \ {i} THEN \A k \in DOMAIN new : new[k].id # j
              ELSE LastCell(new, j, snap[j])
  <2>1. CASE j = i
    <3>1. n + l \in n+1..n+l /\ n + l \in 1..n + l
      BY <1>1, <1>2
    <3>2. new[n + l].id = i /\ new[n + l].rec = snap[i]
      BY <1>6, <3>1
    <3> QED BY <1>1, <1>2, <1>8, <2>1, <3>1, <3>2 DEF LastCell
  <2>2. CASE j # i
    <3>1. \A k \in 1..n + l : new[k].id = j => k \in 1..n /\ content[k].id = j
      <4> SUFFICES ASSUME NEW k \in 1..n + l, new[k].id = j PROVE k \in 1..n /\ content[k].id = j
        OBVIOUS
      <4>1. k \in n+1..n+l => new[k].id = i
        BY <1>6
      <4> QED BY <1>5, <1>7, <2>2, <4>1
    <3>2. CASE snap[j] = None \/ j \in left
      BY <1>1, <1>8, <2>2, <3>1, <3>2 DEF Holds
    <3>3. CASE ~(snap[j] = None \/ j \in left)
      <4>1. PICK m \in 1..n :
              /\ content[m].id = j /\ content[m].rec = snap[j]
              /\ \A k \in 1..n : content[k].id = j => k <= m
        BY <1>1, <3>3 DEF Holds, LastCell
      <4>2. m \in 1..n + l /\ new[m] = content[m]
        BY <1>1, <1>2, <1>5, <4>1
      <4> QED BY <1>8, <3>1, <3>3, <4>1, <4>2 DEF LastCell
    <3> QED BY <3>2, <3>3
  <2> QED BY <2>1, <2>2
<1> QED BY <1>8, <1>9, <1>10 DEF Holds, n, l, line, new

-----------------------------------------------------------------------------
(* The invariant of any deployment.                                         *)

SaveRecord ==
  [at : {"none", "opened", "encoding", "encoded", "closed", "failed", "unsaved"},
   inode : Inodes \cup {None}, pos : Nat, left : SUBSET Ids, snap : RecordMap \cup {None}]

FileType ==
  /\ file \in [Inodes -> Seq(Cells)]
  /\ tmp \in Inodes \cup {None} /\ data \in Inodes \cup {None}
  /\ save \in [Savers -> SaveRecord]
  /\ saved \in RecordMap \cup {None}

Opened == {"opened", "encoding", "encoded"}
Snapped == {"encoding", "encoded", "closed"}

(* A saver has a descriptor while its file is open, and what it encodes is  *)
(* what the store holds: nobody writes to the store meanwhile.              *)
Encodes(s) ==
  /\ save[s].inode # None <=> save[s].at \in Opened
  /\ save[s].at = "encoding" => /\ save[s].snap = records
                                /\ save[s].left \subseteq {i \in Ids : records[i] # None}

ServerInv == TypeOK /\ FileType /\ \A s \in Savers : Encodes(s)

(* How far s is with the temporary file.                                    *)
Written(s) ==
  /\ save[s].at \in Opened => save[s].inode = tmp
  /\ save[s].at \in Opened \cup Snapped => tmp # None
  /\ save[s].at = "opened" => file[tmp] = <<>> /\ save[s].pos = 0
  /\ save[s].at \in Snapped =>
       save[s].snap \in RecordMap /\ Holds(file[tmp], save[s].snap, save[s].left)
  /\ save[s].at = "encoding" => save[s].pos = Len(file[tmp])
  /\ save[s].at \in {"encoded", "closed"} => save[s].left = {}

(* The file being written is not the data file, which holds what was saved. *)
Disk ==
  /\ tmp # None => tmp # data
  /\ \A s \in Savers : Written(s)
  /\ IF data = None THEN saved = None
     ELSE saved \in RecordMap /\ Holds(file[data], saved, {})

(* A save that has got past os.Create and is not over.                      *)
Busy(s) == save[s].at \notin {"none", "unsaved"}
OneSaver == \A s, t \in Savers : Busy(s) /\ Busy(t) => s = t

LEMMA NotSavingType ==
  NotSaving \in SaveRecord /\ NotSaving.at = "none" /\ NotSaving.inode = None
BY DEF NotSaving, SaveRecord

LEMMA FileFacts ==
  ASSUME ServerInv
  PROVE  /\ file \in [Inodes -> Seq(Cells)] /\ save \in [Savers -> SaveRecord]
         /\ tmp \in Inodes \cup {None} /\ data \in Inodes \cup {None}
         /\ saved \in RecordMap \cup {None} /\ records \in RecordMap
BY DEF ServerInv, FileType, TypeOK, StoreTypeOK

LEMMA ServerInitInv == ServerInit => ServerInv /\ Disk
<1> SUFFICES ASSUME ServerInit PROVE ServerInv /\ Disk
  OBVIOUS
<1>1. TypeOK
  BY InitType DEF ServerInit
<1>2. FileType
  BY NotSavingType, EmptySeq DEF ServerInit, SaveInit, FileType
<1>3. \A s \in Savers : save[s].at = "none" /\ save[s].inode = None
  BY NotSavingType DEF ServerInit, SaveInit
<1>4. \A s \in Savers : Encodes(s) /\ Written(s)
  BY <1>3 DEF Encodes, Written, Opened, Snapped
<1> QED BY <1>1, <1>2, <1>4 DEF ServerInv, Disk, ServerInit, SaveInit

-----------------------------------------------------------------------------
(* The steps outside Save.  Those that write to the store wait for the      *)
(* savers that read it.                                                     *)

ScanOnly ==
  /\ [Next]_vars
  /\ ReadLocked => UNCHANGED storeVars
  /\ UNCHANGED fileVars

LEMMA ScanOnlyInv ==
  ASSUME ServerInv, ScanOnly
  PROVE  ServerInv' /\ (Disk => Disk')
<1>1. TypeOK'
  BY NextType DEF ServerInv, ScanOnly
<1>2. FileType' /\ UNCHANGED <<file, tmp, data, save, saved>>
  BY DEF ServerInv, FileType, fileVars, ScanOnly
<1>3. \A s \in Savers : save[s].at = "encoding" => records' = records
  BY DEF ScanOnly, ReadLocked, storeVars
<1>4. \A s \in Savers : Encodes(s)'
  BY <1>2, <1>3 DEF ServerInv, Encodes
<1>5. Disk => Disk'
  BY <1>2 DEF Disk, Written
<1> QED BY <1>1, <1>2, <1>4, <1>5 DEF ServerInv

-----------------------------------------------------------------------------
(* The steps of Save.                                                       *)

(* os.Create finds an inode nobody uses.                                    *)
LEMMA FreshInode ==
  ASSUME ServerInv, NEW s \in Savers, save[s].at = "none", tmp = None
  PROVE  LET n == CHOOSE m \in Inodes : m \notin InUse IN n \in Inodes /\ n # data
<1> DEFINE open == [t \in Savers \ {s} |-> save[t].inode]
<1>1. open \in [Savers \ {s} -> Inodes \cup {None}]
  BY DEF ServerInv, FileType, SaveRecord
<1>2. data \in Inodes \cup {None}
  BY DEF ServerInv, FileType
<1> HIDE DEF open
<1>3. Inodes \ ({data} \cup {open[t] : t \in Savers \ {s}}) # {}
  BY <1>1, <1>2, InodeAssumption
<1>4. PICK m \in Inodes : m # data /\ \A t \in Savers \ {s} : m # open[t]
  BY <1>3
<1>5. save[s].inode = None
  BY DEF ServerInv, Encodes, Opened
<1>6. \A t \in Savers : m # save[t].inode
  <2> USE DEF open
  <2>1. \A t \in Savers \ {s} : m # save[t].inode
    BY <1>4
  <2> QED BY <1>4, <1>5, <2>1, InodeAssumption
<1>7. m \notin InUse
  BY <1>4, <1>6, InodeAssumption DEF InUse
<1>8. data # None => data \in InUse
  BY DEF InUse
<1> QED BY <1>4, <1>7, <1>8, InodeAssumption

(* What a step of Save by s must show: r is what becomes of its record.     *)
LEMMA Saving ==
  ASSUME ServerInv, NEW s \in Savers, NEW r \in SaveRecord, save' = [save EXCEPT ![s] = r],
         UNCHANGED records, TypeOK',
         file' \in [Inodes -> Seq(Cells)], tmp' \in Inodes \cup {None},
         data' \in Inodes \cup {None}, saved' \in RecordMap \cup {None},
         r.inode # None <=> r.at \in Opened,
         r.at = "encoding" =>
           r.snap = records /\ r.left \subseteq {i \in Ids : records[i] # None}
  PROVE  /\ ServerInv' /\ save'[s] = r
         /\ \A t \in Savers \ {s} : save'[t] = save[t]
<1>1. save' \in [Savers -> SaveRecord] /\ save'[s] = r
      /\ \A t \in Savers \ {s} : save'[t] = save[t]
  BY FileFacts
<1>2. FileType'
  BY <1>1 DEF FileType
<1>3. Encodes(s)'
  BY <1>1 DEF Encodes
<1>4. \A t \in Savers \ {s} : Encodes(t)'
  BY <1>1 DEF Encodes, ServerInv
<1> QED BY <1>1, <1>2, <1>3, <1>4 DEF ServerInv

(* Where no other save is under way, Disk is about s alone.                 *)
LEMMA SavingAlone ==
  ASSUME Disk, NEW s \in Savers, \A t \in Savers \ {s} : save'[t] = save[t] /\ ~Busy(t),
         tmp' # None => tmp' # data', Written(s)',
         \/ UNCHANGED <<data, saved>> /\ (data # None => file'[data] = file[data])
         \/ data' # None /\ saved' \in RecordMap /\ Holds(file'[data'], saved', {})
  PROVE  Disk'
<1>1. \A t \in Savers \ {s} : Written(t)'
  BY DEF Written, Busy, Opened, Snapped
<1>2. (IF data = None THEN saved = None
       ELSE saved \in RecordMap /\ Holds(file[data], saved, {}))'
  BY DEF Disk
<1> QED BY <1>1, <1>2 DEF Disk

Keeps == ServerInv' /\ (Disk /\ OneSaver /\ OneSaver' => Disk')

LEMMA OthersRest ==
  ASSUME NEW s \in Savers, OneSaver, Busy(s)
  PROVE  \A t \in Savers \ {s} : ~Busy(t)
BY DEF OneSaver

LEMMA OpenTmpInv ==
  ASSUME ServerInv, NEW s \in Savers, OpenTmp(s), UNCHANGED records, TypeOK'
  PROVE  Keeps
<1>1. PICK n \in IF tmp # None THEN {tmp} ELSE {CHOOSE m \in Inodes : m \notin InUse} :
        /\ tmp' = n
        /\ file' = [file EXCEPT ![n] = <<>>]
        /\ save' = [save EXCEPT ![s] = [NotSaving EXCEPT !.at = "opened", !.inode = n]]
  BY DEF OpenTmp
<1>2. n \in Inodes /\ (tmp = None => n # data) /\ (tmp # None => n = tmp)
  BY <1>1, FileFacts, FreshInode DEF OpenTmp
<1> DEFINE r == [NotSaving EXCEPT !.at = "opened", !.inode = n]
<1>3. r \in SaveRecord /\ r.at = "opened" /\ r.inode = n /\ r.pos = 0
  BY <1>2 DEF NotSaving, SaveRecord
<1>4. save' = [save EXCEPT ![s] = r] /\ UNCHANGED <<data, saved>>
  BY <1>1 DEF OpenTmp
<1> HIDE DEF r
<1>5. /\ file' \in [Inodes -> Seq(Cells)] /\ file'[n] = <<>>
      /\ \A m \in Inodes \ {n} : file'[m] = file[m]
  BY <1>1, <1>2, FileFacts, EmptySeq
<1>6. r.inode # None <=> r.at \in Opened
  BY <1>2, <1>3, InodeAssumption DEF Opened
<1>7. ServerInv' /\ save'[s] = r /\ \A t \in Savers \ {s} : save'[t] = save[t]
  BY <1>1, <1>2, <1>3, <1>4, <1>5, <1>6, FileFacts, Saving
<1>8. ASSUME Disk, OneSaver, OneSaver' PROVE Disk'
  <2>1. Busy(s)'
    BY <1>3, <1>7 DEF Busy
  <2>2. n # data /\ n # None
    BY <1>2, <1>8, InodeAssumption DEF Disk
  <2>3. Written(s)'
    BY <1>1, <1>3, <1>5, <1>7, <2>2 DEF Written, Opened, Snapped
  <2>4. data # None => file'[data] = file[data]
    BY <1>5, <2>2, FileFacts
  <2>5. \A t \in Savers \ {s} : save'[t] = save[t] /\ ~Busy(t)
    BY <1>7, <1>8, <2>1 DEF OneSaver, Busy
  <2>6. tmp' # data' /\ UNCHANGED <<data, saved>>
    BY <1>1, <1>4, <2>2
  <2> QED BY <1>8, <2>3, <2>4, <2>5, <2>6, SavingAlone
<1> QED BY <1>7, <1>8 DEF Keeps

(* A step that leaves the files alone.                                      *)
LEMMA RecordStepInv ==
  ASSUME ServerInv, NEW s \in Savers, UNCHANGED records, TypeOK',
         NEW r \in SaveRecord, save' = [save EXCEPT ![s] = r],
         UNCHANGED <<file, tmp, data, saved>>,
         r.inode # None <=> r.at \in Opened,
         r.at = "encoding" =>
           r.snap = records /\ r.left \subseteq {i \in Ids : records[i] # None},
         Disk => Busy(s) /\ Written(s)'
  PROVE  Keeps
<1>1. ServerInv' /\ save'[s] = r /\ \A t \in Savers \ {s} : save'[t] = save[t]
  BY FileFacts, Saving
<1>2. ASSUME Disk, OneSaver, OneSaver' PROVE Disk'
  <2>1. tmp' # None => tmp' # data'
    BY <1>2 DEF Disk
  <2> QED BY <1>1, <1>2, <2>1, OthersRest, SavingAlone
<1> QED BY <1>1, <1>2 DEF Keeps

LEMMA LockStoreInv ==
  ASSUME ServerInv, NEW s \in Savers, LockStore(s), UNCHANGED records, TypeOK'
  PROVE  Keeps
<1> DEFINE r == [save[s] EXCEPT !.at = "encoding", !.snap = records,
                                !.left = {i \in Ids : records[i] # None}]
<1>1. save[s] \in SaveRecord /\ save[s].at = "opened" /\ save[s].inode # None
  BY FileFacts DEF LockStore, ServerInv, Encodes, Opened
<1>2. /\ r \in SaveRecord /\ r.at = "encoding" /\ r.inode = save[s].inode
      /\ r.pos = save[s].pos /\ r.snap = records /\ r.left = {i \in Ids : records[i] # None}
  BY <1>1, FileFacts DEF SaveRecord
<1>3. save' = [save EXCEPT ![s] = r] /\ UNCHANGED <<file, tmp, data, saved>>
  BY DEF LockStore
<1> HIDE DEF r
<1>4. ASSUME Disk PROVE Busy(s) /\ Written(s)'
  <2>1. /\ save[s].inode = tmp /\ tmp # None /\ file[tmp] = <<>> /\ save[s].pos = 0
    BY <1>1, <1>4 DEF Disk, Written, Opened
  <2>2. Holds(file[tmp], records, r.left) /\ Len(file[tmp]) = 0 /\ records \in RecordMap
    BY <1>2, <2>1, HoldsNothing, FileFacts
  <2>3. save'[s] = r
    BY <1>3, FileFacts
  <2> QED BY <1>1, <1>2, <1>3, <2>1, <2>2, <2>3 DEF Busy, Written, Opened, Snapped
<1> QED BY <1>1, <1>2, <1>3, <1>4, RecordStepInv DEF Opened

LEMMA UnlockStoreInv ==
  ASSUME ServerInv, NEW s \in Savers, UnlockStore(s), UNCHANGED records, TypeOK'
  PROVE  Keeps
<1> DEFINE r == [save[s] EXCEPT !.at = "encoded"]
<1>1. save[s] \in SaveRecord /\ save[s].at = "encoding" /\ save[s].inode # None
      /\ save[s].left = {}
  BY FileFacts DEF UnlockStore, ServerInv, Encodes, Opened
<1>2. /\ r \in SaveRecord /\ r.at = "encoded" /\ r.inode = save[s].inode
      /\ r.snap = save[s].snap /\ r.left = save[s].left
  BY <1>1 DEF SaveRecord
<1>3. save' = [save EXCEPT ![s] = r] /\ UNCHANGED <<file, tmp, data, saved>>
  BY FileFacts DEF UnlockStore
<1> HIDE DEF r
<1>4. ASSUME Disk PROVE Busy(s) /\ Written(s)'
  <2>1. save'[s] = r
    BY <1>3, FileFacts
  <2> QED BY <1>1, <1>2, <1>3, <1>4, <2>1 DEF Disk, Busy, Written, Opened, Snapped
<1> QED BY <1>1, <1>2, <1>3, <1>4, RecordStepInv DEF Opened

LEMMA CloseInv ==
  ASSUME ServerInv, NEW s \in Savers, Close(s), UNCHANGED records, TypeOK'
  PROVE  Keeps
<1> DEFINE r == [save[s] EXCEPT !.at = "closed", !.inode = None, !.pos = 0]
<1>1. save[s] \in SaveRecord /\ save[s].at = "encoded"
  BY FileFacts DEF Close
<1>2. /\ r \in SaveRecord /\ r.at = "closed" /\ r.inode = None
      /\ r.snap = save[s].snap /\ r.left = save[s].left
  BY <1>1 DEF SaveRecord
<1>3. save' = [save EXCEPT ![s] = r] /\ UNCHANGED <<file, tmp, data, saved>>
  BY DEF Close
<1> HIDE DEF r
<1>4. ASSUME Disk PROVE Busy(s) /\ Written(s)'
  <2>1. save'[s] = r
    BY <1>3, FileFacts
  <2> QED BY <1>1, <1>2, <1>3, <1>4, <2>1 DEF Disk, Busy, Written, Opened, Snapped
<1> QED BY <1>1, <1>2, <1>3, <1>4, RecordStepInv DEF Opened

LEMMA EncodeInv ==
  ASSUME ServerInv, NEW s \in Savers, NEW i \in Ids, Encode(s, i), UNCHANGED records, TypeOK'
  PROVE  Keeps
<1>1. /\ save[s] \in SaveRecord /\ save[s].at = "encoding" /\ i \in save[s].left
      /\ save[s].inode \in Inodes /\ save[s].snap = records /\ records[i] # None
      /\ save[s].left \subseteq {j \in Ids : records[j] # None}
  BY FileFacts DEF Encode, ServerInv, Encodes, Opened, SaveRecord
<1> DEFINE r == [save[s] EXCEPT !.pos = @ + LineLen[i], !.left = @ \ {i}]
           n == save[s].inode
           new == WriteAt(file[n], save[s].pos, Line(i, records[i]))
<1>2. records[i] \in Record /\ LineLen[i] \in Nat /\ Line(i, records[i]) \in Seq(Cells)
  BY <1>1, FileFacts, LineType DEF RecordMap
<1>3. /\ r \in SaveRecord /\ r.at = "encoding" /\ r.inode = n /\ r.snap = records
      /\ r.left = save[s].left \ {i} /\ r.pos = save[s].pos + LineLen[i]
  <2>1. save[s].pos + LineLen[i] \in Nat
    BY <1>1, <1>2 DEF SaveRecord
  <2> QED BY <1>1, <2>1 DEF SaveRecord
<1>4. new \in Seq(Cells)
  BY <1>1, <1>2, FileFacts, WriteType DEF SaveRecord
<1>5. file' = [file EXCEPT ![n] = new] /\ UNCHANGED <<tmp, data, saved>>
  BY DEF Encode
<1>6. save' = [save EXCEPT ![s] = r]
  <2>1. save' = [save EXCEPT ![s].pos = @ + LineLen[i], ![s].left = @ \ {i}]
    BY DEF Encode
  <2> QED BY <1>1, <2>1, FileFacts DEF SaveRecord
<1> HIDE DEF r
<1>7. ASSUME Disk PROVE Written(s)' /\ tmp # data /\ n = tmp /\ Busy(s)
  <2>1. /\ n = tmp /\ tmp # None /\ tmp # data /\ save[s].pos = Len(file[tmp])
        /\ Holds(file[tmp], save[s].snap, save[s].left)
    BY <1>1, <1>7 DEF Disk, Written, Opened, Snapped
  <2>2. /\ Holds(new, records, save[s].left \ {i})
        /\ Len(new) = Len(file[tmp]) + LineLen[i]
    <3> DEFINE content == file[tmp]
               left == save[s].left
               snap == records
    <3>1. /\ snap \in RecordMap /\ left \in SUBSET Ids /\ i \in left /\ snap[i] # None
          /\ Holds(content, snap, left)
      BY <1>1, <2>1, FileFacts DEF SaveRecord
    <3>2. /\ Holds(WriteAt(content, Len(content), Line(i, snap[i])), snap, left \ {i})
          /\ Len(WriteAt(content, Len(content), Line(i, snap[i]))) = Len(content) + LineLen[i]
      <4> HIDE DEF content, left, snap, new, n
      <4> QED BY <3>1, HoldsLine
    <3> QED BY <2>1, <3>2
  <2> HIDE DEF new, n
  <2>3. file'[tmp] = new /\ save'[s] = r
    BY <1>1, <1>5, <1>6, <2>1, FileFacts DEF n
  <2> QED BY <1>1, <1>3, <1>5, <2>1, <2>2, <2>3, FileFacts DEF Written, Opened, Snapped, Busy
<1> HIDE DEF new, n
<1>8. /\ file' \in [Inodes -> Seq(Cells)] /\ \A m \in Inodes \ {n} : file'[m] = file[m]
  BY <1>4, <1>5, FileFacts
<1>9. ServerInv' /\ save'[s] = r /\ \A t \in Savers \ {s} : save'[t] = save[t]
  <2>1. r.inode # None /\ r.at \in Opened
    BY <1>1, <1>3, InodeAssumption DEF Opened, n
  <2> QED BY <1>1, <1>3, <1>5, <1>6, <1>8, <2>1, FileFacts, Saving
<1>10. ASSUME Disk, OneSaver, OneSaver' PROVE Disk'
  <2>1. data # None => file'[data] = file[data]
    BY <1>7, <1>8, <1>10, FileFacts
  <2>2. \A t \in Savers \ {s} : save'[t] = save[t] /\ ~Busy(t)
    BY <1>7, <1>9, <1>10, OthersRest
  <2>3. tmp' # data' /\ UNCHANGED <<data, saved>>
    BY <1>5, <1>7, <1>10
  <2> QED BY <1>7, <1>10, <2>1, <2>2, <2>3, SavingAlone
<1> QED BY <1>9, <1>10 DEF Keeps

(* After a failure the temporary file holds no matter what.                 *)
LEMMA FailedInv ==
  ASSUME ServerInv, NEW s \in Savers, UNCHANGED records, TypeOK', Busy(s),
         save' = [save EXCEPT ![s] = [NotSaving EXCEPT !.at = "failed"]],
         UNCHANGED <<tmp, data, saved>>, file' \in [Inodes -> Seq(Cells)],
         Disk => (data # None => file'[data] = file[data])
  PROVE  Keeps
<1> DEFINE r == [NotSaving EXCEPT !.at = "failed"]
<1>1. r \in SaveRecord /\ r.at = "failed" /\ r.inode = None
  BY DEF NotSaving, SaveRecord
<1>2. save' = [save EXCEPT ![s] = r]
  OBVIOUS
<1> HIDE DEF r
<1>3. ServerInv' /\ save'[s] = r /\ \A t \in Savers \ {s} : save'[t] = save[t]
  BY <1>1, <1>2, FileFacts, Saving DEF Opened
<1>4. ASSUME Disk, OneSaver, OneSaver' PROVE Disk'
  <2>1. Written(s)'
    BY <1>1, <1>3 DEF Written, Opened, Snapped
  <2>2. \A t \in Savers \ {s} : save'[t] = save[t] /\ ~Busy(t)
    BY <1>3, <1>4, OthersRest
  <2>3. tmp' # None => tmp' # data'
    BY <1>4 DEF Disk
  <2> QED BY <1>4, <2>1, <2>2, <2>3, SavingAlone
<1> QED BY <1>3, <1>4 DEF Keeps

LEMMA CloseFailsInv ==
  ASSUME ServerInv, NEW s \in Savers, CloseFails(s), UNCHANGED records, TypeOK'
  PROVE  Keeps
<1>1. Busy(s) /\ UNCHANGED <<file, tmp, data, saved>>
  BY DEF CloseFails, Busy
<1>2. save' = [save EXCEPT ![s] = [NotSaving EXCEPT !.at = "failed"]]
  BY DEF CloseFails
<1> QED BY <1>1, <1>2, FileFacts, FailedInv

LEMMA EncodeFailsInv ==
  ASSUME ServerInv, NEW s \in Savers, NEW i \in Ids, EncodeFails(s, i), UNCHANGED records, TypeOK'
  PROVE  Keeps
<1>1. /\ save[s] \in SaveRecord /\ save[s].at = "encoding" /\ save[s].inode \in Inodes
      /\ records[i] # None
  BY FileFacts DEF EncodeFails, ServerInv, Encodes, Opened, SaveRecord
<1> DEFINE n == save[s].inode
<1>2. PICK k \in 0..LineLen[i] - 1 :
        file' = [file EXCEPT ![n] =
          WriteAt(file[n], save[s].pos, SubSeq(Line(i, records[i]), 1, k))]
  BY DEF EncodeFails
<1>3. records[i] \in Record
  BY <1>1, FileFacts DEF RecordMap
<1>4. Line(i, records[i]) \in Seq(Cells) /\ Len(Line(i, records[i])) = LineLen[i]
      /\ LineLen[i] \in Nat
  BY <1>3, LineType
<1>5. SubSeq(Line(i, records[i]), 1, k) \in Seq(Cells)
  BY <1>2, <1>4, SubSeqProperties
<1>6. WriteAt(file[n], save[s].pos, SubSeq(Line(i, records[i]), 1, k)) \in Seq(Cells)
  BY <1>1, <1>5, FileFacts, WriteType DEF SaveRecord
<1>7. file' \in [Inodes -> Seq(Cells)] /\ \A m \in Inodes \ {n} : file'[m] = file[m]
  BY <1>2, <1>6, FileFacts
<1>8. Disk => (data # None => file'[data] = file[data])
  <2> SUFFICES ASSUME Disk, data # None PROVE file'[data] = file[data]
    OBVIOUS
  <2>1. data \in Inodes /\ data # n
    BY <1>1, FileFacts DEF Disk, Written, Opened
  <2> QED BY <1>7, <2>1
<1>9. Busy(s) /\ UNCHANGED <<tmp, data, saved>>
      /\ save' = [save EXCEPT ![s] = [NotSaving EXCEPT !.at = "failed"]]
  BY <1>1 DEF EncodeFails, Busy
<1> QED BY <1>7, <1>8, <1>9, FailedInv

LEMMA OpenFailsInv ==
  ASSUME ServerInv, NEW s \in Savers, OpenFails(s), UNCHANGED records, TypeOK'
  PROVE  Keeps
<1> DEFINE r == [save[s] EXCEPT !.at = "unsaved"]
<1>1. save[s].at = "none" /\ save[s] \in SaveRecord /\ save[s].inode = None
  BY FileFacts DEF OpenFails, ServerInv, Encodes, Opened
<1>2. r \in SaveRecord /\ r.at = "unsaved" /\ r.inode = None
  BY <1>1 DEF SaveRecord
<1>3. save' = [save EXCEPT ![s] = r] /\ UNCHANGED <<file, tmp, data, saved>>
  BY FileFacts DEF OpenFails
<1> HIDE DEF r
<1>4. ServerInv' /\ save'[s] = r /\ \A t \in Savers \ {s} : save'[t] = save[t]
  BY <1>2, <1>3, FileFacts, Saving DEF Opened
<1>5. \A t \in Savers : Written(t) => Written(t)'
  <2>1. Written(s)'
    BY <1>2, <1>4 DEF Written, Opened, Snapped
  <2>2. ASSUME NEW t \in Savers \ {s}, Written(t) PROVE Written(t)'
    BY <1>3, <1>4, <2>2 DEF Written
  <2> QED BY <2>1, <2>2
<1>6. Disk => Disk'
  BY <1>3, <1>5 DEF Disk
<1> QED BY <1>4, <1>6 DEF Keeps

LEMMA RenameFailsInv ==
  ASSUME ServerInv, NEW s \in Savers, RenameFails(s), UNCHANGED records, TypeOK'
  PROVE  Keeps
<1> DEFINE r == [NotSaving EXCEPT !.at = "unsaved"]
<1>1. r \in SaveRecord /\ r.at = "unsaved" /\ r.inode = None
  BY DEF NotSaving, SaveRecord
<1>2. save' = [save EXCEPT ![s] = r] /\ UNCHANGED <<file, tmp, data, saved>>
  BY DEF RenameFails
<1> HIDE DEF r
<1>3. ServerInv' /\ save'[s] = r /\ \A t \in Savers \ {s} : save'[t] = save[t]
  BY <1>1, <1>2, FileFacts, Saving DEF Opened
<1>4. \A t \in Savers : Written(t) => Written(t)'
  <2>1. Written(s)'
    BY <1>1, <1>3 DEF Written, Opened, Snapped
  <2>2. ASSUME NEW t \in Savers \ {s}, Written(t) PROVE Written(t)'
    BY <1>2, <1>3, <2>2 DEF Written
  <2> QED BY <2>1, <2>2
<1>5. Disk => Disk'
  BY <1>2, <1>4 DEF Disk
<1> QED BY <1>3, <1>5 DEF Keeps

LEMMA GiveUpInv ==
  ASSUME ServerInv, NEW s \in Savers, GiveUp(s), UNCHANGED records, TypeOK'
  PROVE  Keeps
<1>1. /\ save' = [save EXCEPT ![s] = NotSaving] /\ UNCHANGED <<file, data, saved>>
      /\ tmp' = IF save[s].at = "failed" THEN None ELSE tmp
      /\ save[s].at \in {"failed", "unsaved"}
  BY DEF GiveUp
<1>2. ServerInv' /\ save'[s] = NotSaving /\ \A t \in Savers \ {s} : save'[t] = save[t]
  BY <1>1, NotSavingType, FileFacts, Saving DEF Opened
<1>3. Written(s)'
  BY <1>2, NotSavingType DEF Written, Opened, Snapped
<1>4. ASSUME Disk, OneSaver, OneSaver' PROVE Disk'
  <2>1. CASE save[s].at = "failed"
    <3>1. \A t \in Savers \ {s} : save'[t] = save[t] /\ ~Busy(t)
      BY <1>2, <1>4, <2>1, OthersRest DEF Busy
    <3> QED BY <1>1, <1>3, <1>4, <2>1, <3>1, SavingAlone
  <2>2. CASE save[s].at = "unsaved"
    <3>1. \A t \in Savers \ {s} : Written(t)'
      BY <1>1, <1>2, <1>4, <2>2 DEF Disk, Written
    <3> QED BY <1>1, <1>3, <1>4, <2>2, <3>1 DEF Disk
  <2> QED BY <1>1, <2>1, <2>2
<1> QED BY <1>2, <1>4 DEF Keeps

LEMMA RenameInv ==
  ASSUME ServerInv, NEW s \in Savers, Rename(s), UNCHANGED records, TypeOK'
  PROVE  Keeps
<1>1. /\ save' = [save EXCEPT ![s] = NotSaving] /\ UNCHANGED file
      /\ save[s].at = "closed" /\ Busy(s)
      /\ IF tmp # None THEN data' = tmp /\ tmp' = None /\ saved' = save[s].snap
                       ELSE UNCHANGED <<tmp, data, saved>>
  BY DEF Rename, Busy
<1>2. save[s].snap \in RecordMap \cup {None}
  BY FileFacts DEF SaveRecord
<1>3. ServerInv' /\ save'[s] = NotSaving /\ \A t \in Savers \ {s} : save'[t] = save[t]
  BY <1>1, <1>2, NotSavingType, FileFacts, Saving DEF Opened
<1>4. Written(s)'
  BY <1>3, NotSavingType DEF Written, Opened, Snapped
<1>5. ASSUME Disk, OneSaver, OneSaver' PROVE Disk'
  <2>1. /\ tmp # None /\ save[s].snap \in RecordMap /\ save[s].left = {}
        /\ Holds(file[tmp], save[s].snap, {})
    BY <1>1, <1>5 DEF Disk, Written, Snapped
  <2>2. \A t \in Savers \ {s} : save'[t] = save[t] /\ ~Busy(t)
    BY <1>1, <1>3, <1>5, OthersRest
  <2>3. data' # None /\ saved' \in RecordMap /\ Holds(file'[data'], saved', {}) /\ tmp' = None
    BY <1>1, <2>1
  <2> QED BY <1>4, <1>5, <2>2, <2>3, SavingAlone
<1> QED BY <1>3, <1>5 DEF Keeps

LEMMA PersistingInv ==
  ASSUME ServerInv, NEW s \in Procs, Persisting(s)
  PROVE  Keeps /\ UNCHANGED records
<1>0. s \in Savers
  BY SaversAssumption
<1>1. CASE SaveStep(s)
  <2>1. UNCHANGED vars
    BY <1>1 DEF SaveStep
  <2>2. TypeOK' /\ UNCHANGED records
    BY <2>1, NextType DEF ServerInv, vars, storeVars
  <2> QED
    BY <1>0, <1>1, <2>2, OpenTmpInv, LockStoreInv, UnlockStoreInv, CloseInv, EncodeInv
    DEF SaveStep
<1>2. CASE SaveFails(s)
  <2>1. UNCHANGED <<storeVars, procVars, clusterVars>> /\ faults' \in 0..MaxFaults
    BY <1>2, BoundAssumption DEF SaveFails, ServerInv, TypeOK
  <2>2. TypeOK' /\ UNCHANGED records
    BY <2>1 DEF ServerInv, TypeOK, StoreTypeOK, storeVars, procVars, clusterVars
  <2> QED
    BY <1>0, <1>2, <2>2, OpenFailsInv, CloseFailsInv, RenameFailsInv, EncodeFailsInv
    DEF SaveFails
<1>3. CASE SaveEnds(s)
  <2>1. AfterScan(s)
    BY <1>3 DEF SaveEnds
  <2>2. TypeOK' /\ UNCHANGED records
    BY <2>1, ScanStepType DEF ServerInv, ScanStep, AfterScan, storeVars
  <2> QED
    BY <1>0, <1>3, <2>2, RenameInv, GiveUpInv DEF SaveEnds
<1> QED BY <1>1, <1>2, <1>3 DEF Persisting

-----------------------------------------------------------------------------
(* The process ends and starts again.                                       *)

(* A finite set of positions that is not empty has a last one.              *)
LEMMA LastPosition ==
  ASSUME NEW S \in SUBSET Nat, IsFiniteSet(S), S # {}
  PROVE  Max(S) \in S
<1> DEFINE After(x) == {y \in S : y > x}
           Afters == {After(x) : x \in S}
<1>2. Afters \subseteq FiniteSubsetsOf(S) /\ Afters # {}
  <2>1. FiniteSubsetsOf(S) = SUBSET S
    BY FS_FiniteSubsetsOfFinite
  <2>2. \A x \in S : After(x) \in SUBSET S
    OBVIOUS
  <2>3. PICK x \in S : TRUE
    OBVIOUS
  <2>4. After(x) \in Afters
    OBVIOUS
  <2> HIDE DEF After
  <2> QED BY <2>1, <2>2, <2>4
<1>3. PICK A \in Afters : \A B \in Afters : <<B, A>> \notin StrictSubsetOrdering(S)
  <2> HIDE DEF Afters
  <2> QED BY <1>2, FS_StrictSubsetOrderingWellFounded, WFMin
<1>4. PICK x \in S : A = After(x)
  OBVIOUS
<1>5. ASSUME NEW y \in S, y > x PROVE FALSE
  <2>1. x \in Nat /\ y \in Nat /\ (\A z \in S : z > y => z > x) /\ ~(y > y)
    BY <1>5
  <2>2. After(y) \subseteq After(x) /\ y \in After(x) /\ y \notin After(y)
    BY <1>5, <2>1
  <2>3. <<After(y), After(x)>> \in StrictSubsetOrdering(S)
    BY <2>2 DEF StrictSubsetOrdering
  <2> QED BY <1>3, <1>4, <2>3
<1>6. \A y \in S : x >= y
  BY <1>5
<1> QED BY <1>6 DEF Max

(* Whatever the data file holds, Load makes records of it.                  *)
LEMMA LoadType == ServerInv => Load \in RecordMap
<1> SUFFICES ASSUME ServerInv, data # None, WellFormed(file[data])
             PROVE  [i \in Ids |-> RecordIn(file[data], i)] \in RecordMap
  BY EmptyType DEF Load, Loadable
<1> DEFINE content == file[data]
<1>1. content \in Seq(Cells) /\ WellFormed(content)
  BY FileFacts
<1> HIDE DEF content
<1>2. DOMAIN content = 1..Len(content) /\ Len(content) \in Nat
  BY <1>1, LenProperties
<1>3. \A k \in DOMAIN content : content[k] \in Cell
  <2>1. \A k \in DOMAIN content : content[k] \in Cells /\ content[k] # Hole
    BY <1>1, <1>2, ElementOfSeq DEF WellFormed
  <2> QED BY <2>1 DEF Cells
<1>4. ASSUME NEW i \in Ids PROVE RecordIn(content, i) \in Record \cup {None}
  <2> DEFINE ks == {k \in DOMAIN content : content[k].id = i}
  <2>1. CASE ks # {}
    <3>1. Max(ks) \in ks
      <4>1. ks \subseteq 1..Len(content) /\ ks \in SUBSET Nat
        BY <1>2
      <4> HIDE DEF ks
      <4>2. IsFiniteSet(1..Len(content))
        BY <1>2, FS_Interval
      <4>3. IsFiniteSet(ks)
        <5> DEFINE all == 1..Len(content)
        <5>1. IsFiniteSet(all) /\ ks \in SUBSET all
          BY <4>1, <4>2
        <5> HIDE DEF all
        <5> QED BY <5>1, FS_Subset
      <4> QED BY <2>1, <4>1, <4>3, LastPosition
    <3>2. content[Max(ks)] \in Cell
      BY <1>3, <3>1
    <3>3. content[Max(ks)].rec \in Record
      <4> HIDE DEF ks
      <4> QED BY <3>2 DEF Cell
    <3> QED BY <2>1, <3>3 DEF RecordIn
  <2>2. CASE ks = {}
    BY <2>2 DEF RecordIn
  <2> QED BY <2>1, <2>2
<1> QED BY <1>4 DEF RecordMap, content

LEMMA RestartInv ==
  ASSUME ServerInv, Restart
  PROVE  ServerInv' /\ (Disk => Disk')
<1>1. records' \in RecordMap
  BY LoadType DEF Restart
<1>2. TypeOK'
  <2>1. /\ lastScan' \in BOOLEAN /\ scanning' \in BOOLEAN /\ errors' \subseteq ErrorTexts
    BY DEF Restart
  <2>2. /\ pc' \in [Procs -> Positions] /\ opts' \in [Procs -> Options]
        /\ request' \in [Procs -> Request]
    BY OptionsType DEF Restart, StartPc, Positions
  <2>3. /\ todo' \in [Procs -> SUBSET Namespaces] /\ found' \in [Procs -> RecordMap]
        /\ errs' \in [Procs -> SUBSET ErrorTexts] /\ cancelled' \in [Procs -> BOOLEAN]
    BY EmptyType DEF Restart
  <2> QED BY <1>1, <2>1, <2>2, <2>3
          DEF Restart, ServerInv, TypeOK, StoreTypeOK, clusterVars
<1>3. save' = [s \in Savers |-> NotSaving] /\ UNCHANGED <<file, tmp, data, saved>>
  BY DEF Restart, DropDescriptors
<1>4. \A s \in Savers : save'[s].at = "none" /\ save'[s].inode = None
  BY <1>3, NotSavingType
<1>5. FileType' /\ \A s \in Savers : Encodes(s)' /\ Written(s)'
  BY <1>3, <1>4, NotSavingType DEF FileType, ServerInv, Encodes, Written, Opened, Snapped
<1>6. Disk => Disk'
  BY <1>3, <1>5 DEF Disk
<1> QED BY <1>2, <1>5, <1>6 DEF ServerInv

(* Every step is one of three.                                              *)
LEMMA ServerSteps ==
  ASSUME [ServerNext]_serverVars
  PROVE  ScanOnly \/ Restart \/ \E s \in Procs : Persisting(s)
<1>1. CASE UNCHANGED serverVars
  BY <1>1 DEF serverVars, vars, ScanOnly
<1>2. CASE (StartupScan \/ Tick \/ LoopExit) /\ (ReadLocked => UNCHANGED storeVars) /\ UNCHANGED fileVars
  BY <1>2 DEF ScanOnly, Next, LoopStep
<1>3. ASSUME NEW s \in Procs, Scan(s) PROVE ScanOnly
  <2>1. ScanStep(s)
    BY <1>3 DEF Scan, ScanStep
  <2>2. Next
    BY <2>1 DEF Next, LoopStep, ManualStep, Procs
  <2> QED BY <1>3, <2>2 DEF Scan, ScanOnly
<1>4. CASE Outside
  BY <1>4 DEF Outside, ScanOnly, Next, Signal, ChangeCluster
<1>5. ASSUME NEW s \in Manual, Requested(s) PROVE ScanOnly
  <2>1. Next
    BY <1>5 DEF Requested, Next, ManualStep
  <2> QED BY <1>5, <2>1 DEF Requested, ScanOnly
<1> QED BY <1>1, <1>2, <1>3, <1>4, <1>5 DEF ServerNext, LoopServer, Procs

LEMMA ServerNextInv ==
  ASSUME ServerInv, [ServerNext]_serverVars
  PROVE  Keeps
<1>1. CASE ScanOnly
  BY <1>1, ScanOnlyInv DEF Keeps
<1>2. CASE Restart
  BY <1>2, RestartInv DEF Keeps
<1>3. CASE \E s \in Procs : Persisting(s)
  BY <1>3, PersistingInv
<1> QED BY <1>1, <1>2, <1>3, ServerSteps

LEMMA ServerAlways == ServerSpec => []ServerInv
<1>1. ServerInv /\ [ServerNext]_serverVars => ServerInv'
  BY ServerNextInv DEF Keeps
<1> QED BY <1>1, ServerInitInv, PTL DEF ServerSpec

-----------------------------------------------------------------------------
(* Without manual scans, only the loop acts and saves do not overlap.        *)

LoopOnly ==
  /\ \A s \in Manual : pc[s] = "idle" /\ save[s].at = "none"
  /\ request[Loop] = FullRequest
  /\ save[Loop].at # "none" => pc[Loop] = "after"

(* What is being saved is what the scan published.                          *)
Published ==
  /\ save[Loop].at \in Snapped => save[Loop].snap = records
  /\ pc[Loop] \in {"errors", "finish", "after"} => lastScan

FailedImages(recs) ==
  {recs[i].image : i \in {j \in Ids : recs[j] # None /\ recs[j].status = "failed"}}

(* The error texts go with the records of the same scan.                    *)
Texts ==
  /\ pc[Loop] \in {"publish", "errors"} => errs[Loop] \ {CtxDone} = FailedImages(found[Loop])
  /\ pc[Loop] = "errors" => records = found[Loop]
  /\ pc[Loop] # "errors" /\ lastScan => errors \ {CtxDone} = FailedImages(records)

LoopInv == LoopOnly /\ Published /\ Texts

LEMMA LoopIsSaver == Loop \in Procs /\ Loop \in Savers /\ Savers = Manual \cup {Loop}
BY SaversAssumption DEF Procs

LEMMA LoopSavesAlone == LoopOnly => OneSaver
BY LoopIsSaver DEF LoopOnly, OneSaver, Busy

LEMMA LoopInit == ServerInit => LoopInv
<1> SUFFICES ASSUME ServerInit PROVE LoopInv
  OBVIOUS
<1>1. \A s \in Savers : save[s].at = "none"
  BY NotSavingType DEF ServerInit, SaveInit
<1>2. pc[Loop] = "startup" /\ \A s \in Manual : pc[s] = "idle"
  BY LoopIsSaver, LoopIsNotManual DEF ServerInit, Init, StartPc, Procs
<1>3. LoopOnly
  BY <1>1, <1>2, LoopIsSaver DEF ServerInit, Init, LoopOnly
<1>4. Published /\ Texts
  BY <1>1, <1>2, LoopIsSaver DEF ServerInit, Init, StoreInit, Published, Texts, Snapped
<1> QED BY <1>3, <1>4 DEF LoopInv

(* The loop's scan keeps the texts and the records together.                *)
LEMMA ScanTexts ==
  ASSUME ServerInv, LoopInv, Scan(Loop)
  PROVE  Texts' /\ (pc'[Loop] \in {"errors", "finish", "after"} => lastScan')
<1>1. CASE \/ ListNamespaces(Loop) \/ ResolveOwners(Loop)
           \/ \E ns \in Namespaces : ListPods(Loop, ns)
  <2>1. /\ UNCHANGED storeVars /\ pc[Loop] \in {"namespaces", "pods"}
        /\ pc'[Loop] \in {"pods", "abort", "check"}
    BY <1>1, LoopIsSaver DEF ListNamespaces, ListPods, ResolveOwners, ServerInv, TypeOK
  <2> QED BY <2>1 DEF LoopInv, Texts, storeVars
<1>2. CASE CheckRecords(Loop)
  <2>1. PICK verdict \in [FoundImages(found[Loop]) -> Statuses], ctx \in SUBSET {CtxDone} :
          /\ found'[Loop] = [i \in Ids |->
               IF found[Loop][i] = None THEN None
               ELSE [image |-> found[Loop][i].image, status |-> verdict[found[Loop][i].image]]]
          /\ errs'[Loop] = {m \in FoundImages(found[Loop]) : verdict[m] = "failed"} \cup ctx
    BY <1>2, LoopIsSaver DEF CheckRecords, ServerInv, TypeOK
  <2>2. /\ UNCHANGED storeVars /\ pc[Loop] = "check" /\ pc'[Loop] = "publish"
    BY <1>2, LoopIsSaver DEF CheckRecords, ServerInv, TypeOK
  <2>3. \A i \in Ids : found[Loop][i] # None => found[Loop][i] \in Record
    BY LoopIsSaver DEF ServerInv, TypeOK, RecordMap
  <2>4. FoundImages(found[Loop]) \subseteq Images
    BY <2>3 DEF FoundImages, Record
  <2>5. \A i \in Ids :
          /\ found'[Loop][i] = None <=> found[Loop][i] = None
          /\ found[Loop][i] # None =>
               /\ found'[Loop][i].image = found[Loop][i].image
               /\ found'[Loop][i].status = verdict[found[Loop][i].image]
               /\ found[Loop][i].image \in FoundImages(found[Loop])
    <3> SUFFICES ASSUME NEW i \in Ids
                 PROVE  /\ found'[Loop][i] = None <=> found[Loop][i] = None
                        /\ found[Loop][i] # None =>
                             /\ found'[Loop][i].image = found[Loop][i].image
                             /\ found'[Loop][i].status = verdict[found[Loop][i].image]
                             /\ found[Loop][i].image \in FoundImages(found[Loop])
      OBVIOUS
    <3>1. CASE found[Loop][i] = None
      BY <2>1, <3>1
    <3>2. CASE found[Loop][i] # None
      <4>1. found[Loop][i].image \in FoundImages(found[Loop])
        BY <3>2 DEF FoundImages
      <4>2. found'[Loop][i] = [image |-> found[Loop][i].image,
                               status |-> verdict[found[Loop][i].image]]
        BY <2>1, <3>2
      <4>3. found'[Loop][i] \in Record
        BY <2>4, <4>1, <4>2, RecordFields
      <4> QED BY <3>2, <4>1, <4>2, <4>3, NoneIsNoRecord
    <3> QED BY <3>1, <3>2
  <2>6. FailedImages(found[Loop])' = {m \in FoundImages(found[Loop]) : verdict[m] = "failed"}
    BY <2>5 DEF FailedImages, FoundImages
  <2>7. CtxDone \notin FoundImages(found[Loop])
    BY <2>4, CtxDoneIsNoImage
  <2> QED BY <2>1, <2>2, <2>6, <2>7 DEF LoopInv, Texts, storeVars
<1>3. CASE Publish(Loop)
  <2>1. /\ records' = found[Loop] /\ lastScan' /\ UNCHANGED <<found, errs>>
        /\ pc[Loop] = "publish" /\ pc'[Loop] = "errors"
    BY <1>3, LoopIsSaver DEF Publish, SetRecords, Scoped, ServerInv, LoopInv, LoopOnly, TypeOK
  <2> QED BY <2>1 DEF LoopInv, Texts
<1>4. CASE PublishErrors(Loop)
  <2>1. /\ UNCHANGED <<records, lastScan, found, errs>> /\ errors' = errs[Loop]
        /\ pc[Loop] = "errors" /\ pc'[Loop] = "finish"
    BY <1>4, LoopIsSaver DEF PublishErrors, SetErrors, ServerInv, TypeOK
  <2> QED BY <2>1 DEF LoopInv, Texts, Published
<1>5. CASE Finish(Loop)
  <2>1. /\ UNCHANGED <<records, lastScan, errors>> /\ pc[Loop] \in {"finish", "abort"}
        /\ pc'[Loop] = IF pc[Loop] = "finish" THEN "after" ELSE "idle"
    BY <1>5, LoopIsSaver DEF Finish, LowerFlag, SetScanning, ServerInv, TypeOK
  <2> QED BY <2>1 DEF LoopInv, Texts, Published
<1> QED BY <1>1, <1>2, <1>3, <1>4, <1>5 DEF Scan

LEMMA LoopScanOnly ==
  ASSUME ServerInv, LoopInv, UNCHANGED fileVars,
         StartupScan \/ Tick \/ LoopExit \/ Outside \/ Scan(Loop)
  PROVE  LoopInv'
<1>1. \A s \in Manual : s # Loop /\ s \in Procs
  BY LoopIsNotManual DEF Procs
<1>2. UNCHANGED save
  BY DEF fileVars
<1>3. CASE Outside
  <2>1. UNCHANGED <<storeVars, pc, opts, request, todo, found, errs>>
    BY <1>3 DEF Outside, Signal, ChangeCluster, procVars
  <2> QED BY <1>2, <2>1 DEF LoopInv, LoopOnly, Published, Texts, storeVars
<1>4. CASE LoopExit
  <2>1. /\ UNCHANGED <<storeVars, opts, request, todo, found, errs>>
        /\ pc[Loop] = "idle" /\ pc'[Loop] = "exited"
        /\ \A s \in Manual : pc'[s] = pc[s]
    BY <1>1, <1>4, LoopIsSaver DEF LoopExit, ServerInv, TypeOK
  <2> QED BY <1>2, <2>1 DEF LoopInv, LoopOnly, Published, Texts, storeVars
<1>5. ASSUME NEW o, Begin(Loop, o), pc[Loop] \in {"startup", "idle"} PROVE LoopInv'
  <2>1. /\ UNCHANGED <<records, lastScan, errors, request, found, errs>>
        /\ pc'[Loop] \in {"namespaces", "pods"}
        /\ \A s \in Manual : pc'[s] = pc[s]
    BY <1>1, <1>5, LoopIsSaver DEF Begin, SetScanning, ServerInv, TypeOK
  <2> QED BY <1>2, <1>5, <2>1 DEF LoopInv, LoopOnly, Published, Texts
<1>6. CASE Scan(Loop)
  <2>1. \A s \in Manual : pc'[s] = pc[s]
    BY <1>1, <1>6, LoopIsSaver, ScanStepMoves DEF Scan, ScanStep, Untouched, ServerInv
  <2>2. pc[Loop] # "after"
    BY <1>6 DEF Scan, ListNamespaces, ListPods, ResolveOwners, CheckRecords, Publish,
                PublishErrors, Finish
  <2>3. save[Loop].at = "none"
    BY <2>2 DEF LoopInv, LoopOnly
  <2>4. request'[Loop] = FullRequest
    BY <1>6, LoopIsSaver DEF Scan, ListNamespaces, ListPods, ResolveOwners, CheckRecords, Publish,
                PublishErrors, Finish, LoopInv, LoopOnly, ServerInv, TypeOK
  <2> QED BY <1>2, <1>6, <2>1, <2>3, <2>4, ScanTexts DEF LoopInv, LoopOnly, Published, Snapped
<1> QED BY <1>3, <1>4, <1>5, <1>6 DEF StartupScan, Tick

(* A step of Save by the loop, and what becomes of its record.              *)
LEMMA LoopSaves ==
  ASSUME ServerInv, LoopInv, pc[Loop] = "after", NEW r \in SaveRecord,
         save' = [save EXCEPT ![Loop] = r], r.at \in Snapped => r.snap = records,
         UNCHANGED <<storeVars, request, found, errs>>,
         \/ UNCHANGED pc
         \/ pc' = [pc EXCEPT ![Loop] = "idle"] /\ r.at = "none"
  PROVE  LoopInv'
<1>1. save'[Loop] = r /\ \A s \in Manual : save'[s] = save[s]
  BY LoopIsSaver, LoopIsNotManual, FileFacts
<1>2. \/ pc'[Loop] = "after"
      \/ pc'[Loop] = "idle" /\ r.at = "none"
  BY LoopIsSaver DEF ServerInv, TypeOK
<1>3. ASSUME NEW s \in Manual PROVE pc'[s] = pc[s]
  <2>1. s # Loop /\ s \in Procs
    BY LoopIsNotManual DEF Procs
  <2> QED BY <2>1 DEF ServerInv, TypeOK
<1> QED BY <1>1, <1>2, <1>3 DEF LoopInv, LoopOnly, Published, Texts, storeVars

LEMMA LoopPersists ==
  ASSUME ServerInv, LoopInv, Persisting(Loop)
  PROVE  LoopInv'
<1>1. pc[Loop] = "after" /\ save[Loop] \in SaveRecord /\ Loop \in Savers
  BY LoopIsSaver, FileFacts DEF Persisting, SaveStep, SaveFails, SaveEnds, AfterScan
<1>2. CASE SaveStep(Loop)
  <2>1. UNCHANGED <<storeVars, request, found, errs>> /\ UNCHANGED pc
    BY <1>2 DEF SaveStep, vars, procVars
  <2>2. ASSUME NEW n \in Inodes,
               save' = [save EXCEPT ![Loop] = [NotSaving EXCEPT !.at = "opened", !.inode = n]]
        PROVE  LoopInv'
    <3> DEFINE r == [NotSaving EXCEPT !.at = "opened", !.inode = n]
    <3>1. r \in SaveRecord /\ r.at = "opened"
      BY DEF NotSaving, SaveRecord
    <3> HIDE DEF r
    <3>2. save' = [save EXCEPT ![Loop] = r]
      BY <2>2 DEF r
    <3> QED BY <1>1, <2>1, <3>1, <3>2, LoopSaves DEF Snapped
  <2>3. CASE OpenTmp(Loop)
    BY <1>1, <2>2, <2>3, FileFacts, FreshInode DEF OpenTmp
  <2>4. CASE LockStore(Loop)
    <3> DEFINE r == [save[Loop] EXCEPT !.at = "encoding", !.snap = records,
                                       !.left = {i \in Ids : records[i] # None}]
    <3>1. r \in SaveRecord /\ r.snap = records
      BY <1>1, FileFacts DEF SaveRecord
    <3>2. save' = [save EXCEPT ![Loop] = r]
      BY <2>4 DEF LockStore
    <3> HIDE DEF r
    <3> QED BY <1>1, <2>1, <3>1, <3>2, LoopSaves
  <2>5. ASSUME NEW r \in SaveRecord, r.snap = save[Loop].snap, save[Loop].at \in Snapped,
               save' = [save EXCEPT ![Loop] = r]
        PROVE  LoopInv'
    <3>1. r.snap = records
      BY <2>5 DEF LoopInv, Published
    <3> QED BY <1>1, <2>1, <2>5, <3>1, LoopSaves
  <2>6. CASE UnlockStore(Loop)
    <3> DEFINE r == [save[Loop] EXCEPT !.at = "encoded"]
    <3>1. r \in SaveRecord /\ r.snap = save[Loop].snap
      BY <1>1 DEF SaveRecord
    <3>2. save' = [save EXCEPT ![Loop] = r] /\ save[Loop].at \in Snapped
      BY <2>6, FileFacts DEF UnlockStore, Snapped
    <3> HIDE DEF r
    <3> QED BY <2>5, <3>1, <3>2
  <2>7. CASE Close(Loop)
    <3> DEFINE r == [save[Loop] EXCEPT !.at = "closed", !.inode = None, !.pos = 0]
    <3>1. r \in SaveRecord /\ r.snap = save[Loop].snap
      BY <1>1 DEF SaveRecord
    <3>2. save' = [save EXCEPT ![Loop] = r] /\ save[Loop].at \in Snapped
      BY <2>7 DEF Close, Snapped
    <3> HIDE DEF r
    <3> QED BY <2>5, <3>1, <3>2
  <2>8. ASSUME NEW i \in Ids, Encode(Loop, i) PROVE LoopInv'
    <3> DEFINE r == [save[Loop] EXCEPT !.pos = @ + LineLen[i], !.left = @ \ {i}]
    <3>1. r \in SaveRecord /\ r.snap = save[Loop].snap
      <4>1. save[Loop].pos + LineLen[i] \in Nat
        BY <1>1, LineLenAssumption DEF SaveRecord
      <4> QED BY <1>1, <4>1 DEF SaveRecord
    <3>2. save' = [save EXCEPT ![Loop] = r] /\ save[Loop].at \in Snapped
      <4>1. save' = [save EXCEPT ![Loop].pos = @ + LineLen[i], ![Loop].left = @ \ {i}]
        BY <2>8 DEF Encode
      <4> QED BY <1>1, <2>8, <4>1, FileFacts DEF Encode, Snapped, SaveRecord
    <3> HIDE DEF r
    <3> QED BY <2>5, <3>1, <3>2
  <2> QED BY <1>2, <2>3, <2>4, <2>6, <2>7, <2>8 DEF SaveStep
<1>3. CASE SaveFails(Loop)
  <2>1. UNCHANGED <<storeVars, request, found, errs>> /\ UNCHANGED pc
    BY <1>3 DEF SaveFails, procVars
  <2>2. CASE OpenFails(Loop)
    <3> DEFINE r == [save[Loop] EXCEPT !.at = "unsaved"]
    <3>1. r \in SaveRecord /\ r.at = "unsaved"
      BY <1>1 DEF SaveRecord
    <3>2. save' = [save EXCEPT ![Loop] = r]
      BY <2>2, FileFacts DEF OpenFails
    <3> HIDE DEF r
    <3> QED BY <1>1, <2>1, <3>1, <3>2, LoopSaves DEF Snapped
  <2>3. CASE CloseFails(Loop) \/ \E i \in Ids : EncodeFails(Loop, i)
    <3> DEFINE r == [NotSaving EXCEPT !.at = "failed"]
    <3>1. r \in SaveRecord /\ r.at = "failed"
      BY DEF NotSaving, SaveRecord
    <3>2. save' = [save EXCEPT ![Loop] = r]
      BY <2>3 DEF CloseFails, EncodeFails
    <3> HIDE DEF r
    <3> QED BY <1>1, <2>1, <3>1, <3>2, LoopSaves DEF Snapped
  <2>4. CASE RenameFails(Loop)
    <3> DEFINE r == [NotSaving EXCEPT !.at = "unsaved"]
    <3>1. r \in SaveRecord /\ r.at = "unsaved"
      BY DEF NotSaving, SaveRecord
    <3>2. save' = [save EXCEPT ![Loop] = r]
      BY <2>4 DEF RenameFails
    <3> HIDE DEF r
    <3> QED BY <1>1, <2>1, <3>1, <3>2, LoopSaves DEF Snapped
  <2> QED BY <1>3, <2>2, <2>3, <2>4 DEF SaveFails
<1>4. CASE SaveEnds(Loop)
  <2>1. UNCHANGED <<storeVars, request, found, errs>> /\ pc' = [pc EXCEPT ![Loop] = "idle"]
    BY <1>4 DEF SaveEnds, AfterScan
  <2>2. save' = [save EXCEPT ![Loop] = NotSaving]
    BY <1>4 DEF SaveEnds, Rename, GiveUp
  <2> QED BY <1>1, <2>1, <2>2, NotSavingType, LoopSaves DEF Snapped
<1> QED BY <1>2, <1>3, <1>4 DEF Persisting

LEMMA LoopRestarts ==
  ASSUME Restart
  PROVE  LoopInv'
<1>1. \A s \in Savers : save'[s].at = "none"
  BY NotSavingType DEF Restart, DropDescriptors
<1>2. pc'[Loop] = "startup" /\ \A s \in Manual : pc'[s] = "idle"
  BY LoopIsSaver, LoopIsNotManual DEF Restart, StartPc, Procs
<1>3. request'[Loop] = FullRequest /\ lastScan' = FALSE
  BY LoopIsSaver DEF Restart
<1> QED BY <1>1, <1>2, <1>3, LoopIsSaver DEF LoopInv, LoopOnly, Published, Texts, Snapped

LEMMA LoopNext ==
  ASSUME ServerInv, LoopInv, [LoopServer]_serverVars
  PROVE  LoopInv'
<1>1. CASE UNCHANGED serverVars
  BY <1>1 DEF serverVars, vars, storeVars, procVars, fileVars, LoopInv, LoopOnly, Published, Texts
<1>2. CASE /\ StartupScan \/ Tick \/ LoopExit
           /\ ReadLocked => UNCHANGED storeVars
           /\ UNCHANGED fileVars
  BY <1>2, LoopScanOnly
<1>3. CASE Scan(Loop)
  BY <1>3, LoopScanOnly DEF Scan
<1>4. CASE Outside
  BY <1>4, LoopScanOnly DEF Outside
<1>5. CASE Persisting(Loop)
  BY <1>5, LoopPersists
<1>6. CASE Restart
  BY <1>6, LoopRestarts
<1> QED BY <1>1, <1>2, <1>3, <1>4, <1>5, <1>6 DEF LoopServer

LEMMA LoopIsServer == [LoopServer]_serverVars => [ServerNext]_serverVars
BY DEF ServerNext

LEMMA LoopAlways == LoopServerSpec => [](ServerInv /\ Disk /\ LoopInv)
<1>1. ServerInv /\ Disk /\ LoopInv /\ [LoopServer]_serverVars => (ServerInv /\ Disk /\ LoopInv)'
  <2> SUFFICES ASSUME ServerInv, Disk, LoopInv, [LoopServer]_serverVars
               PROVE  (ServerInv /\ Disk /\ LoopInv)'
    OBVIOUS
  <2>1. Keeps
    BY LoopIsServer, ServerNextInv
  <2>2. LoopInv'
    BY LoopNext
  <2>3. OneSaver /\ OneSaver'
    <3>1. LoopOnly /\ LoopOnly'
      BY <2>2 DEF LoopInv
    <3>2. OneSaver
      BY <3>1, LoopSavesAlone
    <3>3. OneSaver'
      BY <3>1, LoopSavesAlone, PTL
    <3> QED BY <3>2, <3>3
  <2> QED BY <2>1, <2>2, <2>3 DEF Keeps
<1> QED BY <1>1, ServerInitInv, LoopInit, PTL DEF LoopServerSpec

-----------------------------------------------------------------------------
(* The data file.                                                           *)

(* What Load makes of a file that holds what was saved.                     *)
LEMMA LoadsTheSaved ==
  ASSUME Disk
  PROVE  Load = IF saved # None /\ Fits(saved) THEN saved ELSE Empty
<1>1. CASE data = None
  BY <1>1 DEF Disk, Load
<1>2. CASE data # None
  <2>1. saved \in RecordMap /\ Holds(file[data], saved, {})
    BY <1>2 DEF Disk
  <2>2. saved = [i \in Ids |-> RecordIn(file[data], i)]
    BY <2>1, HoldsRecords
  <2>3. saved # None
    BY <2>1, NoneIsNoRecordMap
  <2>4. Loadable(file[data]) <=> Fits(saved)
    BY <2>1, HoldsFits
  <2> QED BY <1>2, <2>2, <2>3, <2>4 DEF Load
<1> QED BY <1>1, <1>2

LEMMA DataIsSaved == ServerInv /\ Disk => SaveIsAtomic
<1> SUFFICES ASSUME ServerInv, Disk PROVE SaveIsAtomic
  OBVIOUS
<1>1. CASE data = None
  BY <1>1 DEF Disk, SaveIsAtomic
<1>2. CASE data # None
  <2>1. saved \in RecordMap /\ Holds(file[data], saved, {})
    BY <1>2 DEF Disk
  <2>2. WellFormed(file[data]) /\ saved = [i \in Ids |-> RecordIn(file[data], i)]
    BY <2>1, HoldsRecords
  <2>3. saved # None
    BY <2>1, NoneIsNoRecordMap
  <2>4. Load = IF Fits(saved) THEN saved ELSE Empty
    BY <2>3, LoadsTheSaved
  <2> QED BY <1>2, <2>2, <2>4 DEF SaveIsAtomic
<1> QED BY <1>1, <1>2

(* Every step of a deployment without manual scans is one of DurableStore.  *)
LEMMA DurableSteps ==
  ASSUME ServerInv, Disk, LoopInv, [LoopServer]_serverVars
  PROVE  Durable!Next \/ UNCHANGED Durable!vars
<1>1. CASE UNCHANGED <<records, lastScan, saved>>
  BY <1>1 DEF Durable!vars
<1>2. CASE UNCHANGED serverVars
  BY <1>1, <1>2 DEF serverVars, vars, storeVars, fileVars
<1>3. CASE (StartupScan \/ Tick \/ LoopExit \/ Outside) /\ UNCHANGED fileVars
  BY <1>1, <1>3 DEF StartupScan, Tick, Begin, SetScanning, LoopExit, Outside, Signal, ChangeCluster,
                    storeVars, fileVars
<1>4. CASE Scan(Loop)
  <2>1. UNCHANGED saved
    BY <1>4 DEF Scan, fileVars
  <2>2. CASE Publish(Loop)
    <3>1. records' = found[Loop] /\ lastScan' = TRUE
      BY <2>2 DEF Publish, SetRecords, Scoped, LoopInv, LoopOnly
    <3>2. found[Loop] \in RecordMap
      BY LoopIsSaver DEF ServerInv, TypeOK
    <3> QED BY <2>1, <3>1, <3>2 DEF Durable!Publish, Durable!Next
  <2>3. CASE ~Publish(Loop)
    <3>1. UNCHANGED <<records, lastScan>>
      BY <1>4, <2>3 DEF Scan, ListNamespaces, ListPods, ResolveOwners, CheckRecords,
                        PublishErrors, SetErrors, Finish, LowerFlag, SetScanning, storeVars
    <3> QED BY <1>1, <2>1, <3>1
  <2> QED BY <2>2, <2>3
<1>5. CASE SaveStep(Loop) \/ SaveFails(Loop)
  BY <1>1, <1>5 DEF SaveStep, SaveFails, OpenTmp, LockStore, Encode, UnlockStore, Close, OpenFails,
                    CloseFails, RenameFails, EncodeFails, vars, storeVars
<1>6. CASE SaveEnds(Loop)
  <2>1. UNCHANGED <<records, lastScan>> /\ lastScan = TRUE
    BY <1>6 DEF SaveEnds, AfterScan, storeVars, LoopInv, Published, ServerInv, TypeOK, StoreTypeOK
  <2>2. CASE GiveUp(Loop)
    BY <1>1, <2>1, <2>2 DEF GiveUp
  <2>3. CASE Rename(Loop)
    <3>1. tmp # None /\ save[Loop].snap = records
      BY <2>3, LoopIsSaver DEF Rename, Disk, Written, Snapped, LoopInv, Published
    <3> QED BY <2>1, <2>3, <3>1 DEF Rename, Durable!Save, Durable!Next
  <2> QED BY <1>6, <2>2, <2>3 DEF SaveEnds
<1>7. CASE Restart
  <2>1. records' = Load /\ lastScan' = FALSE /\ UNCHANGED saved
    BY <1>7 DEF Restart, DropDescriptors
  <2>2. saved \in {recs \in RecordMap : Fits(recs)} <=> saved # None /\ Fits(saved)
    BY FileFacts, NoneIsNoRecordMap
  <2> QED BY <2>1, <2>2, LoadsTheSaved DEF Durable!Restart, Durable!Next
<1>8. LoopServer => \/ (StartupScan \/ Tick \/ LoopExit \/ Outside) /\ UNCHANGED fileVars
                    \/ Scan(Loop) \/ Persisting(Loop) \/ Restart
  BY DEF LoopServer, Outside
<1> QED BY <1>2, <1>3, <1>4, <1>5, <1>6, <1>7, <1>8 DEF Persisting

-----------------------------------------------------------------------------
(* The theorems.                                                            *)

(* Scans, saves, crashes and restarts keep every variable its type, with    *)
(* saves that overlap too: Load makes records of whatever they leave in the *)
(* file, or nothing.                                                        *)
THEOREM ServerTypes == ServerSpec => []ServerTypeOK
<1>1. ServerInv => ServerTypeOK
  <2> SUFFICES ASSUME ServerInv PROVE SaveTypeOK
    BY DEF ServerTypeOK, ServerInv
  <2>1. \A n \in Inodes : \A k \in DOMAIN file[n] : file[n][k] \in Cell \cup {Hole}
    BY ElementOfSeq, LenProperties DEF ServerInv, FileType, Cells
  <2> QED BY <2>1 DEF ServerInv, FileType, SaveRecord, SaveTypeOK
<1> QED BY ServerAlways, <1>1, PTL

(* As long as saves do not overlap, whoever runs the scans and whatever     *)
(* write fails or process is killed, the data file holds what the last      *)
(* successful Save had encoded, and loading it gives that, or nothing if    *)
(* one of its lines is too long for Load (Save, Load).                      *)
THEOREM SavesAloneAreAtomic == ServerSpec /\ []OneSaver => []SaveIsAtomic
<1>1. ServerInv /\ Disk /\ OneSaver /\ OneSaver' /\ [ServerNext]_serverVars => (ServerInv /\ Disk)'
  BY ServerNextInv DEF Keeps
<1> QED BY <1>1, ServerInitInv, DataIsSaved, PTL DEF ServerSpec

(* A deployment without manual scans needs no such condition.               *)
THEOREM CrashesLeaveTheFile == LoopServerSpec => []SaveIsAtomic
BY LoopAlways, DataIsSaved, PTL

(* It keeps results as DurableStore does: a file that takes many writes,    *)
(* any of which may fail or be cut off by the end of the process, is no     *)
(* different from one written in a step, and a start finds what it holds,   *)
(* or nothing if one of its lines is too long (main, Run, Save, Load).      *)
THEOREM DeploymentsAreDurable == LoopServerSpec => KeepsResults
<1>1. ServerInit => Durable!Init
  BY DEF ServerInit, Init, StoreInit, SaveInit, Durable!Init
<1>2. ServerInv /\ Disk /\ LoopInv /\ [LoopServer]_serverVars => [Durable!Next]_(Durable!vars)
  BY DurableSteps
<1> QED BY <1>1, <1>2, LoopAlways, PTL DEF LoopServerSpec, KeepsResults, Durable!Spec

(* The error texts reported are those of the records stored, but between    *)
(* the two calls that publish them, across failed scans and restarts (Run). *)
THEOREM ErrorsGoWithRecords == LoopServerSpec => []ErrorsMatchRecords
<1>1. LoopInv => ErrorsMatchRecords
  BY LoopIsSaver DEF LoopInv, Texts, ErrorsMatchRecords, FailedImages
<1> QED BY LoopAlways, <1>1, PTL

(* The flag that a new process starts with, and the one a failed save       *)
(* leaves behind, are down unless a scan is under way (Run, RunScoped).     *)
THEOREM FlagSurvivesRestarts == ServerSpec => []QuiescentNotScanning
<1>1. ServerInv /\ QuiescentNotScanning /\ [ServerNext]_serverVars => QuiescentNotScanning'
  <2> SUFFICES ASSUME ServerInv, QuiescentNotScanning, [ServerNext]_serverVars
               PROVE  QuiescentNotScanning'
    OBVIOUS
  <2>1. CASE [Next]_vars
    BY <2>1, FlagNext DEF ServerInv
  <2>2. CASE Restart
    BY <2>2 DEF Restart, QuiescentNotScanning
  <2>3. ASSUME NEW s \in Procs, Persisting(s) PROVE QuiescentNotScanning'
    <3>1. CASE SaveStep(s)
      BY <2>1, <3>1 DEF SaveStep
    <3>2. CASE SaveFails(s)
      BY <3>2 DEF SaveFails, storeVars, procVars, QuiescentNotScanning
    <3>3. CASE SaveEnds(s)
      BY <2>3, <3>3, FlagScanStep DEF SaveEnds, ScanStep, ServerInv
    <3> QED BY <2>3, <3>1, <3>2, <3>3 DEF Persisting
  <2> QED BY <2>1, <2>2, <2>3, ServerSteps DEF ScanOnly
<1>2. ServerInit => QuiescentNotScanning
  BY FlagInit DEF ServerInit
<1> QED BY <1>1, <1>2, ServerAlways, PTL DEF ServerSpec

(* A scoped manual scan replaces just what it was asked for, whatever was   *)
(* saved, lost or loaded before it (RunScoped, ReplaceWhere).               *)
THEOREM ScopeSurvivesRestarts == ServerSpec => ScopedPublishLocal
<1>1. ServerInv /\ ScopeInv /\ [ServerNext]_serverVars => ScopeInv' /\ [ScopedPublishStep]_vars
  <2> SUFFICES ASSUME ServerInv, ScopeInv, [ServerNext]_serverVars
               PROVE  ScopeInv' /\ [ScopedPublishStep]_vars
    OBVIOUS
  <2>1. CASE [Next]_vars
    BY <2>1, ScopeNext, ScopedPublishNext DEF ServerInv
  <2>2. CASE Restart
    <3>1. \A s \in Manual : s \in Procs /\ pc'[s] = "idle" /\ found'[s] = Empty
      BY <2>2, LoopIsNotManual DEF Restart, StartPc, Procs
    <3> QED BY <3>1 DEF ScopeInv, WithinScope, Active, ScopedPublishStep
  <2>3. ASSUME NEW s \in Procs, Persisting(s) PROVE ScopeInv' /\ [ScopedPublishStep]_vars
    <3>1. CASE SaveStep(s)
      BY <2>1, <3>1 DEF SaveStep
    <3>2. CASE SaveFails(s)
      BY <3>2 DEF SaveFails, procVars, ScopeInv, WithinScope, ScopedPublishStep
    <3>3. CASE SaveEnds(s)
      <4>1. Next
        BY <3>3 DEF SaveEnds, Next, LoopStep, ManualStep, ScanStep, Procs
      <4> QED BY <2>1, <4>1
    <3> QED BY <2>3, <3>1, <3>2, <3>3 DEF Persisting
  <2> QED BY <2>1, <2>2, <2>3, ServerSteps DEF ScanOnly
<1>2. ServerInit => ScopeInv
  BY ScopeInit DEF ServerInit
<1>3. ServerSpec => [][ScopedPublishStep]_vars
  BY <1>1, <1>2, ServerAlways, PTL DEF ServerSpec
<1> QED BY <1>3 DEF ScopedPublishLocal, ScopedPublishStep
=============================================================================
