------------------------------ MODULE SaveFile -------------------------------
(* Store.Save and Store.Load (backend/internal/cache/store.go) on a POSIX    *)
(* file system that survives the process.                                    *)
(*                                                                           *)
(* Two names matter, the data file and its .tmp neighbour.  A file is a      *)
(* sequence of cells; the line of a record takes LineLen cells, so that half *)
(* a line can be told from a whole one.  A saver writes through its own file *)
(* descriptor at its own offset, wherever the name points by then.  The read *)
(* lock lets several savers encode at once; nothing else serialises them.    *)
(* A power failure (Save does not sync) is not modelled.                     *)
EXTENDS Store, Sequences, FiniteSetsExt

CONSTANTS Savers,    \* processes that may call Save
          Inodes,    \* enough for both names and every open descriptor
          LineLen,   \* cells a record's line takes
          MaxLine    \* cells of the longest line Load can read, 64 KiB

Hole == [id |-> None, rec |-> None, part |-> 0]
Cell == [id : Ids, rec : Record, part : Nat]
Line(i, r) == [k \in 1..LineLen[i] |-> [id |-> i, rec |-> r, part |-> k]]

ASSUME NoneIsNoRecordMap == None \notin RecordMap
ASSUME LineLenAssumption == LineLen \in [Ids -> Nat \ {0}] /\ MaxLine \in Nat
ASSUME InodeAssumption ==
  /\ None \notin Inodes
  /\ \A n \in Inodes \cup {None}, s \in Savers : \A open \in [Savers \ {s} -> Inodes \cup {None}] :
       Inodes \ ({n} \cup {open[t] : t \in Savers \ {s}}) # {}

VARIABLES file,       \* the content of every inode
          tmp, data,  \* the inode the name refers to, None when there is no such file
          save,       \* of each saver: where it is, its descriptor, what is left to encode
          saved       \* what the last Save that returned nil had encoded, None before one did

fileVars == <<file, tmp, data, save, saved>>

NotSaving == [at |-> "none", inode |-> None, pos |-> 0, left |-> {}, snap |-> None]

SaveTypeOK ==
  /\ \A n \in Inodes : \A k \in DOMAIN file[n] : file[n][k] \in Cell \cup {Hole}
  /\ tmp \in Inodes \cup {None} /\ data \in Inodes \cup {None}
  /\ \A s \in Savers :
       /\ save[s].at \in {"none", "opened", "encoding", "encoded", "closed", "failed", "unsaved"}
       /\ save[s].inode \in Inodes \cup {None}
       /\ save[s].left \subseteq Ids
       /\ save[s].snap \in RecordMap \cup {None}
  /\ saved \in RecordMap \cup {None}

SaveInit ==
  /\ file = [n \in Inodes |-> <<>>]
  /\ tmp = None /\ data = None
  /\ save = [s \in Savers |-> NotSaving]
  /\ saved = None

InUse == ({tmp, data} \cup {save[s].inode : s \in Savers}) \ {None}
ReadLocked == \E s \in Savers : save[s].at = "encoding"

(* Mutant: the records are written to the data file itself.                 *)
OpenData(s) ==
  /\ save[s].at = "none"
  /\ \E n \in IF data # None THEN {data} ELSE {CHOOSE m \in Inodes : m \notin InUse} :
       /\ data' = n
       /\ file' = [file EXCEPT ![n] = <<>>]
       /\ save' = [save EXCEPT ![s] = [NotSaving EXCEPT !.at = "opened", !.inode = n]]
  /\ UNCHANGED <<tmp, saved>>

(* os.Create truncates the file the name refers to, or makes a new one.     *)
OpenTmp(s) ==
  /\ save[s].at = "none"
  /\ \E n \in IF tmp # None THEN {tmp} ELSE {CHOOSE m \in Inodes : m \notin InUse} :
       /\ tmp' = n
       /\ file' = [file EXCEPT ![n] = <<>>]
       /\ save' = [save EXCEPT ![s] = [NotSaving EXCEPT !.at = "opened", !.inode = n]]
  /\ UNCHANGED <<data, saved>>

(* Neither the directory nor the file can be made: Save returns at once.    *)
OpenFails(s) ==
  /\ save[s].at = "none"
  /\ save' = [save EXCEPT ![s].at = "unsaved"]
  /\ UNCHANGED <<file, tmp, data, saved>>

(* RLock: the store stands still until all records are encoded.             *)
LockStore(s) ==
  /\ save[s].at = "opened"
  /\ save' = [save EXCEPT ![s] = [@ EXCEPT !.at = "encoding", !.snap = records,
                                           !.left = {i \in Ids : records[i] # None}]]
  /\ UNCHANGED <<file, tmp, data, saved>>

WriteAt(content, pos, cells) ==
  [k \in 1..Max({Len(content), pos + Len(cells)}) |->
     IF k \in pos+1..pos+Len(cells) THEN cells[k - pos]
     ELSE IF k <= Len(content) THEN content[k] ELSE Hole]

(* Encode writes one line at the descriptor's offset; map order is random.  *)
Encode(s, i) ==
  /\ save[s].at = "encoding" /\ i \in save[s].left
  /\ file' = [file EXCEPT ![save[s].inode] = WriteAt(@, save[s].pos, Line(i, records[i]))]
  /\ save' = [save EXCEPT ![s].pos = @ + LineLen[i], ![s].left = @ \ {i}]
  /\ UNCHANGED <<tmp, data, saved>>

(* The disk is full: some of the line is written, Save gives up.            *)
EncodeFails(s, i) ==
  /\ save[s].at = "encoding" /\ i \in save[s].left
  /\ \E k \in 0..LineLen[i] - 1 :
       file' = [file EXCEPT ![save[s].inode] =
                  WriteAt(@, save[s].pos, SubSeq(Line(i, records[i]), 1, k))]
  /\ save' = [save EXCEPT ![s] = [NotSaving EXCEPT !.at = "failed"]]
  /\ UNCHANGED <<tmp, data, saved>>

UnlockStore(s) ==
  /\ save[s].at = "encoding" /\ save[s].left = {}
  /\ save' = [save EXCEPT ![s].at = "encoded"]
  /\ UNCHANGED <<file, tmp, data, saved>>

Close(s) ==
  /\ save[s].at = "encoded"
  /\ save' = [save EXCEPT ![s] = [@ EXCEPT !.at = "closed", !.inode = None, !.pos = 0]]
  /\ UNCHANGED <<file, tmp, data, saved>>

CloseFails(s) ==
  /\ save[s].at = "encoded"
  /\ save' = [save EXCEPT ![s] = [NotSaving EXCEPT !.at = "failed"]]
  /\ UNCHANGED <<file, tmp, data, saved>>

(* After a failed write or Close Save removes the temporary name.           *)
GiveUp(s) ==
  /\ save[s].at \in {"failed", "unsaved"}
  /\ tmp' = IF save[s].at = "failed" THEN None ELSE tmp
  /\ save' = [save EXCEPT ![s] = NotSaving]
  /\ UNCHANGED <<file, data, saved>>

(* os.Rename, which fails when another saver already moved the file away.   *)
Rename(s) ==
  /\ save[s].at = "closed"
  /\ IF tmp # None
       THEN data' = tmp /\ tmp' = None /\ saved' = save[s].snap
       ELSE UNCHANGED <<tmp, data, saved>>
  /\ save' = [save EXCEPT ![s] = NotSaving]
  /\ UNCHANGED file

(* It fails for another reason: Save returns, the temporary file stays.     *)
RenameFails(s) ==
  /\ save[s].at = "closed"
  /\ save' = [save EXCEPT ![s] = [NotSaving EXCEPT !.at = "unsaved"]]
  /\ UNCHANGED <<file, tmp, data, saved>>

-----------------------------------------------------------------------------
(* Load.                                                                    *)

(* Every line is there from its first cell to its last.                     *)
WellFormed(content) ==
  \A k \in DOMAIN content :
    /\ content[k] # Hole
    /\ content[k].part > 1 =>
         k > 1 /\ content[k-1] = [content[k] EXCEPT !.part = @ - 1]
    /\ content[k].part < LineLen[content[k].id] =>
         k < Len(content) /\ content[k+1] = [content[k] EXCEPT !.part = @ + 1]

(* Of several lines with one ID the last counts.                            *)
RecordIn(content, i) ==
  LET ks == {k \in DOMAIN content : content[k].id = i}
  IN IF ks = {} THEN None ELSE content[Max(ks)].rec

(* The buffer of bufio.Scanner has a limit that Save knows nothing of.      *)
Loadable(content) ==
  /\ WellFormed(content)
  /\ \A k \in DOMAIN content : LineLen[content[k].id] <= MaxLine

(* A missing file is no error; a line that does not decode or fit is, and   *)
(* leaves the store as New made it.                                         *)
Load == IF data = None \/ ~Loadable(file[data]) THEN Empty
        ELSE [i \in Ids |-> RecordIn(file[data], i)]

(* The process is gone: descriptors are closed, the files stay.             *)
DropDescriptors ==
  /\ save' = [s \in Savers |-> NotSaving]
  /\ UNCHANGED <<file, tmp, data, saved>>
=============================================================================
