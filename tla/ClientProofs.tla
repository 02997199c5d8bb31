---------------------------- MODULE ClientProofs -----------------------------
(* Proofs about Client, for any finite number of scans, any changes of the   *)
(* filter and any requests that fail or overtake each other.                 *)
EXTENDS Client, FiniteSetTheorems, TLAPS

-----------------------------------------------------------------------------
(* The requests for records under way.                                      *)

LEMMA PutIn ==
  ASSUME NEW B, IsABag(B), NEW v
  PROVE  /\ IsABag(B (+) SetToBag({v}))
         /\ BagToSet(B (+) SetToBag({v})) = BagToSet(B) \cup {v}
BY DEF IsABag, BagToSet, SetToBag, (+)

LEMMA TakenOut ==
  ASSUME NEW B, IsABag(B), NEW v
  PROVE  /\ IsABag(B (-) SetToBag({v}))
         /\ BagToSet(B (-) SetToBag({v})) \subseteq BagToSet(B)
         /\ BagToSet(B) \subseteq BagToSet(B (-) SetToBag({v})) \cup {v}
BY DEF IsABag, BagToSet, SetToBag, (-)

LEMMA OneAnswer ==
  ASSUME NEW v
  PROVE  IsABag(SetToBag({v})) /\ BagToSet(SetToBag({v})) = {v}
BY DEF IsABag, BagToSet, SetToBag

-----------------------------------------------------------------------------
(* The invariant.                                                           *)

Over == {s \in Scans : scan[s] \in {"published", "done"}}

(* A scan publishes once, and no answer is newer than the records.          *)
PageInv ==
  /\ scan \in [Scans -> {"none", "spawned", "running", "published", "done"}]
  /\ flag \in Flags /\ version \in Nat /\ version <= Cardinality(Over)
  /\ status \in Flags \cup {"none"}
  /\ shown \in Nat \cup {None} /\ (shown # None => shown <= version)
  /\ received \in Nat /\ received <= version
  /\ poll \in Flags \cup {"timer"}
  /\ user \in Flags \cup {"idle", "posting", "sent"}
  /\ IsABag(loads)
  /\ \A v \in BagToSet(loads) \ {None} : v \in Nat /\ v <= version
  /\ changes \in 0..MaxChanges /\ faults \in 0..MaxFaults

LEMMA OverCounts ==
  /\ IsFiniteSet(Over) /\ Cardinality(Over) \in Nat
  /\ Cardinality(Scans) \in Nat /\ Cardinality(Over) <= Cardinality(Scans)
<1>1. IsFiniteSet(Scans) /\ Over \subseteq Scans
  BY ScansAssumption DEF Over
<1> HIDE DEF Over
<1> QED BY <1>1, FS_Subset, FS_CardinalityType

LEMMA PageInvType == PageInv => TypeOK
<1> SUFFICES ASSUME PageInv PROVE TypeOK
  OBVIOUS
<1>1. Cardinality(Over) \in Nat /\ Cardinality(Over) <= Cardinality(Scans) /\ Cardinality(Scans) \in Nat
  BY OverCounts
<1>2. version \in Versions /\ received \in Versions /\ shown \in Answers
  <2> DEFINE n == Cardinality(Scans)
             m == Cardinality(Over)
  <2>1. m \in Nat /\ m <= n /\ n \in Nat /\ Versions = 0..n /\ version \in Nat /\ version <= m
    BY <1>1 DEF Versions, PageInv
  <2> HIDE DEF n, m
  <2> QED BY <2>1 DEF PageInv, Answers
<1>3. \A v \in Nat : v <= version => v \in Versions
  BY <1>1, <1>2 DEF Versions
<1>4. BagToSet(loads) \subseteq Answers
  BY <1>3 DEF PageInv, Answers
<1> QED BY <1>2, <1>4 DEF PageInv, TypeOK

LEMMA PageInit == Init => PageInv
<1> SUFFICES ASSUME Init PROVE PageInv
  OBVIOUS
<1>1. IsABag(loads) /\ BagToSet(loads) = {None}
  BY OneAnswer DEF Init, Load
<1>2. Cardinality(Over) \in Nat
  BY OverCounts
<1>3. version <= Cardinality(Over) /\ version \in Nat
  BY <1>2 DEF Init
<1> QED BY <1>1, <1>3, BoundAssumption DEF Init, PageInv, Flags

(* What a step of one scan does to the count.                               *)
LEMMA OverGrows ==
  ASSUME PageInv, NEW s \in Scans, NEW p \in {"none", "spawned", "running", "published", "done"},
         scan' = [scan EXCEPT ![s] = p],
         scan[s] \in {"published", "done"} => p \in {"published", "done"}
  PROVE  /\ scan' \in [Scans -> {"none", "spawned", "running", "published", "done"}]
         /\ version <= Cardinality(Over')
         /\ scan[s] = "running" /\ p = "published" => version + 1 <= Cardinality(Over')
<1>1. scan' \in [Scans -> {"none", "spawned", "running", "published", "done"}]
  BY DEF PageInv
<1>2. Over' = IF p \in {"published", "done"} THEN Over \cup {s} ELSE Over
  BY DEF Over, PageInv
<1>3. IsFiniteSet(Over) /\ Cardinality(Over) \in Nat /\ version \in Nat /\ version <= Cardinality(Over)
  BY OverCounts DEF PageInv
<1>4. scan[s] = "running" => s \notin Over
  BY DEF Over
<1> DEFINE old == Over
<1>5. Cardinality(old \cup {s}) = IF s \in old THEN Cardinality(old) ELSE Cardinality(old) + 1
  <2>1. IsFiniteSet(old)
    BY <1>3
  <2> HIDE DEF old
  <2> QED BY <2>1, FS_AddElement
<1> QED BY <1>1, <1>2, <1>3, <1>4, <1>5

LEMMA ScanInv ==
  ASSUME PageInv, NEW s \in Scans, LoopStarts(s) \/ ServerStep(s)
  PROVE  PageInv'
<1>1. UNCHANGED <<pageVars, poll, user, loads, changes, faults>>
  BY DEF LoopStarts, ServerStep, Begin, PublishRecords, End
<1>2. CASE PublishRecords(s)
  <2>1. scan[s] = "running" /\ scan' = [scan EXCEPT ![s] = "published"] /\ UNCHANGED flag
        /\ version' = version + 1
    BY <1>2 DEF PublishRecords
  <2>2. /\ scan' \in [Scans -> {"none", "spawned", "running", "published", "done"}]
        /\ version + 1 <= Cardinality(Over')
    BY <2>1, OverGrows
  <2>3. version' \in Nat /\ version' <= Cardinality(Over')
        /\ \A n \in Nat : n <= version => n <= version'
    BY <2>1, <2>2 DEF PageInv
  <2> QED BY <1>1, <2>1, <2>2, <2>3 DEF PageInv, pageVars
<1>3. CASE LoopStarts(s) \/ Begin(s) \/ End(s)
  <2>1. UNCHANGED version /\ flag' \in Flags
    BY <1>3 DEF LoopStarts, Begin, End, Flags
  <2>2. PICK p \in {"running", "done"} :
          /\ scan' = [scan EXCEPT ![s] = p]
          /\ scan[s] \in {"published", "done"} => p = "done"
    BY <1>3 DEF LoopStarts, Begin, End
  <2>3. /\ scan' \in [Scans -> {"none", "spawned", "running", "published", "done"}]
        /\ version <= Cardinality(Over')
    BY <2>2, OverGrows
  <2> QED BY <1>1, <2>1, <2>3 DEF PageInv, pageVars
<1> QED BY <1>2, <1>3 DEF ServerStep

(* The steps that leave the server's scans alone.                           *)
LEMMA PageOnly ==
  ASSUME PageInv, UNCHANGED serverVars,
         status' \in Flags \cup {"none"}, poll' \in Flags \cup {"timer"},
         user' \in Flags \cup {"idle", "posting", "sent"},
         changes' \in 0..MaxChanges, faults' \in 0..MaxFaults,
         shown' \in Nat \cup {None}, shown' # None => shown' <= version,
         received' \in Nat, received' <= version,
         IsABag(loads'), \A v \in BagToSet(loads') \ {None} : v \in Nat /\ v <= version
  PROVE  PageInv'
<1>1. Over' = Over /\ UNCHANGED <<scan, flag, version>>
  BY DEF Over, serverVars
<1> QED BY <1>1 DEF PageInv

LEMMA Reloads ==
  ASSUME PageInv, loads' \in {loads, loads (+) Load}
  PROVE  /\ IsABag(loads') /\ \A v \in BagToSet(loads') \ {None} : v \in Nat /\ v <= version
         /\ BagToSet(loads) \subseteq BagToSet(loads')
         /\ loads' = loads (+) Load => None \in BagToSet(loads')
<1>1. IsABag(loads (+) Load) /\ BagToSet(loads (+) Load) = BagToSet(loads) \cup {None}
  BY PutIn DEF Load, PageInv
<1> QED BY <1>1 DEF PageInv

LEMMA StatusInv ==
  ASSUME PageInv, NEW f \in Flags, SetStatus(f), UNCHANGED <<serverVars, changes, faults>>,
         poll' \in Flags \cup {"timer"}, user' \in Flags \cup {"idle", "posting", "sent"}
  PROVE  PageInv'
<1>1. status' = f /\ loads' \in {loads, loads (+) Load} /\ UNCHANGED <<shown, received>>
  BY DEF SetStatus
<1>2. IsABag(loads') /\ \A v \in BagToSet(loads') \ {None} : v \in Nat /\ v <= version
  BY <1>1, Reloads
<1> QED BY <1>1, <1>2, PageOnly DEF PageInv

LEMMA PollInv ==
  ASSUME PageInv, PollStep \/ PollFails
  PROVE  PageInv'
<1>1. CASE PollServe
  BY <1>1, PageOnly DEF PollServe, PageInv, pageVars
<1>2. CASE PollAnswer
  BY <1>2, StatusInv DEF PollAnswer, PageInv
<1>3. CASE PollFails
  <2>1. faults' \in 0..MaxFaults
    BY <1>3, BoundAssumption DEF PollFails, Fault, PageInv
  <2> QED BY <1>3, <2>1, PageOnly DEF PollFails, PageInv, pageVars
<1> QED BY <1>1, <1>2, <1>3 DEF PollStep

LEMMA UserInv ==
  ASSUME PageInv, Click \/ UserStep \/ UserFails
  PROVE  PageInv'
<1>1. CASE Click
  BY <1>1, PageOnly DEF Click, PageInv, pageVars
<1>2. ASSUME NEW s \in ManualScans, Post(s) PROVE PageInv'
  <2>1. UNCHANGED <<flag, version, pageVars, poll, loads, changes, faults>>
        /\ user' \in {"sent", "idle"}
    BY <1>2 DEF Post
  <2>2. CASE flag = "down"
    <3>1. scan' = [scan EXCEPT ![s] = "spawned"] /\ scan[s] = "none" /\ s \in Scans
      BY <1>2, <2>2 DEF Post, Scans
    <3>2. /\ scan' \in [Scans -> {"none", "spawned", "running", "published", "done"}]
          /\ version <= Cardinality(Over')
      BY <3>1, OverGrows
    <3> QED BY <2>1, <3>2 DEF PageInv, pageVars
  <2>3. CASE flag # "down"
    BY <1>2, <2>1, <2>3, PageOnly DEF Post, PageInv, pageVars, serverVars
  <2> QED BY <2>2, <2>3
<1>3. CASE RefetchServe
  BY <1>3, PageOnly DEF RefetchServe, PageInv, pageVars
<1>4. CASE RefetchAnswer
  BY <1>4, StatusInv DEF RefetchAnswer, PageInv
<1>5. CASE UserFails
  <2>1. faults' \in 0..MaxFaults
    BY <1>5, BoundAssumption DEF UserFails, Fault, PageInv
  <2> QED BY <1>5, <2>1, PageOnly DEF UserFails, PageInv, pageVars
<1> QED BY <1>1, <1>2, <1>3, <1>4, <1>5 DEF UserStep

(* What becomes of the requests when one is served, answered or fails.      *)
LEMMA Serving ==
  ASSUME PageInv, LoadServe
  PROVE  /\ IsABag(loads')
         /\ BagToSet(loads') \subseteq BagToSet(loads) \cup {version}
         /\ BagToSet(loads) \ {None} \subseteq BagToSet(loads') /\ version \in BagToSet(loads')
<1> DEFINE rest == loads (-) Load
<1>1. /\ IsABag(rest) /\ BagToSet(rest) \subseteq BagToSet(loads)
      /\ BagToSet(loads) \subseteq BagToSet(rest) \cup {None}
  BY TakenOut DEF Load, PageInv
<1>2. loads' = rest (+) SetToBag({version})
  BY DEF LoadServe
<1> HIDE DEF rest
<1>3. /\ IsABag(rest (+) SetToBag({version}))
      /\ BagToSet(rest (+) SetToBag({version})) = BagToSet(rest) \cup {version}
  BY <1>1, PutIn
<1> QED BY <1>1, <1>2, <1>3

LEMMA Answering ==
  ASSUME PageInv, NEW v, loads' = loads (-) SetToBag({v})
  PROVE  /\ IsABag(loads') /\ BagToSet(loads') \subseteq BagToSet(loads)
         /\ BagToSet(loads) \ {v} \subseteq BagToSet(loads')
BY TakenOut DEF PageInv

LEMMA LoadInv ==
  ASSUME PageInv, SetFilter \/ LoadServe \/ LoadFails \/ \E v \in Versions : LoadAnswer(v)
  PROVE  PageInv'
<1>1. CASE SetFilter
  <2>1. changes' \in 0..MaxChanges /\ loads' = loads (+) Load
    BY <1>1, BoundAssumption DEF SetFilter, PageInv
  <2>2. IsABag(loads') /\ \A v \in BagToSet(loads') \ {None} : v \in Nat /\ v <= version
    BY <2>1, Reloads
  <2> QED BY <1>1, <2>1, <2>2, PageOnly DEF SetFilter, PageInv, pageVars
<1>2. CASE LoadServe
  <2>1. IsABag(loads') /\ \A v \in BagToSet(loads') \ {None} : v \in Nat /\ v <= version
    BY <1>2, Serving DEF PageInv
  <2> QED BY <1>2, <2>1, PageOnly DEF LoadServe, PageInv, pageVars
<1>3. CASE LoadFails
  <2>1. faults' \in 0..MaxFaults /\ loads' = loads (-) SetToBag({None})
    BY <1>3, BoundAssumption DEF LoadFails, Fault, Load, PageInv
  <2>2. IsABag(loads') /\ \A v \in BagToSet(loads') \ {None} : v \in Nat /\ v <= version
    BY <2>1, Answering DEF PageInv
  <2> QED BY <1>3, <2>1, <2>2, PageOnly DEF LoadFails, PageInv, pageVars
<1>4. ASSUME NEW v \in Versions, LoadAnswer(v) PROVE PageInv'
  <2>1. /\ BagIn(v, loads) /\ loads' = loads (-) SetToBag({v})
        /\ shown' = v /\ received' = IF v > received THEN v ELSE received
    BY <1>4 DEF LoadAnswer
  <2>2. v \in BagToSet(loads) \ {None} /\ v \in Nat /\ v <= version
    BY <2>1, NoneAssumption DEF BagIn, PageInv
  <2>3. IsABag(loads') /\ \A n \in BagToSet(loads') \ {None} : n \in Nat /\ n <= version
    BY <2>1, Answering DEF PageInv
  <2> QED BY <1>4, <2>1, <2>2, <2>3, PageOnly DEF LoadAnswer, PageInv
<1> QED BY <1>1, <1>2, <1>3, <1>4

LEMMA PageNext == PageInv /\ [Next]_vars => PageInv'
<1> SUFFICES ASSUME PageInv, [Next]_vars PROVE PageInv'
  OBVIOUS
<1>1. CASE UNCHANGED vars
  BY <1>1 DEF vars, serverVars, pageVars, PageInv, Over
<1> QED
  BY <1>1, ScanInv, PollInv, UserInv, LoadInv DEF Next, Failure

LEMMA PageAlways == Spec => []PageInv
BY PageInit, PageNext, PTL DEF Spec

-----------------------------------------------------------------------------
(* A scan that was seen.                                                    *)

(* Until the scan ends the page takes it to be running; then either it does *)
(* so still, or the records are asked for, or it has been given them.       *)
Kept(s) ==
  /\ \A t \in Scans \ {s} : scan[t] = "done"
  /\ faults = MaxFaults
  /\ \/ /\ scan[s] \in {"running", "published"} /\ flag = "up" /\ status = "up"
        /\ "down" \notin {poll, user}
     \/ /\ scan[s] = "done" /\ flag = "down"
        /\ \/ status = "up"
           \/ \E a \in {None, version} : BagIn(a, loads)
           \/ received = version

(* The table is not left with what was there before.                        *)
LEMMA KeptIsLoaded ==
  ASSUME NEW s, Kept(s), scan[s] = "done", status # "up", \A a \in {None, version} : ~BagIn(a, loads)
  PROVE  received = version
BY DEF Kept

LEMMA KeptStatus ==
  ASSUME PageInv, NEW s \in Scans, Kept(s), NEW f \in Flags, SetStatus(f),
         UNCHANGED <<serverVars, changes, faults>>, f \in {poll, user}, 
         {poll', user'} \subseteq {poll, user, "timer", "idle"}
  PROVE  Kept(s)'
<1>1. UNCHANGED <<scan, flag, version, faults, received>> /\ status' = f
      /\ loads' \in {loads, loads (+) Load}
      /\ (f = "down" /\ status = "up" => loads' = loads (+) Load)
  BY DEF SetStatus, serverVars
<1>2. BagToSet(loads) \subseteq BagToSet(loads')
      /\ (loads' = loads (+) Load => None \in BagToSet(loads'))
  BY <1>1, Reloads
<1> QED BY <1>1, <1>2 DEF Kept, BagIn, Flags

LEMMA KeptNext ==
  ASSUME PageInv, NEW s \in Scans, Kept(s), [Next]_vars
  PROVE  Kept(s)'
<1>1. CASE UNCHANGED vars
  BY <1>1 DEF vars, serverVars, pageVars, Kept
<1>2. ~Failure
  BY DEF Kept, Failure, PollFails, UserFails, LoadFails, Fault, PageInv
<1>3. ASSUME NEW t \in Scans, LoopStarts(t) \/ ServerStep(t) PROVE Kept(s)'
  <2>1. t = s /\ ~LoopStarts(t) /\ ~Begin(t)
    BY <1>3 DEF Kept, LoopStarts, ServerStep, Begin, PublishRecords, End
  <2>2. CASE PublishRecords(s)
    BY <2>2 DEF PublishRecords, Kept, pageVars, PageInv
  <2>3. CASE End(s)
    BY <2>3 DEF End, Kept, pageVars, PageInv
  <2> QED BY <1>3, <2>1, <2>2, <2>3 DEF ServerStep
<1>4. CASE PollStep
  <2>1. CASE PollServe
    BY <2>1 DEF PollServe, Kept, serverVars, pageVars
  <2>2. CASE PollAnswer
    BY <2>2, KeptStatus DEF PollAnswer
  <2> QED BY <1>4, <2>1, <2>2 DEF PollStep
<1>5. CASE Click \/ UserStep
  <2>1. CASE Click
    BY <2>1 DEF Click, Kept, serverVars, pageVars
  <2>2. ASSUME NEW t \in ManualScans PROVE ~Post(t)
    BY DEF Post, Kept, Scans
  <2>3. CASE RefetchServe
    BY <2>3 DEF RefetchServe, Kept, serverVars, pageVars
  <2>4. CASE RefetchAnswer
    BY <2>4, KeptStatus DEF RefetchAnswer
  <2> QED BY <1>5, <2>1, <2>2, <2>3, <2>4 DEF UserStep
<1>6. CASE SetFilter
  <2>1. loads' = loads (+) Load
    BY <1>6 DEF SetFilter
  <2>2. BagToSet(loads) \subseteq BagToSet(loads')
    BY <2>1, Reloads
  <2> QED BY <1>6, <2>2 DEF SetFilter, Kept, serverVars, pageVars, BagIn
<1>7. CASE LoadServe
  <2>1. version \in BagToSet(loads')
    BY <1>7, Serving
  <2> QED BY <1>7, <2>1 DEF LoadServe, Kept, serverVars, pageVars, BagIn
<1>8. ASSUME NEW v \in Versions, LoadAnswer(v) PROVE Kept(s)'
  <2>1. BagToSet(loads) \ {v} \subseteq BagToSet(loads') /\ v # None
    BY <1>8, Answering, NoneAssumption DEF LoadAnswer
  <2>2. v \in Nat /\ v <= version /\ received \in Nat /\ received <= version /\ version \in Nat
    BY <1>8, <2>1 DEF LoadAnswer, BagIn, PageInv
  <2>3. received' \in {received, v} /\ (v = version \/ received = version => received' = version)
    BY <1>8, <2>2 DEF LoadAnswer
  <2> QED BY <1>8, <2>1, <2>3 DEF LoadAnswer, Kept, serverVars, BagIn
<1> QED BY <1>1, <1>2, <1>3, <1>4, <1>5, <1>6, <1>7, <1>8 DEF Next

-----------------------------------------------------------------------------
(* The theorems.                                                            *)

(* Scans publish once each, the bag of requests stays a bag, and no answer  *)
(* is newer than the records of the server, however requests fail and       *)
(* overtake each other (useScanStatus, ImagesPage).                         *)
THEOREM PageTypes == Spec => []TypeOK
BY PageAlways, PageInvType, PTL

(* From the moment a page sees the last scan run, without an older answer   *)
(* under way, the result of the scan is never missed: the page waits for    *)
(* the flag, or the records are asked for, or it has them (ImagesPage).     *)
THEOREM SeenScanIsKept ==
  ASSUME NEW s \in Scans
  PROVE  Spec => [](Seen(s) => []Kept(s))
<1>1. PageInv /\ Kept(s) /\ [Next]_vars => Kept(s)'
  BY KeptNext
<1>2. Seen(s) => Kept(s)
  BY DEF Seen, Kept
<1> QED BY <1>1, <1>2, PageAlways, PTL DEF Spec
=============================================================================
