-------------------------- MODULE HelmReleasesProofs --------------------------
(* Proofs about HelmReleases, for any versions, repositories, namespaces and *)
(* secrets at rest, any history and any failures.                            *)
EXTENDS HelmReleases, FiniteSetTheorems, SequenceTheorems, WellFoundedInduction, TLAPS

-----------------------------------------------------------------------------
(* What is known at each point.                                             *)

(* The newest revision is the only one of its number, it is never one that  *)
(* was superseded, and once deployed it is what runs.                       *)
Cluster ==
  /\ \A s, t \in secrets : s.number = t.number => s = t
  /\ \E s \in secrets : \A t \in secrets : s.number >= t.number
  /\ Newest.status # "superseded"
  /\ Newest.status = "deployed" => Newest.version = running

Mine(s) == s.namespace = Upgraded.namespace /\ s.release = Upgraded.name
LastOfMine(s, S) == s \in S /\ Mine(s) /\ \A t \in S : Mine(t) => s.number >= t.number

(* The secrets listed are of different names; those of the release are from *)
(* one moment, and the last of them says what was running at that moment.   *)
Snapshot(S, v) ==
  /\ \A s \in S : s \in Secret /\ Consistent(s) /\ (Mine(s) \/ s \in Others)
  /\ \A s, t \in S : SameName(s, t) => s = t
  /\ (\E s \in S : Mine(s)) => \E s \in S : LastOfMine(s, S)
  /\ \A s \in S : LastOfMine(s, S) =>
       /\ s.payload # None /\ s.payload.status \in Statuses \ {"superseded"}
       /\ s.payload.status = "deployed" => s.payload.version = v

Selected == (IF scanOpts.included = {} THEN Namespaces ELSE scanOpts.included) \ scanOpts.excluded

(* All of a namespace is in one list, and that is still to come, has failed *)
(* or has been taken.                                                       *)
Taken(n) ==
  /\ \A s \in Others : s.labels.owner /\ s.namespace = n => s \in all
  /\ n = Upgraded.namespace => \E s \in all : Mine(s)

Lists ==
  /\ \A ns, ms \in todo : ns \cap ms # {} => ns = ms
  /\ errs \cap UNION todo = {}
  /\ \A s \in all : /\ s.namespace \notin errs \cup UNION todo
                    /\ scanOpts.included # {} => s.namespace \in Selected
  /\ scanOpts.included # {} => UNION todo \subseteq Selected
  /\ \A n \in Selected : n \in UNION todo \/ n \in errs \/ Taken(n)
  /\ scanOpts.included = {} =>
       /\ todo \subseteq {Namespaces}
       /\ todo # {} => errs = {} /\ all = {}
       /\ errs = {} \/ all = {}

Progress ==
  /\ pc = "idle" => all = {}
  /\ pc # "indexes" => loaded = <<>>
  /\ pc # "idle" => page = None /\ Lists
  /\ pc = "indexes" => todo = {} /\ (errs = {} \/ all # {})
  /\ \A i \in DOMAIN loaded : loaded[i] \in {None, index[i]}

(* What an answer says of charts.                                           *)
Chart(x) ==
  IF x.repo = None THEN ~x.update
  ELSE /\ x.release.version \in Versions
       /\ x.repo \in 1..Repos /\ x.latest \in LatestChartVersion(index[x.repo])
       /\ x.update = CompareVersions(x.latest, x.release.version)

Charts == page # None => \A x \in page : Chart(x)

HelmInv == TypeOK /\ Cluster /\ Snapshot(all, ran) /\ Progress /\ Charts /\ ShownIsCurrent /\ NoReleaseLost
-----------------------------------------------------------------------------
(* The order of versions.                                                   *)

NthField(v, i) == Field(ParseVersion(v), i)

LEMMA ParsedType ==
  ASSUME NEW v \in Versions
  PROVE  /\ v.core \in Seq(Nat) /\ v.tail \in Seq(Nat) /\ ParseVersion(v) \in Seq(Nat)
         /\ Len(v.core) \in 1..3 /\ Len(v.tail) \in Nat /\ DOMAIN v.core = 1..Len(v.core)
         /\ Len(ParseVersion(v)) = Len(v.core) + Len(v.tail)
         /\ \A i \in 1..Len(v.core) : ParseVersion(v)[i] = v.core[i] /\ v.core[i] \in Nat
<1>1. v \in Version /\ Len(v.core) \in 1..3
  BY VersionsAssumption
<1>2. v.core \in Seq(Nat) /\ v.tail \in Seq(Nat)
  BY <1>1 DEF Version
<1>3. /\ DOMAIN v.core = 1..Len(v.core) /\ Len(v.tail) \in Nat
      /\ \A i \in 1..Len(v.core) : v.core[i] \in Nat
  BY <1>2, LenProperties, ElementOfSeq
<1>4. /\ v.core \o v.tail \in Seq(Nat)
      /\ Len(v.core \o v.tail) = Len(v.core) + Len(v.tail)
      /\ \A i \in 1..Len(v.core) + Len(v.tail) :
           (v.core \o v.tail)[i] = IF i <= Len(v.core) THEN v.core[i] ELSE v.tail[i - Len(v.core)]
  BY <1>2, ConcatProperties
<1> DEFINE n == Len(v.core)  m == Len(v.tail)
<1>5. n \in Nat /\ m \in Nat
  BY <1>1, <1>3
<1>6. ASSUME NEW i \in 1..n
      PROVE  (v.core \o v.tail)[i] = v.core[i] /\ v.core[i] \in Nat
  <2>1. i \in 1..(n + m) /\ i <= n
    <3> HIDE DEF n, m
    <3> QED BY <1>5
  <2> QED BY <1>3, <1>4, <2>1
<1> QED BY <1>1, <1>2, <1>3, <1>4, <1>6 DEF ParseVersion

LEMMA FieldType ==
  ASSUME NEW v \in Versions, NEW i \in Nat \ {0}
  PROVE  NthField(v, i) \in Nat /\ (NthField(v, i) # 0 => i \in DOMAIN ParseVersion(v))
<1>1. /\ ParseVersion(v) \in Seq(Nat) /\ Len(ParseVersion(v)) \in Nat
      /\ DOMAIN ParseVersion(v) = 1..Len(ParseVersion(v))
  BY ParsedType, LenProperties
<1>2. CASE i <= Len(ParseVersion(v))
  <2>1. i \in 1..Len(ParseVersion(v))
    BY <1>1, <1>2
  <2> QED BY <1>1, <1>2, <2>1, ElementOfSeq DEF NthField, Field
<1>3. CASE ~(i <= Len(ParseVersion(v)))
  BY <1>3 DEF NthField, Field
<1> QED BY <1>2, <1>3

LEMMA PartsOfCore ==
  ASSUME NEW v \in Versions
  PROVE  /\ Part(v, 1) \in Nat /\ Part(v, 2) \in Nat /\ Part(v, 3) \in Nat
         /\ Whole(v) => /\ NthField(v, 1) = Part(v, 1) /\ NthField(v, 2) = Part(v, 2)
                        /\ NthField(v, 3) = Part(v, 3)
         /\ v.kind = "final" => Whole(v) /\ Len(ParseVersion(v)) <= 3
<1> DEFINE n == Len(v.core)  m == Len(v.tail)  l == Len(ParseVersion(v))
<1>0. n \in 1..3 /\ m \in Nat /\ l = n + m
  BY ParsedType
<1>1. v.tail = <<>> => m = 0
  BY EmptySeq
<1>2. Whole(v) => m = 0 \/ n = 3
  BY <1>1 DEF Whole
<1>3. v.kind = "final" => v.tail = <<>>
  BY VersionsAssumption
<1>4. v.kind = "final" => Whole(v) /\ l <= 3
  <2>1. v.kind = "final" => Whole(v)
    BY <1>3 DEF Whole
  <2> HIDE DEF n, m, l
  <2> QED BY <1>0, <1>1, <1>3, <2>1
<1>5. ASSUME NEW i \in {1, 2, 3} PROVE Part(v, i) \in Nat /\ (Whole(v) => NthField(v, i) = Part(v, i))
  <2>1. CASE i <= n
    <3>1. i \in 1..n /\ i <= l
      <4> HIDE DEF n, m, l
      <4> QED BY <1>0, <2>1
    <3> QED BY <3>1, ParsedType DEF Part, NthField, Field
  <2>2. CASE ~(i <= n)
    <3>1. Part(v, i) = 0
      <4>1. i \notin 1..n
        <5> HIDE DEF n, m, l
        <5> QED BY <2>2
      <4> QED BY <4>1, ParsedType DEF Part
    <3>2. Whole(v) => ~(i <= l)
      <4> HIDE DEF n, m, l
      <4> QED BY <1>0, <1>2, <2>2
    <3> QED BY <3>1, <3>2 DEF NthField, Field
  <2> QED BY <2>1, <2>2
<1> QED BY <1>4, <1>5

LEMMA CompareAt ==
  ASSUME NEW v \in Versions, NEW w \in Versions, NEW i \in Nat \ {0},
         NthField(v, i) > NthField(w, i), \A k \in 1..(i - 1) : NthField(v, k) = NthField(w, k)
  PROVE  CompareVersions(v, w)
<1>1. i \in DOMAIN ParseVersion(v)
  BY FieldType
<1> QED BY <1>1 DEF CompareVersions, NthField

LEMMA CompareFinds ==
  ASSUME NEW v \in Versions, NEW w \in Versions, CompareVersions(v, w)
  PROVE  \E i \in Nat \ {0} :
           /\ i <= Len(ParseVersion(v)) \/ i <= Len(ParseVersion(w))
           /\ NthField(v, i) > NthField(w, i)
           /\ \A k \in 1..(i - 1) : NthField(v, k) = NthField(w, k)
<1>1. /\ DOMAIN ParseVersion(v) = 1..Len(ParseVersion(v)) /\ Len(ParseVersion(v)) \in Nat
      /\ DOMAIN ParseVersion(w) = 1..Len(ParseVersion(w)) /\ Len(ParseVersion(w)) \in Nat
  BY ParsedType, LenProperties
<1>2. PICK i \in DOMAIN ParseVersion(v) \cup DOMAIN ParseVersion(w) :
        /\ NthField(v, i) > NthField(w, i)
        /\ \A k \in 1..(i - 1) : NthField(v, k) = NthField(w, k)
  BY DEF CompareVersions, NthField
<1> QED BY <1>1, <1>2

(* Greater by compareVersions is not less by major, minor and patch.        *)
LEMMA GreaterIsNewer ==
  ASSUME NEW v \in Versions, NEW w \in Versions, CompareVersions(v, w)
  PROVE  /\ Whole(v) /\ Whole(w) => ~Newer(w, v)
         /\ v.kind = "final" /\ w.kind = "final" => Newer(v, w)
<1>1. PICK i \in Nat \ {0} :
        /\ i <= Len(ParseVersion(v)) \/ i <= Len(ParseVersion(w))
        /\ NthField(v, i) > NthField(w, i)
        /\ \A k \in 1..(i - 1) : NthField(v, k) = NthField(w, k)
  BY CompareFinds
<1> DEFINE v1 == Part(v, 1)  v2 == Part(v, 2)  v3 == Part(v, 3)
           w1 == Part(w, 1)  w2 == Part(w, 2)  w3 == Part(w, 3)
<1>2. /\ v1 \in Nat /\ v2 \in Nat /\ v3 \in Nat
      /\ w1 \in Nat /\ w2 \in Nat /\ w3 \in Nat
  BY PartsOfCore
<1>3. /\ Newer(v, w) <=> v1 > w1 \/ (v1 = w1 /\ v2 > w2) \/ (v1 = w1 /\ v2 = w2 /\ v3 > w3)
      /\ Newer(w, v) <=> w1 > v1 \/ (w1 = v1 /\ w2 > v2) \/ (w1 = v1 /\ w2 = v2 /\ w3 > v3)
  BY DEF Newer
<1>5. ASSUME Whole(v), Whole(w)
      PROVE  (i <= 3 => Newer(v, w)) /\ ~Newer(w, v)
  <2>1. /\ NthField(v, 1) = v1 /\ NthField(v, 2) = v2 /\ NthField(v, 3) = v3
        /\ NthField(w, 1) = w1 /\ NthField(w, 2) = w2 /\ NthField(w, 3) = w3
    BY <1>5, PartsOfCore
  <2>2. /\ 1 < i => v1 = w1
        /\ 2 < i => v2 = w2
        /\ 3 < i => v3 = w3
    BY <1>1, <2>1
  <2>3. /\ i = 1 => v1 > w1
        /\ i = 2 => v2 > w2
        /\ i = 3 => v3 > w3
    BY <1>1, <2>1
  <2> HIDE DEF v1, v2, v3, w1, w2, w3
  <2> QED BY <1>1, <1>2, <1>3, <2>2, <2>3
<1>4. v.kind = "final" /\ w.kind = "final" => i <= 3 /\ Whole(v) /\ Whole(w)
  <2>1. Len(ParseVersion(v)) \in Nat /\ Len(ParseVersion(w)) \in Nat
    BY ParsedType, LenProperties
  <2>2. /\ v.kind = "final" => Whole(v) /\ Len(ParseVersion(v)) <= 3
        /\ w.kind = "final" => Whole(w) /\ Len(ParseVersion(w)) <= 3
    BY PartsOfCore
  <2> QED BY <1>1, <2>1, <2>2
<1> QED BY <1>1, <1>4, <1>5

(* What no version is greater than is newer than what an entry is newer than.*)
LEMMA LatestIsNewest ==
  ASSUME NEW l \in Versions, NEW v \in Versions, NEW w \in Versions,
         ~CompareVersions(v, l), v.kind = "final", w.kind = "final", Newer(v, w)
  PROVE  CompareVersions(l, w) /\ (Whole(l) => ~Newer(v, l))
<1> DEFINE v1 == NthField(v, 1)  v2 == NthField(v, 2)  v3 == NthField(v, 3)
           w1 == NthField(w, 1)  w2 == NthField(w, 2)  w3 == NthField(w, 3)
           l1 == NthField(l, 1)  l2 == NthField(l, 2)  l3 == NthField(l, 3)
<1>0. Whole(v) /\ Whole(w)
  BY PartsOfCore
<1>10. /\ Part(v, 1) \in Nat /\ Part(v, 2) \in Nat /\ Part(v, 3) \in Nat
       /\ Part(w, 1) \in Nat /\ Part(w, 2) \in Nat /\ Part(w, 3) \in Nat
       /\ v1 = Part(v, 1) /\ v2 = Part(v, 2) /\ v3 = Part(v, 3)
       /\ w1 = Part(w, 1) /\ w2 = Part(w, 2) /\ w3 = Part(w, 3)
  BY <1>0, PartsOfCore
<1>1. /\ v1 \in Nat /\ v2 \in Nat /\ v3 \in Nat
      /\ w1 \in Nat /\ w2 \in Nat /\ w3 \in Nat
      /\ l1 \in Nat /\ l2 \in Nat /\ l3 \in Nat
  <2>1. l1 \in Nat /\ l2 \in Nat /\ l3 \in Nat
    BY FieldType
  <2> HIDE DEF v1, v2, v3, w1, w2, w3, l1, l2, l3
  <2> QED BY <1>10, <2>1
<1>3. v1 > w1 \/ (v1 = w1 /\ v2 > w2) \/ (v1 = w1 /\ v2 = w2 /\ v3 > w3)
  <2> HIDE DEF v1, v2, v3, w1, w2, w3
  <2> QED BY <1>10 DEF Newer
<1>4. ASSUME NEW x \in Versions, NEW y \in Versions
      PROVE  /\ NthField(x, 1) > NthField(y, 1) => CompareVersions(x, y)
             /\ NthField(x, 1) = NthField(y, 1) /\ NthField(x, 2) > NthField(y, 2) =>
                  CompareVersions(x, y)
             /\ NthField(x, 1) = NthField(y, 1) /\ NthField(x, 2) = NthField(y, 2)
                  /\ NthField(x, 3) > NthField(y, 3) => CompareVersions(x, y)
  <2>1. NthField(x, 1) > NthField(y, 1) => CompareVersions(x, y)
    <3>1. 1..(1 - 1) = {}
      OBVIOUS
    <3> QED BY <3>1, CompareAt
  <2>2. NthField(x, 1) = NthField(y, 1) /\ NthField(x, 2) > NthField(y, 2) => CompareVersions(x, y)
    <3>1. 1..(2 - 1) = {1}
      OBVIOUS
    <3> QED BY <3>1, CompareAt
  <2>3. NthField(x, 1) = NthField(y, 1) /\ NthField(x, 2) = NthField(y, 2)
          /\ NthField(x, 3) > NthField(y, 3) => CompareVersions(x, y)
    <3> SUFFICES ASSUME NthField(x, 1) = NthField(y, 1), NthField(x, 2) = NthField(y, 2),
                        NthField(x, 3) > NthField(y, 3)
                 PROVE  CompareVersions(x, y)
      OBVIOUS
    <3>1. 3 \in Nat \ {0} /\ 1..(3 - 1) = {1, 2}
      OBVIOUS
    <3>2. \A k \in 1..(3 - 1) : NthField(x, k) = NthField(y, k)
      BY <3>1
    <3> QED BY <3>1, <3>2, CompareAt
  <2> QED BY <2>1, <2>2, <2>3
<1>5. /\ ~(v1 > l1) /\ ~(v1 = l1 /\ v2 > l2) /\ ~(v1 = l1 /\ v2 = l2 /\ v3 > l3)
  BY <1>4
<1>6. l1 > w1 \/ (l1 = w1 /\ l2 > w2) \/ (l1 = w1 /\ l2 = w2 /\ l3 > w3)
  <2> HIDE DEF v1, v2, v3, w1, w2, w3, l1, l2, l3
  <2> QED BY <1>1, <1>3, <1>5
<1>7. CompareVersions(l, w)
  BY <1>4, <1>6
<1>8. ASSUME Whole(l) PROVE ~Newer(v, l)
  <2>1. l1 = Part(l, 1) /\ l2 = Part(l, 2) /\ l3 = Part(l, 3)
    BY <1>8, PartsOfCore
  <2> HIDE DEF v1, v2, v3, l1, l2, l3
  <2> QED BY <1>1, <1>5, <1>10, <2>1 DEF Newer
<1> QED BY <1>7, <1>8
-----------------------------------------------------------------------------
(* The cluster.                                                             *)

NewestOf(S) == CHOOSE s \in S : \A t \in S : s.number >= t.number

LEMMA NewestIs ==
  ASSUME NEW S \in SUBSET Revision, \A s, t \in S : s.number = t.number => s = t,
         NEW s \in S, \A t \in S : s.number >= t.number
  PROVE  NewestOf(S) = s
<1>1. \A t \in S : t.number \in Nat
  BY DEF Revision
<1>2. NewestOf(S) \in S /\ NewestOf(S).number >= s.number
  BY DEF NewestOf
<1>3. s.number >= NewestOf(S).number
  BY <1>2
<1> QED BY <1>1, <1>2, <1>3

LEMMA NewestType ==
  ASSUME TypeOK, Cluster
  PROVE  /\ Newest \in secrets /\ Newest \in Revision
         /\ \A t \in secrets : Newest.number >= t.number
BY DEF TypeOK, Cluster, Newest

LEMMA RevisionType ==
  ASSUME NEW r \in Revision
  PROVE  r.number \in Nat /\ r.version \in Versions /\ r.status \in Statuses
BY DEF Revision

LEMMA WithStatus ==
  ASSUME NEW r \in Revision, NEW t \in Statuses
  PROVE  /\ [r EXCEPT !.status = t] \in Revision
         /\ [r EXCEPT !.status = t].number = r.number
         /\ [r EXCEPT !.status = t].version = r.version
         /\ [r EXCEPT !.status = t].status = t
BY DEF Revision

LEMMA HelmStep ==
  ASSUME TypeOK, Cluster, Helm
  PROVE  secrets' \subseteq Revision /\ running' \in Versions /\ Cluster'
<1>0. secrets \subseteq Revision /\ running \in Versions
  BY DEF TypeOK
<1> USE NewestType DEF Statuses
<1>1. ASSUME NEW v \in Versions, Upgrade(v)
      PROVE  secrets' \subseteq Revision /\ running' \in Versions /\ Cluster'
  <2> DEFINE new == [number |-> Newest.number + 1, version |-> v, status |-> "pending"]
  <2>1. new \in Revision /\ new.number = Newest.number + 1 /\ new.status = "pending"
    BY RevisionType DEF Revision
  <2>2. new \in secrets' /\ \A s \in secrets' : s \in secrets \/ s = new
    BY <1>1 DEF Upgrade
  <2> HIDE DEF new
  <2>3. \A s \in secrets : s.number \in Nat /\ new.number > s.number
    <3>1. \A s \in secrets : s.number \in Nat /\ Newest.number >= s.number
      BY <1>0, RevisionType
    <3>2. Newest.number \in Nat
      BY RevisionType
    <3> QED BY <2>1, <3>1, <3>2
  <2>4. secrets' \subseteq Revision
    BY <1>0, <2>1, <2>2
  <2>5. \A s, t \in secrets' : s.number = t.number => s = t
    BY <2>2, <2>3 DEF Cluster
  <2>6. \A t \in secrets' : new.number >= t.number
    BY <2>1, <2>2, <2>3
  <2>7. Newest' = new
    BY <2>2, <2>4, <2>5, <2>6, NewestIs DEF Newest, NewestOf
  <2> QED BY <1>0, <1>1, <2>1, <2>2, <2>4, <2>5, <2>6, <2>7 DEF Upgrade, Cluster
<1>2. ASSUME Supersede
      PROVE  secrets' \subseteq Revision /\ running' \in Versions /\ Cluster'
  <2> DEFINE of(s) == IF s.status = "deployed" THEN [s EXCEPT !.status = "superseded"] ELSE s
  <2>1. /\ Newest.status = "pending" /\ running' = Newest.version
        /\ secrets' = {of(s) : s \in secrets}
    BY <1>2 DEF Supersede
  <2>2. \A s \in secrets : of(s) \in Revision /\ of(s).number = s.number
    <3>1. "superseded" \in Statuses
      OBVIOUS
    <3> QED BY <1>0, <3>1, WithStatus
  <2>3. of(Newest) = Newest
    BY <2>1
  <2> HIDE DEF of
  <2>4. secrets' \subseteq Revision /\ Newest \in secrets'
    BY <2>1, <2>2, <2>3
  <2>5. \A s, t \in secrets' : s.number = t.number => s = t
    BY <2>1, <2>2 DEF Cluster
  <2>6. \A t \in secrets' : Newest.number >= t.number
    BY <2>1, <2>2
  <2>7. Newest' = Newest
    BY <2>4, <2>5, <2>6, NewestIs DEF Newest, NewestOf
  <2> QED BY <2>1, <2>4, <2>5, <2>6, <2>7, RevisionType DEF Cluster
<1>3. ASSUME NEW status \in {"deployed", "failed"}, secrets' = Settled(status), running' = running,
             status = "deployed" => running = Newest.version
      PROVE  secrets' \subseteq Revision /\ running' \in Versions /\ Cluster'
  <2> DEFINE new == [Newest EXCEPT !.status = status]
  <2>1. /\ new \in Revision /\ new.number = Newest.number
        /\ new.version = Newest.version /\ new.status = status
    <3>1. status \in Statuses /\ Newest \in Revision
      OBVIOUS
    <3> QED BY ONLY <3>1, WithStatus
  <2>2. secrets' = (secrets \ {Newest}) \cup {new}
    BY <1>3 DEF Settled
  <2> HIDE DEF new
  <2>3. secrets' \subseteq Revision /\ new \in secrets'
    BY <1>0, <2>1, <2>2
  <2>4. \A s, t \in secrets' : s.number = t.number => s = t
    BY <2>1, <2>2 DEF Cluster
  <2>5. \A t \in secrets' : new.number >= t.number
    BY <2>1, <2>2, RevisionType
  <2>6. Newest' = new
    BY <2>3, <2>4, <2>5, NewestIs DEF Newest, NewestOf
  <2> QED BY <1>0, <1>3, <2>1, <2>3, <2>4, <2>5, <2>6 DEF Cluster
<1>4. CASE Deployed
  BY <1>3, <1>4 DEF Deployed
<1>5. CASE UpgradeFails
  BY <1>3, <1>5 DEF UpgradeFails
<1> QED BY <1>1, <1>2, <1>4, <1>5 DEF Helm

-----------------------------------------------------------------------------
(* Secrets.                                                                 *)

LEMMA ConsistentSecret ==
  ASSUME NEW s \in Secret, Consistent(s)
  PROVE  /\ s.number \in Nat /\ ReleaseName(s) = s.release /\ HelmSecretRevision(s) = s.number
         /\ s.namespace \in Namespaces /\ s.release \in Names
         /\ HelmReleaseFromSecret(s) \in Release
         /\ HelmReleaseFromSecret(s).namespace = s.namespace
         /\ HelmReleaseFromSecret(s).name = s.release
         /\ HelmReleaseFromSecret(s).number = s.number
<1>1. /\ s.namespace \in Namespaces /\ s.release \in Names /\ s.number \in Nat
      /\ s.labels.status \in OrNone(Statuses)
      /\ s.payload # None => s.payload \in Payload
  BY DEF Secret, Labels, OrNone, Consistent
<1>2. ReleaseName(s) = s.release
  BY <1>1, NamespacesAssumption DEF Consistent, ReleaseName, Or
<1>3. HelmSecretRevision(s) = s.number
  BY <1>1, NamespacesAssumption DEF Consistent, HelmSecretRevision, Or
<1>4. s.payload # None => /\ s.payload.status \in OrNone(Statuses) /\ s.payload.version \in Versions
                          /\ s.payload.number = s.number
  BY <1>1 DEF Payload, Consistent
<1>5. /\ (IF s.payload = None THEN s.labels.status ELSE Or(s.payload.status, s.labels.status))
           \in OrNone(Statuses)
      /\ (IF s.payload = None THEN None ELSE s.payload.version) \in OrNone(Versions)
      /\ (IF s.payload = None THEN HelmSecretRevision(s) ELSE s.payload.number) = s.number
  BY <1>1, <1>3, <1>4 DEF OrNone, Or
<1> QED BY <1>1, <1>2, <1>3, <1>5 DEF HelmReleaseFromSecret, Release

(* The secret of a revision.                                                *)
MineOf(r) ==
  [namespace |-> Upgraded.namespace, release |-> Upgraded.name, number |-> r.number,
   labels |-> [owner |-> TRUE, name |-> Upgraded.name, version |-> r.number, status |-> r.status],
   payload |-> [number |-> r.number, status |-> r.status, version |-> r.version]]

LEMMA MineOfType ==
  ASSUME NEW r \in Revision
  PROVE  /\ MineOf(r) \in Secret /\ Consistent(MineOf(r)) /\ Mine(MineOf(r))
         /\ MineOf(r).number = r.number /\ MineOf(r).payload # None
         /\ MineOf(r).payload.status = r.status /\ MineOf(r).payload.version = r.version
<1>1. Upgraded.namespace \in Namespaces /\ Upgraded.name \in Names
  BY NamespacesAssumption
<1>2. r.number \in Nat /\ r.version \in Versions /\ r.status \in Statuses
  BY RevisionType
<1>3. [number |-> r.number, status |-> r.status, version |-> r.version] \in Payload
  BY <1>2 DEF Payload, OrNone
<1>4. [owner |-> TRUE, name |-> Upgraded.name, version |-> r.number, status |-> r.status] \in Labels
  BY <1>1, <1>2 DEF Labels, OrNone
<1>5. MineOf(r) \in Secret
  BY <1>1, <1>2, <1>3, <1>4 DEF MineOf, Secret, OrNone
<1>6. Consistent(MineOf(r)) /\ Mine(MineOf(r))
  BY <1>2 DEF MineOf, Mine, Consistent
<1>7. MineOf(r).payload # None
  BY <1>3, NamespacesAssumption DEF MineOf
<1> QED BY <1>5, <1>6, <1>7 DEF MineOf

LEMMA SecretsOf ==
  ASSUME NEW n \in Namespaces, NEW s
  PROVE  s \in SecretsIn(n) <=> \/ s \in Others /\ s.labels.owner /\ s.namespace = n
                                \/ n = Upgraded.namespace /\ \E r \in secrets : s = MineOf(r)
BY DEF SecretsIn, MineOf
LEMMA OthersNotMine ==
  ASSUME NEW s \in Others
  PROVE  s \in Secret /\ Consistent(s) /\ ~Mine(s)
<1>1. Upgraded = [namespace |-> Upgraded.namespace, name |-> Upgraded.name]
  BY NamespacesAssumption
<1> QED BY <1>1, OthersAssumption DEF Mine

(* Of finitely many secrets one has the greatest revision.                  *)
LEMMA SomeLast ==
  ASSUME NEW S, IsFiniteSet(S), S # {}, \A s \in S : s.number \in Nat
  PROVE  \E s \in S : \A t \in S : s.number >= t.number
<1> DEFINE After(x) == {y \in S : y.number > x.number}
           Afters == {After(x) : x \in S}
<1>1. Afters \subseteq FiniteSubsetsOf(S) /\ Afters # {}
  <2>1. FiniteSubsetsOf(S) = SUBSET S
    BY FS_FiniteSubsetsOfFinite
  <2>2. \A x \in S : After(x) \in SUBSET S
    OBVIOUS
  <2> HIDE DEF After
  <2> QED BY <2>1, <2>2
<1>2. PICK A \in Afters : \A B \in Afters : <<B, A>> \notin StrictSubsetOrdering(S)
  <2> HIDE DEF Afters
  <2> QED BY <1>1, FS_StrictSubsetOrderingWellFounded, WFMin
<1>3. PICK x \in S : A = After(x)
  OBVIOUS
<1>4. ASSUME NEW y \in S, y.number > x.number PROVE FALSE
  <2>1. After(y) \subseteq After(x) /\ y \in After(x) /\ y \notin After(y)
    <3>1. x.number \in Nat /\ y.number \in Nat /\ ~(y.number > y.number)
      OBVIOUS
    <3>2. \A z \in S : z.number > y.number => z.number > x.number
      BY <1>4, <3>1
    <3> QED BY <1>4, <3>1, <3>2
  <2>2. <<After(y), After(x)>> \in StrictSubsetOrdering(S)
    BY <2>1 DEF StrictSubsetOrdering
  <2> QED BY <1>2, <1>3, <2>2
<1> QED BY <1>4

-----------------------------------------------------------------------------
(* The steps of a request.                                                  *)

LEMMA InitInv == Init => HelmInv
<1> SUFFICES ASSUME Init PROVE HelmInv
  OBVIOUS
<1> DEFINE first == [number |-> FirstRevision, version |-> FirstVersion, status |-> "deployed"]
<1>1. first \in Revision
  BY VersionsAssumption, BoundAssumption DEF Revision, Statuses
<1>2. TypeOK
  <2>1. secrets \subseteq Revision /\ running \in Versions /\ scanOpts \in Options
    BY <1>1, VersionsAssumption DEF Init
  <2>2. index \in [1..Repos -> Entries]
    BY DEF Init
  <2>3. /\ loaded \in Seq(OrNone(SUBSET Versions)) /\ Len(loaded) <= Repos
        /\ faults \in 0..MaxFaults
    BY BoundAssumption DEF Init
  <2> QED BY <2>1, <2>2, <2>3 DEF Init, TypeOK, OrNone
<1>3. Cluster
  <2>1. secrets = {first}
    BY DEF Init
  <2>2. Newest = first /\ first.number >= first.number
    BY <1>1, <2>1 DEF Newest, Revision
  <2> QED BY <2>1, <2>2 DEF Cluster, Init
<1> QED BY <1>2, <1>3 DEF HelmInv, Init, Snapshot, LastOfMine, Progress, Charts, Chart, ShownIsCurrent,
                          NoReleaseLost

LEMMA HelmInvStep == HelmInv /\ Helm => HelmInv'
<1> SUFFICES ASSUME HelmInv, Helm PROVE HelmInv'
  OBVIOUS
<1>1. UNCHANGED <<givens, pc, over, lists, loaded, page, faults>>
  BY DEF Helm, Upgrade, Supersede, Deployed, UpgradeFails
<1>2. secrets' \subseteq Revision /\ running' \in Versions /\ Cluster'
  BY HelmStep DEF HelmInv
<1>3. TypeOK'
  BY <1>1, <1>2 DEF HelmInv, TypeOK, givens, lists
<1>4. Progress'
  BY <1>1 DEF HelmInv, Progress, Lists, Taken, Selected, givens, lists
<1> QED BY <1>1, <1>2, <1>3, <1>4 DEF HelmInv, Charts, Chart, ShownIsCurrent, NoReleaseLost, givens, lists

LEMMA GetStep == HelmInv /\ GetHelmReleases => HelmInv'
<1> SUFFICES ASSUME HelmInv, GetHelmReleases PROVE HelmInv'
  OBVIOUS
<1>1. /\ pc = "idle" /\ pc' = "list" /\ errs' = {} /\ ran' = None /\ page' = None
      /\ todo' = IF scanOpts.included = {} THEN {Namespaces}
                 ELSE {{n} : n \in scanOpts.included \ scanOpts.excluded}
      /\ UNCHANGED <<secrets, running, index, scanOpts, over, all, loaded, faults>>
  BY DEF GetHelmReleases, helmVars, givens
<1>2. all = {} /\ all' = {} /\ loaded' = <<>>
  BY <1>1 DEF HelmInv, Progress
<1>3. scanOpts.included \subseteq Namespaces /\ scanOpts.excluded \subseteq Namespaces
  BY NamespacesAssumption DEF HelmInv, TypeOK
<1>4. TypeOK'
  BY <1>1, <1>3 DEF HelmInv, TypeOK, OrNone
<1>5. Lists'
  BY <1>1, <1>2, <1>3 DEF Lists, Selected, Taken
<1>6. Progress'
  BY <1>1, <1>2, <1>5 DEF Progress
<1>7. Cluster'
  BY <1>1 DEF HelmInv, Cluster, Newest
<1> QED BY <1>1, <1>2, <1>4, <1>6, <1>7
        DEF HelmInv, Snapshot, LastOfMine, Charts, Chart, ShownIsCurrent, NoReleaseLost

LEMMA TimeStep == HelmInv /\ TimeOver => HelmInv'
<1> SUFFICES ASSUME HelmInv, TimeOver PROVE HelmInv'
  OBVIOUS
<1>1. UNCHANGED <<secrets, running, index, scanOpts, pc, todo, errs, all, ran, loaded, page>>
  BY DEF TimeOver, helmVars, givens, lists
<1>2. over' = TRUE /\ faults' \in 0..MaxFaults
  BY BoundAssumption DEF HelmInv, TypeOK, TimeOver, Fault
<1>3. TypeOK'
  BY <1>1, <1>2 DEF HelmInv, TypeOK
<1>4. Progress' /\ Cluster'
  BY <1>1 DEF HelmInv, Progress, Lists, Taken, Selected, Cluster, Newest
<1> QED BY <1>1, <1>3, <1>4 DEF HelmInv, Charts, Chart, ShownIsCurrent, NoReleaseLost

LEMMA ListedStep == HelmInv /\ Listed => HelmInv'
<1> SUFFICES ASSUME HelmInv, Listed PROVE HelmInv'
  OBVIOUS
<1>1. UNCHANGED <<secrets, running, index, scanOpts, todo, errs, all, ran, loaded, page, faults>>
  BY DEF Listed, helmVars, givens, lists
<1>2. /\ pc = "list" /\ pc' \in {"idle", "indexes"} /\ todo = {} /\ over' \in BOOLEAN
      /\ pc' = "idle" => all = {}
      /\ pc' = "indexes" => errs = {} \/ all # {}
  BY DEF Listed, HelmInv, TypeOK
<1>3. TypeOK'
  BY <1>1, <1>2 DEF HelmInv, TypeOK
<1>4. Cluster'
  BY <1>1 DEF HelmInv, Cluster, Newest
<1>5. Lists /\ page = None
  BY <1>2 DEF HelmInv, Progress
<1>6. Lists'
  BY <1>1, <1>5 DEF Lists, Taken, Selected
<1>7. Progress'
  BY <1>1, <1>2, <1>5, <1>6 DEF HelmInv, Progress
<1> QED BY <1>1, <1>3, <1>4, <1>5, <1>7 DEF HelmInv, Charts, Chart, ShownIsCurrent, NoReleaseLost

LEMMA FetchStep == HelmInv /\ FetchIndex => HelmInv'
<1> SUFFICES ASSUME HelmInv, FetchIndex PROVE HelmInv'
  OBVIOUS
<1>1. /\ UNCHANGED <<secrets, running, index, scanOpts, pc, over, todo, errs, all, ran, page>>
      /\ pc = "indexes"
  BY DEF FetchIndex, helmVars, givens, lists
<1>2. faults' \in 0..MaxFaults
  BY BoundAssumption DEF HelmInv, TypeOK, FetchIndex, Works, Breaks, Fault
<1>3. PICK x : /\ loaded' = Append(loaded, x) /\ x \in {None, index[Len(loaded) + 1]}
               /\ Len(loaded) < Repos
  BY DEF FetchIndex
<1>4. /\ loaded \in Seq(OrNone(SUBSET Versions)) /\ Len(loaded) \in Nat /\ Repos \in Nat
      /\ index[Len(loaded) + 1] \in Entries
  <2>1. loaded \in Seq(OrNone(SUBSET Versions)) /\ Len(loaded) \in Nat /\ Repos \in Nat
    BY BoundAssumption, LenProperties DEF HelmInv, TypeOK
  <2>2. Len(loaded) + 1 \in 1..Repos
    BY <1>3, <2>1
  <2> QED BY <2>1, <2>2 DEF HelmInv, TypeOK
<1>5. x \in OrNone(SUBSET Versions)
  BY <1>3, <1>4 DEF Entries, OrNone
<1>6. /\ loaded' \in Seq(OrNone(SUBSET Versions)) /\ Len(loaded') = Len(loaded) + 1
      /\ \A i \in DOMAIN loaded' : loaded'[i] \in {None, index[i]}
  <2>1. /\ loaded' \in Seq(OrNone(SUBSET Versions)) /\ Len(loaded') = Len(loaded) + 1
        /\ \A i \in 1..Len(loaded) : loaded'[i] = loaded[i]
        /\ loaded'[Len(loaded) + 1] = x
    BY <1>3, <1>4, <1>5, AppendProperties
  <2>2. DOMAIN loaded' = 1..(Len(loaded) + 1) /\ DOMAIN loaded = 1..Len(loaded)
    BY <1>4, <2>1, LenProperties
  <2>3. \A i \in 1..(Len(loaded) + 1) : i \in 1..Len(loaded) \/ i = Len(loaded) + 1
    BY <1>4
  <2>4. \A i \in 1..Len(loaded) : loaded[i] \in {None, index[i]}
    BY <2>2 DEF HelmInv, Progress
  <2> QED BY <1>3, <2>1, <2>2, <2>3, <2>4
<1>7. TypeOK'
  <2>1. Len(loaded') <= Repos
    BY <1>3, <1>4, <1>6
  <2> QED BY <1>1, <1>2, <1>6, <2>1 DEF HelmInv, TypeOK
<1>8. Cluster'
  BY <1>1 DEF HelmInv, Cluster, Newest
<1>9. Lists /\ page = None
  BY <1>1 DEF HelmInv, Progress
<1>10. Lists'
  BY <1>1, <1>9 DEF Lists, Taken, Selected
<1>11. Progress'
  BY <1>1, <1>6, <1>9, <1>10 DEF HelmInv, Progress
<1> QED BY <1>1, <1>7, <1>8, <1>9, <1>11 DEF HelmInv, Charts, Chart, ShownIsCurrent, NoReleaseLost
(* A list of some namespaces, of one moment.                                *)
LEMMA SnapshotStep ==
  ASSUME HelmInv, Lists, NEW ns \in todo,
         all' = all \cup UNION {SecretsIn(n) : n \in ns},
         ran' = IF Upgraded.namespace \in ns THEN running ELSE ran
  PROVE  /\ Snapshot(all', ran') /\ all' \subseteq Secret /\ ran' \in OrNone(Versions)
         /\ \A s \in all' : s \in all \/ s.namespace \in ns
         /\ \A n \in ns : Taken(n)'
<1>1. /\ Snapshot(all, ran) /\ all \subseteq Secret /\ ns \subseteq Namespaces
      /\ secrets \subseteq Revision /\ Newest \in secrets
      /\ ran \in OrNone(Versions) /\ running \in Versions
  BY NewestType DEF HelmInv, TypeOK
<1>2. \A s \in all' : \/ s \in all
                      \/ s.namespace \in ns /\ s \in Others /\ s.labels.owner
                      \/ Upgraded.namespace \in ns /\ \E r \in secrets : s = MineOf(r)
  BY <1>1, SecretsOf
<1>3. \A s \in all : s.namespace \notin ns
  BY DEF Lists
<1>4. \A r \in secrets : MineOf(r).namespace = Upgraded.namespace
  BY DEF MineOf
<1>5. \A s \in all' : s \in Secret /\ Consistent(s) /\ (Mine(s) \/ s \in Others)
  BY <1>1, <1>2, MineOfType, OthersNotMine DEF Snapshot
<1>6. ASSUME NEW s \in all', NEW t \in all', SameName(s, t) PROVE s = t
  <2>1. CASE s \in all /\ t \in all
    BY <1>1, <1>6, <2>1 DEF Snapshot
  <2>2. CASE s \in Others /\ t \in Others
    BY <1>6, <2>2, OthersAssumption
  <2>3. ASSUME NEW q \in secrets, NEW r \in secrets, s = MineOf(q), t = MineOf(r) PROVE s = t
    <3>1. q.number = r.number
      BY <1>1, <1>6, <2>3, MineOfType DEF SameName
    <3> QED BY <2>3, <3>1 DEF HelmInv, Cluster
  <2>4. Mine(s) <=> Mine(t)
    BY <1>6 DEF SameName, Mine
  <2>5. \A u \in all' : \/ u \in all
                        \/ ~Mine(u) /\ u \in Others
                        \/ Mine(u) /\ \E r \in secrets : u = MineOf(r)
    BY <1>1, <1>2, MineOfType, OthersNotMine
  <2> QED BY <1>2, <1>3, <1>4, <1>6, <2>1, <2>2, <2>3, <2>4, <2>5 DEF SameName
<1>7. CASE Upgraded.namespace \in ns
  <2>1. \A s \in all' : Mine(s) => \E r \in secrets : s = MineOf(r)
    BY <1>2, <1>3, <1>7, OthersNotMine DEF Mine
  <2>2. \A r \in secrets : MineOf(r) \in all'
    BY <1>1, <1>7, SecretsOf
  <2>3. LastOfMine(MineOf(Newest), all')
    BY <1>1, <2>1, <2>2, MineOfType, NewestType DEF LastOfMine, HelmInv
  <2>4. ASSUME NEW s \in all', LastOfMine(s, all')
        PROVE  /\ s.payload # None /\ s.payload.status \in Statuses \ {"superseded"}
               /\ s.payload.status = "deployed" => s.payload.version = ran'
    <3>1. PICK r \in secrets : s = MineOf(r)
      BY <2>1, <2>4 DEF LastOfMine
    <3>2. r.number \in Nat /\ Newest.number \in Nat /\ r.number >= Newest.number /\ Newest.number >= r.number
      <4>1. MineOf(r).number >= MineOf(Newest).number
        BY <1>1, <2>2, <2>4, <3>1, MineOfType DEF LastOfMine
      <4> QED BY <1>1, <4>1, MineOfType, NewestType, RevisionType DEF HelmInv
    <3>3. r = Newest
      <4>1. r.number = Newest.number
        BY <3>2
      <4> QED BY <1>1, <4>1 DEF HelmInv, Cluster
    <3>4. /\ Newest.status \in Statuses \ {"superseded"}
          /\ Newest.status = "deployed" => Newest.version = running
      BY <1>1, RevisionType DEF HelmInv, Cluster
    <3> QED BY <1>1, <1>7, <3>1, <3>3, <3>4, MineOfType
  <2>5. Snapshot(all', ran')
    BY <1>5, <1>6, <2>2, <2>3, <2>4 DEF Snapshot, LastOfMine
  <2>6. \A n \in ns : Taken(n)'
    BY <1>1, <1>5, <2>3, SecretsOf DEF Taken, LastOfMine
  <2> QED BY <1>1, <1>2, <1>4, <1>5, <1>7, <2>5, <2>6 DEF OrNone
<1>8. CASE Upgraded.namespace \notin ns
  <2>1. \A s \in all' : Mine(s) <=> s \in all /\ Mine(s)
    BY <1>2, <1>8, OthersNotMine
  <2>2. all \subseteq all'
    OBVIOUS
  <2>3. \A s : LastOfMine(s, all') <=> LastOfMine(s, all)
    BY <2>1, <2>2 DEF LastOfMine
  <2>4. (\E s \in all' : Mine(s)) => \E s \in all' : LastOfMine(s, all')
    BY <1>1, <2>1, <2>2, <2>3 DEF Snapshot
  <2>5. \A s \in all' : LastOfMine(s, all') =>
          /\ s.payload # None /\ s.payload.status \in Statuses \ {"superseded"}
          /\ s.payload.status = "deployed" => s.payload.version = ran'
    <3>1. \A s : LastOfMine(s, all) => s \in all
      BY DEF LastOfMine
    <3> QED BY <1>1, <1>8, <2>3, <3>1 DEF Snapshot
  <2>6. Snapshot(all', ran')
    BY <1>5, <1>6, <2>4, <2>5 DEF Snapshot
  <2>7. \A n \in ns : Taken(n)'
    BY <1>1, <1>8, SecretsOf DEF Taken
  <2> QED BY <1>1, <1>2, <1>5, <1>8, <2>6, <2>7
<1> QED BY <1>7, <1>8

LEMMA ListStep == HelmInv /\ ListHelmReleaseSecrets => HelmInv'
<1> SUFFICES ASSUME HelmInv, ListHelmReleaseSecrets PROVE HelmInv'
  OBVIOUS
<1>1. pc = "list" /\ UNCHANGED <<secrets, running, index, scanOpts, pc, over, loaded, page>>
  BY DEF ListHelmReleaseSecrets, helmVars, givens
<1>2. Lists /\ page = None /\ loaded = <<>>
  BY <1>1 DEF HelmInv, Progress
<1>3. faults' \in 0..MaxFaults
  BY BoundAssumption DEF HelmInv, TypeOK, ListHelmReleaseSecrets, Works, Breaks, Fault
<1>4. PICK ns \in todo :
        /\ todo' = todo \ {ns}
        /\ \/ /\ all' = all \cup UNION {SecretsIn(n) : n \in ns} /\ errs' = errs
              /\ ran' = IF Upgraded.namespace \in ns THEN running ELSE ran
           \/ errs' = errs \cup ns /\ all' = all /\ ran' = ran
  BY DEF ListHelmReleaseSecrets, Works
<1>5. \A n : n \in UNION todo' <=> n \in UNION todo /\ n \notin ns
  BY <1>2, <1>4 DEF Lists
<1>6. ns \subseteq Namespaces /\ (scanOpts.included # {} => ns \subseteq Selected)
  BY <1>2 DEF HelmInv, TypeOK, Lists
<1>7. /\ Snapshot(all', ran') /\ all' \subseteq Secret /\ ran' \in OrNone(Versions)
      /\ errs' \subseteq Namespaces /\ Lists'
  <2>1. CASE /\ all' = all \cup UNION {SecretsIn(n) : n \in ns} /\ errs' = errs
             /\ ran' = IF Upgraded.namespace \in ns THEN running ELSE ran
    <3>1. /\ Snapshot(all', ran') /\ all' \subseteq Secret /\ ran' \in OrNone(Versions)
          /\ \A s \in all' : s \in all \/ s.namespace \in ns
          /\ \A n \in ns : Taken(n)'
      BY <1>2, <2>1, SnapshotStep
    <3>2. \A n : Taken(n) => Taken(n)'
      BY <2>1 DEF Taken
    <3>3. Lists'
      <4>1. /\ \A ms, os \in todo' : ms \cap os # {} => ms = os
            /\ errs' \cap UNION todo' = {}
        BY <1>2, <1>4, <1>5, <2>1 DEF Lists
      <4>2. \A s \in all' : /\ s.namespace \notin errs' \cup UNION todo'
                            /\ scanOpts.included # {} => s.namespace \in Selected
        BY <1>2, <1>5, <1>6, <2>1, <3>1 DEF Lists
      <4>3. scanOpts.included # {} => UNION todo' \subseteq Selected
        BY <1>2, <1>5 DEF Lists
      <4>4. \A n \in Selected : n \in UNION todo' \/ n \in errs' \/ Taken(n)'
        BY <1>2, <1>5, <2>1, <3>1, <3>2 DEF Lists
      <4>5. scanOpts.included = {} => todo' = {} /\ errs' = {}
        BY <1>2, <1>4, <2>1 DEF Lists
      <4>6. Selected' = Selected /\ scanOpts' = scanOpts
        BY <1>1 DEF Selected
      <4> QED BY <4>1, <4>2, <4>3, <4>4, <4>5, <4>6 DEF Lists
    <3> QED BY <2>1, <3>1, <3>3 DEF HelmInv, TypeOK
  <2>2. CASE errs' = errs \cup ns /\ all' = all /\ ran' = ran
    <3>1. Lists'
      <4>1. /\ \A ms, os \in todo' : ms \cap os # {} => ms = os
            /\ errs' \cap UNION todo' = {}
        BY <1>2, <1>4, <1>5, <2>2 DEF Lists
      <4>2. \A s \in all' : /\ s.namespace \notin errs' \cup UNION todo'
                            /\ scanOpts.included # {} => s.namespace \in Selected
        BY <1>2, <1>5, <2>2 DEF Lists
      <4>3. scanOpts.included # {} => UNION todo' \subseteq Selected
        BY <1>2, <1>5 DEF Lists
      <4>4. \A n \in Selected : n \in UNION todo' \/ n \in errs' \/ Taken(n)'
        BY <1>2, <1>5, <2>2 DEF Lists, Taken
      <4>5. scanOpts.included = {} => todo' = {} /\ all' = {}
        BY <1>2, <1>4, <2>2 DEF Lists
      <4>6. Selected' = Selected /\ scanOpts' = scanOpts
        BY <1>1 DEF Selected
      <4> QED BY <4>1, <4>2, <4>3, <4>4, <4>5, <4>6 DEF Lists
    <3> QED BY <1>6, <2>2, <3>1 DEF HelmInv, TypeOK
  <2> QED BY <1>4, <2>1, <2>2
<1>8. TypeOK'
  <2>1. todo' \subseteq SUBSET Namespaces
    BY <1>4 DEF HelmInv, TypeOK
  <2> QED BY <1>1, <1>2, <1>3, <1>7, <2>1 DEF HelmInv, TypeOK
<1>9. Cluster'
  BY <1>1 DEF HelmInv, Cluster, Newest
<1>10. Progress'
  BY <1>1, <1>2, <1>7 DEF HelmInv, Progress
<1> QED BY <1>1, <1>2, <1>7, <1>8, <1>9, <1>10 DEF HelmInv, Charts, Chart, ShownIsCurrent, NoReleaseLost
-----------------------------------------------------------------------------
(* The answers.                                                             *)

LEMMA SecretOfAll ==
  ASSUME HelmInv, NEW s \in all
  PROVE  /\ s \in Secret /\ Consistent(s) /\ s.number \in Nat
         /\ ReleaseName(s) = s.release /\ HelmSecretRevision(s) = s.number
         /\ HelmReleaseFromSecret(s) \in Release
         /\ HelmReleaseFromSecret(s).namespace = s.namespace
         /\ HelmReleaseFromSecret(s).name = s.release
         /\ HelmReleaseFromSecret(s).number = s.number
BY ConsistentSecret DEF HelmInv, Snapshot

(* Every release has a last secret in the lists, and one only.              *)
LEMMA GroupLast ==
  ASSUME HelmInv, NEW s \in all
  PROVE  \E t \in all : /\ t.namespace = s.namespace /\ t.release = s.release
                        /\ t.number >= s.number /\ Latest(t)
<1> DEFINE G == {t \in all : t.namespace = s.namespace /\ t.release = s.release}
<1>1. \E t \in G : \A u \in G : t.number >= u.number
  <2>1. CASE Mine(s)
    <3>1. \A u \in all : u \in G <=> Mine(u)
      BY <2>1 DEF Mine
    <3> HIDE DEF G
    <3>2. PICK t \in all : LastOfMine(t, all)
      BY <2>1 DEF HelmInv, Snapshot
    <3>3. \A u \in G : u \in all
      BY DEF G
    <3> QED BY <3>1, <3>2, <3>3 DEF LastOfMine
  <2>2. CASE ~Mine(s)
    <3>1. G \subseteq Others
      BY <2>2 DEF HelmInv, Snapshot, Mine
    <3>2. IsFiniteSet(G) /\ s \in G
      BY <3>1, OthersAssumption, FS_Subset
    <3>3. \A t \in G : t.number \in Nat
      BY SecretOfAll
    <3> HIDE DEF G
    <3> QED BY <3>2, <3>3, SomeLast
  <2> QED BY <2>1, <2>2
<1>2. PICK t \in G : \A u \in G : t.number >= u.number
  BY <1>1
<1>3. \A u \in all : SameRelease(t, u) => u \in G
  BY <1>2, SecretOfAll DEF SameRelease
<1>4. Latest(t)
  BY <1>2, <1>3, SecretOfAll DEF Latest
<1> QED BY <1>2, <1>4

LEMMA OneLatest ==
  ASSUME HelmInv, NEW s \in all, NEW t \in all, Latest(s), Latest(t),
         s.namespace = t.namespace, s.release = t.release
  PROVE  s = t
<1>1. SameRelease(s, t) /\ SameRelease(t, s)
  BY SecretOfAll DEF SameRelease
<1>2. s.number \in Nat /\ t.number \in Nat /\ s.number >= t.number /\ t.number >= s.number
  BY <1>1, SecretOfAll DEF Latest
<1>3. s.number = t.number
  BY <1>2
<1> QED BY <1>3 DEF HelmInv, Snapshot, SameName

LEMMA LatestOfMine ==
  ASSUME HelmInv, NEW s \in all, Latest(s), Mine(s)
  PROVE  LastOfMine(s, all)
<1>1. \A t \in all : Mine(t) => SameRelease(s, t)
  BY SecretOfAll DEF SameRelease, Mine
<1> QED BY <1>1, SecretOfAll DEF LastOfMine, Latest

PageEntry == [release : Release, repo : OrNone(1..Repos), latest : OrNone(Versions), update : BOOLEAN]

LEMMA AnswerStep ==
  ASSUME HelmInv, pc = "indexes", NEW shown, DOMAIN shown = DiscoverHelmReleases,
         \A r \in DiscoverHelmReleases :
           shown[r].release = r /\ shown[r] \in PageEntry /\ Chart(shown[r]),
         Answer(shown)
  PROVE  HelmInv'
<1>0. /\ Lists /\ todo = {} /\ (errs = {} \/ all # {})
      /\ page' = {shown[r] : r \in DiscoverHelmReleases}
      /\ pc' = "idle" /\ over' = FALSE /\ all' = {} /\ loaded' = <<>>
      /\ UNCHANGED <<secrets, running, index, scanOpts, todo, errs, ran, faults>>
  BY DEF HelmInv, Progress, Answer, helmVars, givens
<1>1. ASSUME NEW x \in page'
      PROVE  \E t \in all : /\ t.namespace \notin scanOpts.excluded /\ Latest(t)
                            /\ x.release = HelmReleaseFromSecret(t)
                            /\ x = shown[HelmReleaseFromSecret(t)]
  BY <1>0 DEF DiscoverHelmReleases
<1>2. ASSUME NEW t \in all, t.namespace \notin scanOpts.excluded, Latest(t)
      PROVE  /\ shown[HelmReleaseFromSecret(t)] \in page'
             /\ shown[HelmReleaseFromSecret(t)].release = HelmReleaseFromSecret(t)
  BY <1>0, <1>2 DEF DiscoverHelmReleases
<1>3. ShownIsCurrent'
  <2> SUFFICES ASSUME NEW x \in page',
                      [namespace |-> x.release.namespace, name |-> x.release.name] = Upgraded
               PROVE  /\ x.release.status # "superseded"
                      /\ x.release.status = "deployed" => x.release.version = ran
    BY <1>0 DEF ShownIsCurrent
  <2>1. PICK t \in all : Latest(t) /\ x.release = HelmReleaseFromSecret(t)
    BY <1>1
  <2>2. Mine(t)
    <3>1. x.release.namespace = Upgraded.namespace /\ x.release.name = Upgraded.name
      OBVIOUS
    <3> QED BY <2>1, <3>1, SecretOfAll DEF Mine
  <2>3. /\ t.payload # None /\ t.payload.status \in Statuses \ {"superseded"}
        /\ t.payload.status = "deployed" => t.payload.version = ran
    BY <2>1, <2>2, LatestOfMine DEF HelmInv, Snapshot
  <2>4. x.release.status = t.payload.status /\ x.release.version = t.payload.version
    BY <2>1, <2>3, NamespacesAssumption DEF HelmReleaseFromSecret, Or
  <2> QED BY <2>3, <2>4
<1>4. NoReleaseLost'
  <2> DEFINE shows(n, name) == {x \in page' : x.release.namespace = n /\ x.release.name = name}
  <2>1. ASSUME NEW s \in all, s.namespace \notin scanOpts.excluded
        PROVE  \E x \in shows(s.namespace, s.release) :
                 /\ shows(s.namespace, s.release) = {x}
                 /\ x.release.number >= s.number
    <3>1. PICK t \in all : /\ t.namespace = s.namespace /\ t.release = s.release
                           /\ t.number >= s.number /\ Latest(t)
      BY GroupLast
    <3> DEFINE x == shown[HelmReleaseFromSecret(t)]
    <3>2. x \in page' /\ x.release = HelmReleaseFromSecret(t)
      BY <1>2, <2>1, <3>1
    <3>3. ASSUME NEW y \in page', y.release.namespace = s.namespace, y.release.name = s.release
          PROVE  y = x
      <4>1. PICK u \in all : /\ Latest(u) /\ y.release = HelmReleaseFromSecret(u)
                             /\ y = shown[HelmReleaseFromSecret(u)]
        BY <1>1
      <4>2. u = t
        BY <3>1, <3>3, <4>1, SecretOfAll, OneLatest
      <4> QED BY <4>1, <4>2
    <3>4. x.release.namespace = s.namespace /\ x.release.name = s.release /\ x.release.number >= s.number
      BY <3>1, <3>2, SecretOfAll
    <3> HIDE DEF x
    <3> QED BY <3>2, <3>3, <3>4
  <2>2. \A n \in Selected \ errs : Taken(n) /\ n \notin scanOpts.excluded
    BY <1>0 DEF Lists, Selected
  <2>3. ASSUME NEW s \in Others, s.labels.owner, s.namespace \in Selected \ errs
        PROVE  \E x \in shows(s.namespace, s.release) :
                 /\ shows(s.namespace, s.release) = {x}
                 /\ x.release.number >= s.number
    <3>1. s \in all /\ s.namespace \notin scanOpts.excluded
      BY <2>2, <2>3 DEF Taken
    <3> QED BY <2>1, <3>1
  <2>4. ASSUME Upgraded.namespace \in Selected \ errs
        PROVE  Cardinality(shows(Upgraded.namespace, Upgraded.name)) = 1
    <3>1. PICK s \in all : Mine(s)
      BY <2>2, <2>4 DEF Taken
    <3>2. PICK x : shows(s.namespace, s.release) = {x}
      BY <2>1, <2>2, <2>4, <3>1 DEF Mine
    <3>3. shows(Upgraded.namespace, Upgraded.name) = {x}
      BY <3>1, <3>2 DEF Mine
    <3> HIDE DEF shows
    <3> QED BY <3>3, FS_Singleton
  <2>5. errs = {} \/ page' # {}
    <3> SUFFICES ASSUME errs # {} PROVE page' # {}
      OBVIOUS
    <3>1. PICK s \in all : TRUE
      BY <1>0
    <3>2. s.namespace \notin scanOpts.excluded
      BY <1>0 DEF Lists, Selected
    <3> QED BY <2>1, <3>2
  <2>6. \A x \in page' : x.release.namespace \in Selected \ errs
    <3> SUFFICES ASSUME NEW x \in page' PROVE x.release.namespace \in Selected \ errs
      OBVIOUS
    <3>1. PICK t \in all : /\ t.namespace \notin scanOpts.excluded
                           /\ x.release = HelmReleaseFromSecret(t)
      BY <1>1
    <3>2. x.release.namespace = t.namespace /\ t.namespace \in Namespaces
      BY <3>1, SecretOfAll DEF Secret
    <3>3. t.namespace \notin errs /\ (scanOpts.included # {} => t.namespace \in Selected)
      BY <1>0 DEF Lists
    <3> QED BY <3>1, <3>2, <3>3 DEF Selected
  <2> HIDE DEF shows
  <2>7. /\ \A s \in Others : s.labels.owner /\ s.namespace \in Selected \ errs =>
             \E x \in shows(s.namespace, s.release) :
               /\ shows(s.namespace, s.release) = {x}
               /\ x.release.number >= s.number
        /\ Upgraded.namespace \in Selected \ errs =>
             Cardinality(shows(Upgraded.namespace, Upgraded.name)) = 1
        /\ errs = {} \/ page' # {}
        /\ \A x \in page' : x.release.namespace \in Selected \ errs
    BY <2>3, <2>4, <2>5, <2>6
  <2> QED BY ONLY <1>0, <2>7 DEF NoReleaseLost, Selected, shows
<1>5. TypeOK'
  <2>1. page' \subseteq PageEntry
    BY <1>0
  <2>2. loaded' \in Seq(OrNone(SUBSET Versions)) /\ Len(loaded') <= Repos
    BY <1>0, BoundAssumption
  <2> QED BY <1>0, <2>1, <2>2 DEF HelmInv, TypeOK, PageEntry
<1>6. Cluster'
  BY <1>0 DEF HelmInv, Cluster, Newest
<1>7. Snapshot(all', ran')
  BY <1>0 DEF Snapshot, LastOfMine
<1>8. Progress'
  BY <1>0 DEF Progress
<1>9. Charts'
  BY <1>0 DEF Charts, Chart
<1> QED BY <1>3, <1>4, <1>5, <1>6, <1>7, <1>8, <1>9 DEF HelmInv

LEMMA DiscoveredType == HelmInv => DiscoverHelmReleases \subseteq Release
BY SecretOfAll DEF DiscoverHelmReleases

LEMMA BareType ==
  ASSUME NEW r \in Release
  PROVE  Bare(r).release = r /\ Bare(r) \in PageEntry /\ Chart(Bare(r))
BY DEF Bare, PageEntry, OrNone, Chart

LEMMA NotFoundStep == HelmInv /\ NotFound => HelmInv'
<1> SUFFICES ASSUME HelmInv, NotFound PROVE HelmInv'
  OBVIOUS
<1> DEFINE shown == [r \in DiscoverHelmReleases |-> Bare(r)]
<1>1. pc = "indexes" /\ Answer(shown)
  BY DEF NotFound
<1>2. \A r \in DiscoverHelmReleases :
        shown[r].release = r /\ shown[r] \in PageEntry /\ Chart(shown[r])
  BY DiscoveredType, BareType
<1> HIDE DEF shown
<1>3. DOMAIN shown = DiscoverHelmReleases
  BY DEF shown
<1> QED BY <1>1, <1>2, <1>3, AnswerStep

(* The first of some repositories.                                          *)
LEMMA FirstRepo ==
  ASSUME NEW n \in Nat, NEW S \in SUBSET (1..n), S # {}
  PROVE  Min(S) \in S
<1> DEFINE Before(x) == {y \in S : y < x}
           Befores == {Before(x) : x \in S}
<1>1. S \subseteq Nat /\ IsFiniteSet(S)
  <2>1. IsFiniteSet(1..n)
    BY FS_Interval
  <2>2. IsFiniteSet(S)
    BY <2>1, FS_Subset
  <2> QED BY <2>2
<1>2. Befores \subseteq FiniteSubsetsOf(S) /\ Befores # {}
  <2>1. FiniteSubsetsOf(S) = SUBSET S
    BY <1>1, FS_FiniteSubsetsOfFinite
  <2>2. \A x \in S : Before(x) \in SUBSET S
    OBVIOUS
  <2>3. \E x : x \in S
    OBVIOUS
  <2> HIDE DEF Before
  <2> QED BY ONLY <2>1, <2>2, <2>3
<1>3. PICK A \in Befores : \A B \in Befores : <<B, A>> \notin StrictSubsetOrdering(S)
  <2> HIDE DEF Befores
  <2> QED BY <1>2, FS_StrictSubsetOrderingWellFounded, WFMin
<1>4. PICK x \in S : A = Before(x)
  OBVIOUS
<1>5. ASSUME NEW y \in S, y < x PROVE FALSE
  <2>1. Before(y) \subseteq Before(x) /\ y \in Before(x) /\ y \notin Before(y)
    <3>1. x \in Nat /\ y \in Nat /\ S \subseteq Nat /\ ~(y < y)
      BY <1>1
    <3>2. \A z \in S : z < y => z < x
      BY <1>5, <3>1
    <3> QED BY <1>5, <3>1, <3>2
  <2>2. <<Before(y), Before(x)>> \in StrictSubsetOrdering(S)
    BY <2>1 DEF StrictSubsetOrdering
  <2> QED BY <1>3, <1>4, <2>2
<1>6. \A y \in S : x =< y
  BY <1>1, <1>5
<1> QED BY <1>6 DEF Min

LEMMA EnrichStep == HelmInv /\ Enrich => HelmInv'
<1> SUFFICES ASSUME HelmInv, Enrich PROVE HelmInv'
  OBVIOUS
<1> DEFINE repo == Min(WithChart)
<1>1. pc = "indexes" /\ WithChart # {}
  BY DEF Enrich
<1>2. repo \in 1..Repos /\ loaded[repo] = index[repo] /\ index[repo] \subseteq Versions
  <2>1. Len(loaded) \in Nat /\ Repos \in Nat /\ Len(loaded) <= Repos /\ DOMAIN loaded = 1..Len(loaded)
    BY BoundAssumption, LenProperties DEF HelmInv, TypeOK
  <2>2. WithChart \in SUBSET (1..Len(loaded))
    BY <2>1 DEF WithChart
  <2>3. repo \in WithChart
    BY <1>1, <2>1, <2>2, FirstRepo
  <2>4. repo \in 1..Len(loaded) /\ loaded[repo] # None
    BY <2>2, <2>3 DEF WithChart
  <2> HIDE DEF repo
  <2>5. repo \in 1..Repos
    BY <2>1, <2>4
  <2>6. loaded[repo] = index[repo]
    BY <2>1, <2>4 DEF HelmInv, Progress
  <2>7. index[repo] \in Entries
    BY <2>5 DEF HelmInv, TypeOK
  <2> QED BY <2>5, <2>6, <2>7 DEF Entries
<1>3. PICK latest \in LatestChartVersion(loaded[repo]) :
        Answer([r \in DiscoverHelmReleases |->
          IF r.version = None THEN Bare(r)
          ELSE [release |-> r, repo |-> repo, latest |-> latest,
                update |-> CompareVersions(latest, r.version)]])
  BY DEF Enrich
<1> DEFINE shown == [r \in DiscoverHelmReleases |->
          IF r.version = None THEN Bare(r)
          ELSE [release |-> r, repo |-> repo, latest |-> latest,
                update |-> CompareVersions(latest, r.version)]]
<1> HIDE DEF repo
<1>4. latest \in LatestChartVersion(index[repo]) /\ latest \in Versions
  BY <1>2, <1>3 DEF LatestChartVersion
<1>5. ASSUME NEW r \in DiscoverHelmReleases
      PROVE  shown[r].release = r /\ shown[r] \in PageEntry /\ Chart(shown[r])
  <2>1. r \in Release /\ r.version \in OrNone(Versions)
    BY DiscoveredType DEF Release
  <2>2. CASE r.version = None
    BY <2>1, <2>2, BareType
  <2>3. CASE r.version # None
    <3> DEFINE x == [release |-> r, repo |-> repo, latest |-> latest,
                     update |-> CompareVersions(latest, r.version)]
    <3>1. shown[r] = x
      BY <2>3
    <3>2. CompareVersions(latest, r.version) \in BOOLEAN
      BY DEF CompareVersions
    <3>3. r.version \in Versions /\ repo # None
      BY <1>2, <2>1, <2>3, NamespacesAssumption DEF OrNone
    <3>4. x \in PageEntry
      BY <1>2, <1>4, <2>1, <3>2 DEF PageEntry, OrNone
    <3>5. Chart(x)
      BY <1>2, <1>4, <3>3 DEF Chart
    <3> HIDE DEF shown
    <3> QED BY <3>1, <3>4, <3>5
  <2> QED BY <2>2, <2>3
<1> HIDE DEF shown
<1>6. DOMAIN shown = DiscoverHelmReleases /\ Answer(shown)
  BY <1>3 DEF shown
<1> QED BY <1>1, <1>5, <1>6, AnswerStep

LEMMA NextInv == HelmInv /\ [Next]_vars => HelmInv'
<1>1. HelmInv /\ UNCHANGED vars => HelmInv'
  <2> SUFFICES ASSUME HelmInv, UNCHANGED vars PROVE HelmInv'
    OBVIOUS
  <2>1. UNCHANGED <<secrets, running, index, scanOpts, pc, over, todo, errs, all, ran, loaded, page,
                    faults>>
    BY DEF vars, helmVars, givens, lists
  <2>2. TypeOK' /\ Cluster'
    BY <2>1 DEF HelmInv, TypeOK, Cluster, Newest
  <2>3. Progress'
    BY <2>1 DEF HelmInv, Progress, Lists, Taken, Selected
  <2> QED BY <2>1, <2>2, <2>3 DEF HelmInv, Charts, Chart, ShownIsCurrent, NoReleaseLost
<1> QED BY <1>1, HelmInvStep, GetStep, TimeStep, ListStep, ListedStep, FetchStep, EnrichStep,
           NotFoundStep DEF Next, Request

LEMMA InvAlways == Spec => []HelmInv
BY InitInv, NextInv, PTL DEF Spec

-----------------------------------------------------------------------------
(* The theorems.                                                            *)

(* The cluster, the request and its answer keep their types.                *)
THEOREM HelmTypes == Spec => []TypeOK
<1>1. HelmInv => TypeOK
  BY DEF HelmInv
<1> QED BY <1>1, InvAlways, PTL

(* The page never takes an old revision for the release, with any history.  *)
THEOREM CurrentShown == Spec => []ShownIsCurrent
<1>1. HelmInv => ShownIsCurrent
  BY DEF HelmInv
<1> QED BY <1>1, InvAlways, PTL

(* No release with labelled secrets in a namespace that was listed is lost, *)
(* shown twice or in an older revision (listHelmReleaseSecrets).            *)
THEOREM ReleasesShown == Spec => []NoReleaseLost
<1>1. HelmInv => NoReleaseLost
  BY DEF HelmInv
<1> QED BY <1>1, InvAlways, PTL

(* What is called a chart update is not an older version, for any numbers   *)
(* (EnrichHelmReleases, compareVersions).                                   *)
THEOREM ChartUpdatesAreReal == Spec => []ChartUpdateIsReal
<1>1. HelmInv => ChartUpdateIsReal
  <2> SUFFICES ASSUME HelmInv, page # None, NEW x \in page, x.update
               PROVE  /\ Whole(x.latest) /\ Whole(x.release.version) =>
                           ~Newer(x.release.version, x.latest)
                      /\ x.latest.kind = "final" /\ x.release.version.kind = "final" =>
                           Newer(x.latest, x.release.version)
    BY DEF ChartUpdateIsReal
  <2>1. Chart(x) /\ x.repo # None
    BY DEF HelmInv, Charts, Chart
  <2>2. /\ x.release.version \in Versions /\ x.latest \in index[x.repo]
        /\ x.repo \in 1..Repos /\ CompareVersions(x.latest, x.release.version)
    BY <2>1 DEF Chart, LatestChartVersion
  <2>3. x.latest \in Versions
    BY <2>2 DEF HelmInv, TypeOK, Entries
  <2> QED BY <2>2, <2>3, GreaterIsNewer
<1> QED BY <1>1, InvAlways, PTL

(* No newer final version of the repository that answered goes unseen, for  *)
(* any numbers (latestChartVersion).                                        *)
THEOREM ChartsFound == Spec => []NoChartMissed
<1>1. HelmInv => NoChartMissed
  <2> SUFFICES ASSUME HelmInv, page # None, NEW x \in page, x.repo # None,
                      x.release.version.kind = "final", NEW v \in index[x.repo],
                      v.kind = "final", Newer(v, x.release.version)
               PROVE  x.update /\ (Whole(x.latest) => ~Newer(v, x.latest))
    BY DEF NoChartMissed
  <2>1. Chart(x)
    BY DEF HelmInv, Charts
  <2>2. /\ x.release.version \in Versions /\ x.latest \in index[x.repo] /\ x.repo \in 1..Repos
        /\ x.update = CompareVersions(x.latest, x.release.version)
        /\ ~CompareVersions(v, x.latest)
    BY <2>1 DEF Chart, LatestChartVersion
  <2>3. x.latest \in Versions /\ v \in Versions
    BY <2>2 DEF HelmInv, TypeOK, Entries
  <2> QED BY <2>2, <2>3, LatestIsNewest
<1> QED BY <1>1, InvAlways, PTL
===============================================================================
