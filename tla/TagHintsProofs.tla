---------------------------- MODULE TagHintsProofs ----------------------------
(* Proofs about TagHints, for every set of tags.                             *)
EXTENDS TagHints, FiniteSetTheorems, WellFoundedInduction, TLAPS

-----------------------------------------------------------------------------
(* The order of versions.                                                   *)

LEMMA NumberType ==
  ASSUME NEW t \in Tag, NEW k \in Nat \ {0}
  PROVE  Number(t, k) \in Nat
BY DEF Number, Tag

LEMMA GreaterIsTransitive ==
  ASSUME NEW a \in Tag, NEW b \in Tag, NEW c \in Tag,
         SemverGreater(a, b), SemverGreater(b, c)
  PROVE  SemverGreater(a, c)
BY NumberType DEF SemverGreater, Major

LEMMA GreaterIsIrreflexive ==
  ASSUME NEW a \in Tag
  PROVE  ~SemverGreater(a, a)
BY NumberType DEF SemverGreater, Major

LEMMA GreaterIsTotal ==
  ASSUME NEW a \in Tag, NEW b \in Tag, NEW c \in Tag,
         SemverGreater(a, c), ~SemverGreater(a, b)
  PROVE  SemverGreater(b, c)
BY NumberType DEF SemverGreater, Major

(* Of finitely many tags there is one that none is greater than.            *)
LEMMA SomeBest ==
  ASSUME NEW S \in SUBSET Tag, IsFiniteSet(S), S # {}
  PROVE  \E t \in S : \A u \in S : ~SemverGreater(u, t)
<1> DEFINE Above(x) == {y \in S : SemverGreater(y, x)}
           Aboves == {Above(x) : x \in S}
<1>1. Aboves \subseteq FiniteSubsetsOf(S) /\ Aboves # {}
  <2>1. FiniteSubsetsOf(S) = SUBSET S
    BY FS_FiniteSubsetsOfFinite
  <2>2. \A x \in S : Above(x) \in SUBSET S
    OBVIOUS
  <2> HIDE DEF Above
  <2> QED BY <2>1, <2>2
<1>2. PICK A \in Aboves : \A B \in Aboves : <<B, A>> \notin StrictSubsetOrdering(S)
  <2> HIDE DEF Aboves
  <2> QED BY <1>1, FS_StrictSubsetOrderingWellFounded, WFMin
<1>3. PICK t \in S : A = Above(t)
  OBVIOUS
<1>4. ASSUME NEW u \in S, SemverGreater(u, t) PROVE FALSE
  <2>1. Above(u) \subseteq Above(t) /\ u \in Above(t) /\ u \notin Above(u)
    BY <1>4, GreaterIsTransitive, GreaterIsIrreflexive
  <2>2. <<Above(u), Above(t)>> \in StrictSubsetOrdering(S)
    BY <2>1 DEF StrictSubsetOrdering
  <2> QED BY <1>2, <1>3, <2>2
<1> QED BY <1>4

-----------------------------------------------------------------------------
(* What passes all filters.                                                 *)

Passes(t, current, pl, repo) ==
  /\ IF TagArchSuffix(current) # NoArch
       THEN TagArchSuffix(t) = TagArchSuffix(current)
       ELSE TagArchSuffix(t) \in {NoArch, ArchFromPlatform(pl)}
  /\ pl = "linux/amd64" => TagVariantTokens(t) \cap WindowsVariantTokens = {}
  /\ IsPrereleaseTag(t) => IsPrereleaseTag(current)
  /\ VariantsCompatible(TagVariantTokens(current), TagVariantTokens(t))
  /\ IsVersionTag(current) \/ NamedTagStream(current, repo) = NoStream
       \/ NamedTagStream(t, repo) = NamedTagStream(current, repo)
  /\ IsVersionTag(current) /\ IsVersionTag(t) =>
       /\ VersionStylesCompatible(current, t)
       /\ VersionStreamTokens(t) = VersionStreamTokens(current)
       /\ repo = "postgres" => Major(t) = Major(current)
  /\ repo # "linuxserver" \/ LinuxServerStream(current) = NoStream
       \/ LinuxServerStream(t) = LinuxServerStream(current)

LEMMA CompatibleIffPasses ==
  ASSUME NEW tags, NEW current, NEW pl, NEW repo, NEW t
  PROVE  t \in Compatible(tags, current, pl, repo) <=>
           t \in tags /\ Passes(t, current, pl, repo)
BY DEF Compatible, Passes, FilterByArch, FilterByTagCompatibility,
       FilterByNamedStreamCompatibility, FilterByVersionStyle,
       FilterByVersionStreamCompatibility, FilterByStreamCompatibility,
       FilterByMajorCompatibility

(* A selected tag has a version, passed the filters and beats the current   *)
(* one if that has a version.                                               *)
LEMMA Selected ==
  ASSUME NEW tags, NEW current, NEW pl, NEW repo,
         NEW t \in SelectLatestSemverTag(tags, current, pl, repo)
  PROVE  /\ t \in tags /\ IsVersionTag(t) /\ Passes(t, current, pl, repo)
         /\ IsVersionTag(current) => SemverGreater(t, current)
         /\ \A u \in tags : IsVersionTag(u) /\ Passes(u, current, pl, repo) =>
              ~SemverGreater(u, t)
BY CompatibleIffPasses DEF SelectLatestSemverTag, BestSemver

(* What passes from a tag that passed has passed: the filters of the chosen *)
(* tag let nothing in that those of the current one keep out.               *)
LEMMA PassesIsTransitive ==
  ASSUME NEW current, NEW t, NEW u, NEW pl, NEW repo,
         IsVersionTag(t), IsVersionTag(u),
         Passes(t, current, pl, repo), Passes(u, t, pl, repo)
  PROVE  Passes(u, current, pl, repo)
<1>1. IF TagArchSuffix(current) # NoArch
        THEN TagArchSuffix(u) = TagArchSuffix(current)
        ELSE TagArchSuffix(u) \in {NoArch, ArchFromPlatform(pl)}
  BY DEF Passes
<1>2. /\ pl = "linux/amd64" => TagVariantTokens(u) \cap WindowsVariantTokens = {}
      /\ IsPrereleaseTag(u) => IsPrereleaseTag(current)
      /\ VariantsCompatible(TagVariantTokens(current), TagVariantTokens(u))
  BY DEF Passes, VariantsCompatible
<1>3. IsVersionTag(current) \/ NamedTagStream(current, repo) = NoStream
        \/ NamedTagStream(u, repo) = NamedTagStream(current, repo)
  BY DEF Passes, NamedTagStream
<1>4. IsVersionTag(current) =>
        /\ VersionStylesCompatible(current, u)
        /\ VersionStreamTokens(u) = VersionStreamTokens(current)
        /\ repo = "postgres" => Major(u) = Major(current)
  BY DEF Passes, VersionStylesCompatible
<1>5. repo # "linuxserver" \/ LinuxServerStream(current) = NoStream
        \/ LinuxServerStream(u) = LinuxServerStream(current)
  BY DEF Passes
<1> QED
  BY <1>1, <1>2, <1>3, <1>4, <1>5 DEF Passes

(* A tag that passes and has a version is of the same stream.               *)
LEMMA PassesSameStream ==
  ASSUME NEW current, NEW t, IsVersionTag(t), Passes(t, current, platform, repository)
  PROVE  SameStream(current, t)
BY DEF Passes, SameStream, VariantsCompatible, VersionStylesCompatible

(* Of the very stream of a version, a tag passes.                           *)
LEMMA StreamPasses ==
  ASSUME NEW current, NEW t, IsVersionTag(current), SameStream(current, t),
         VersionStreamTokens(t) = VersionStreamTokens(current),
         t.v /\ Len(current.nums) > 1 => Len(t.nums) > 1,
         platform = "linux/amd64" => "nanoserver" \notin TagVariantTokens(t),
         current \in Tag, t \in Tag
  PROVE  IsVersionTag(t) /\ Passes(t, current, platform, repository)
<1>1. current.v /\ Len(current.nums) >= 2 => Len(t.nums) >= 2
  <2>1. Len(current.nums) \in Nat /\ Len(t.nums) \in Nat /\ t.v = current.v
    BY DEF SameStream, Tag
  <2> QED BY <2>1
<1> QED BY <1>1 DEF SameStream, Passes, VariantsCompatible, VersionStylesCompatible,
                    WindowsVariantTokens

LEMMA SameStreamIsTransitive ==
  ASSUME NEW o, NEW t, NEW u, SameStream(o, t), SameStream(t, u)
  PROVE  SameStream(o, u)
<1>1. TagVariantTokens(o) \subseteq TagVariantTokens(u)
  BY DEF SameStream
<1>2. TagVariantTokens(o) = {} => TagVariantTokens(u) = {}
  BY DEF SameStream
<1> QED
  BY <1>1, <1>2 DEF SameStream

-----------------------------------------------------------------------------
(* The invariant: the workload runs a tag of its stream, and so would the   *)
(* hint, which beats the running version, whatever was published since.     *)

HintInv ==
  /\ TypeOK /\ IsFiniteSet(published)
  /\ SameStream(origin, running)
  /\ hint # None =>
       /\ SameStream(running, hint)
       /\ IsVersionTag(running) => SemverGreater(hint, running)

LEMMA InitHint == Init => HintInv
BY TagsAssumption, FS_Singleton DEF Init, HintInv, TypeOK, SameStream, VersionStylesCompatible

LEMMA NextHint == HintInv /\ [Next]_vars => HintInv'
<1> SUFFICES ASSUME HintInv, [Next]_vars PROVE HintInv'
  OBVIOUS
<1> USE DEF HintInv, TypeOK
<1>1. ASSUME NEW t \in Tags, Publish(t) PROVE HintInv'
  BY <1>1, FS_AddElement DEF Publish, place, SameStream
<1>2. ASSUME NEW t \in Tags, Remove(t) PROVE HintInv'
  BY <1>2, FS_RemoveElement DEF Remove, place, SameStream
<1>3. CASE Check
  <2>1. UNCHANGED <<published, origin, running, platform, repository>>
    BY <1>3 DEF Check, place
  <2>2. CASE hint' = None
    BY <2>1, <2>2 DEF SameStream
  <2>3. CASE hint' \in Hints
    <3>1. /\ hint' \in published /\ IsVersionTag(hint')
          /\ Passes(hint', running, platform, repository)
          /\ IsVersionTag(running) => SemverGreater(hint', running)
      BY <2>3, Selected DEF Hints
    <3>2. SameStream(running, hint')
      BY <3>1, PassesSameStream
    <3> QED
      BY <2>1, <3>1, <3>2 DEF SameStream
  <2> QED
    BY <1>3, <2>2, <2>3 DEF Check
<1>4. CASE Deploy
  <2>1. /\ running' = hint /\ hint' = None /\ hint \in Tags
        /\ UNCHANGED <<published, origin, platform, repository>>
    BY <1>4 DEF Deploy, place
  <2>2. SameStream(origin, hint)
    BY <1>4, SameStreamIsTransitive DEF Deploy
  <2> QED
    BY <2>1, <2>2 DEF SameStream
<1>5. CASE UNCHANGED vars
  BY <1>5 DEF vars, SameStream
<1> QED
  BY <1>1, <1>2, <1>3, <1>4, <1>5 DEF Next

(* Every variable keeps its type: hints are published tags, and tags that   *)
(* were published (LatestTagWithAuth).                                      *)
THEOREM TypeCorrect == Spec => []TypeOK
<1>1. HintInv => TypeOK
  BY DEF HintInv
<1> QED
  BY <1>1, InitHint, NextHint, PTL DEF Spec

(* Following hints never leads out of the stream of the first tag, for any  *)
(* tags and any number of hints (the filters of selectLatestSemverTag).     *)
THEOREM HintsStayInStream == Spec => []StaysInStream
<1>1. HintInv => StaysInStream
  BY DEF HintInv, StaysInStream
<1> QED
  BY <1>1, InitHint, NextHint, PTL DEF Spec

(* A hint never leads to a version that is not greater, however old it is   *)
(* (semverGreater at the end of selectLatestSemverTag).                     *)
THEOREM HintsNeverLeadBack == Spec => NeverBack
<1>1. HintInv /\ [Next]_vars =>
        [running' # running /\ IsVersionTag(running) => SemverGreater(running', running)]_vars
  BY DEF HintInv, Next, Publish, Remove, Check, Deploy, vars
<1> QED
  BY <1>1, InitHint, NextHint, PTL DEF Spec, NeverBack

(* Whoever follows a hint is not sent on by the next scan: the filters of   *)
(* the new tag let nothing in that the old ones kept out, and among what    *)
(* they let in nothing is greater.                                          *)
THEOREM HintsAreFinal == Spec => []HintIsFinal
<1>1. ASSUME HintInv PROVE HintIsFinal
  <2> SUFFICES ASSUME NEW t \in Hints,
                      NEW u \in SelectLatestSemverTag(published, t, platform, repository)
               PROVE  FALSE
    BY DEF HintIsFinal
  <2>1. /\ IsVersionTag(t) /\ Passes(t, running, platform, repository)
        /\ \A w \in published : IsVersionTag(w) /\ Passes(w, running, platform, repository) =>
             ~SemverGreater(w, t)
    BY Selected DEF Hints
  <2>2. /\ u \in published /\ IsVersionTag(u) /\ Passes(u, t, platform, repository)
        /\ IsVersionTag(t) => SemverGreater(u, t)
    BY Selected
  <2>3. Passes(u, running, platform, repository)
    BY <2>1, <2>2, PassesIsTransitive
  <2> QED
    BY <2>1, <2>2, <2>3
<1> QED
  BY <1>1, InitHint, NextHint, PTL DEF Spec
(* If there is a greater version of the very stream, there is a hint, and   *)
(* it is no smaller: the filters keep such a tag, and of finitely many tags *)
(* one is best (selectLatestSemverTag).                                     *)
THEOREM UpdatesFound == Spec => []NoUpdateMissed
<1>1. ASSUME HintInv PROVE NoUpdateMissed
  <2> SUFFICES ASSUME IsVersionTag(running), NEW t \in published,
                      SameStream(running, t), SemverGreater(t, running),
                      VersionStreamTokens(t) = VersionStreamTokens(running),
                      t.v /\ Len(running.nums) > 1 => Len(t.nums) > 1,
                      platform = "linux/amd64" => "nanoserver" \notin TagVariantTokens(t)
               PROVE  Hints # {} /\ \A h \in Hints : ~SemverGreater(t, h)
    BY DEF NoUpdateMissed
  <2> DEFINE S == {u \in published : IsVersionTag(u) /\ Passes(u, running, platform, repository)}
  <2>1. published \subseteq Tag /\ running \in Tag /\ IsFiniteSet(published)
    BY <1>1, TagsAssumption DEF HintInv, TypeOK
  <2>2. IsVersionTag(t) /\ Passes(t, running, platform, repository)
    BY <2>1, StreamPasses
  <2>3. PICK h \in S : \A u \in S : ~SemverGreater(u, h)
    <3>1. IsFiniteSet(S)
      BY <2>1, FS_Subset
    <3>2. S \in SUBSET Tag /\ S # {}
      BY <2>1, <2>2
    <3> HIDE DEF S
    <3> QED BY <3>1, <3>2, SomeBest
  <2>4. SemverGreater(h, running) /\ h # running
    <3>1. h \in Tag /\ ~SemverGreater(t, h)
      BY <2>1, <2>2, <2>3
    <3> QED BY <2>1, <3>1, GreaterIsTotal, GreaterIsIrreflexive
  <2>5. h \in Hints
    BY <2>3, <2>4, CompatibleIffPasses DEF Hints, SelectLatestSemverTag, BestSemver
  <2>6. \A g \in Hints : ~SemverGreater(t, g)
    BY <2>2, Selected DEF Hints
  <2> QED BY <2>5, <2>6
<1> QED
  BY <1>1, InitHint, NextHint, PTL DEF Spec
===============================================================================
