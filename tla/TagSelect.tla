------------------------------ MODULE TagSelect -------------------------------
(* Which tag of a repository is the newest one compatible with the tag a     *)
(* workload runs: selectLatestSemverTag and its filters                      *)
(* (backend/internal/registry/checker.go).                                   *)
(*                                                                           *)
(* A tag is what the regular expressions of the code take it apart into:     *)
(* the numbers of the version it starts with (none, or up to three), whether *)
(* a "v" precedes them, the tokens behind them in order, and whether the     *)
(* first token is glued to the last number ("3.15rc1") or set off by a       *)
(* separator.  A token is one of the words below: "alpine" stands for every  *)
(* token with that prefix, "rc1" for a, b or rc with a number, "7" for a     *)
(* number and "ls" for any other word.                                       *)
EXTENDS Integers, Sequences

KnownArchSuffixes == {"amd64", "arm64"}
KnownVariantTokens == {"alpine", "slim", "nanoserver"}
WindowsVariantTokens == {"nanoserver"}
PrereleaseWords == {"alpha", "beta", "rc", "rc1"}
StreamWords == {"latest", "stable", "develop", "nightly", "edge"}
Tokens == KnownArchSuffixes \cup KnownVariantTokens \cup PrereleaseWords
            \cup StreamWords \cup {"7", "ls"}

Tag == [nums : Seq(Nat), v : BOOLEAN, glued : BOOLEAN, tokens : Seq(Tokens)]
Platforms == {"linux/amd64", "multi-arch"}
Repositories == {"linuxserver", "postgres", "other"}

NoArch == "none"
NoStream == <<>>

-----------------------------------------------------------------------------
(* What the code reads off a tag.                                           *)

IsVersionTag(t) == t.nums # <<>>
Number(t, k) == IF k <= Len(t.nums) THEN t.nums[k] ELSE 0
Major(t) == Number(t, 1)

SemverGreater(a, b) ==
  \/ Major(a) > Major(b)
  \/ Major(a) = Major(b) /\ Number(a, 2) > Number(b, 2)
  \/ Major(a) = Major(b) /\ Number(a, 2) = Number(b, 2) /\ Number(a, 3) > Number(b, 3)

Words(s) == {s[k] : k \in DOMAIN s}

(* Some word stands alone at the end, behind a separator.                   *)
EndsIn(t, words) ==
  /\ t.tokens # <<>> /\ t.tokens[Len(t.tokens)] \in words
  /\ Len(t.tokens) > 1 \/ (IsVersionTag(t) /\ ~t.glued)

TagArchSuffix(t) ==
  IF EndsIn(t, KnownArchSuffixes) THEN t.tokens[Len(t.tokens)] ELSE NoArch

ArchFromPlatform(platform) == IF platform = "linux/amd64" THEN "amd64" ELSE NoArch

(* A glued word is one token with the number before it.                     *)
TagVariantTokens(t) ==
  Words(IF t.glued THEN Tail(t.tokens) ELSE t.tokens) \cap KnownVariantTokens

IsPrereleaseTag(t) ==
  /\ IsVersionTag(t) /\ t.tokens # <<>>
  /\ t.glued \/ Words(t.tokens) \cap PrereleaseWords # {}

VersionStreamTokens(t) ==
  IF IsVersionTag(t) THEN SelectSeq(t.tokens, LAMBDA w : w \in KnownVariantTokens) ELSE <<>>

LinuxServerStream(t) ==
  CASE EndsIn(t, {"latest"}) \/ (~IsVersionTag(t) /\ t.tokens = <<"latest">>) -> <<"latest">>
    [] "develop" \in Words(t.tokens) -> <<"develop">>
    [] "nightly" \in Words(t.tokens) -> <<"nightly">>
    [] OTHER -> NoStream

NamedTagStream(t, repository) ==
  IF repository = "linuxserver" THEN LinuxServerStream(t)
  ELSE IF ~IsVersionTag(t) /\ t.tokens # <<>> /\ t.tokens[1] \in StreamWords
    THEN SelectSeq(t.tokens, LAMBDA w : w \notin {"7", "rc1"})
  ELSE NoStream

-----------------------------------------------------------------------------
(* The filters, in the order of the code.  Those that look at versions let  *)
(* tags without one pass: the choice among the rest ignores them.           *)

FilterByArch(tags, current, archHint) ==
  {t \in tags : IF TagArchSuffix(current) # NoArch
                  THEN TagArchSuffix(t) = TagArchSuffix(current)
                  ELSE TagArchSuffix(t) \in {NoArch, archHint}}

(* Mutant: a candidate with more variants than the current tag will do.     *)
VariantsIncluded(current, candidate) == current \subseteq candidate

VariantsCompatible(current, candidate) ==
  IF current = {} THEN candidate = {} ELSE current \subseteq candidate

FilterByTagCompatibility(tags, current, platform) ==
  {t \in tags :
     /\ platform = "linux/amd64" => TagVariantTokens(t) \cap WindowsVariantTokens = {}
     /\ IsPrereleaseTag(t) => IsPrereleaseTag(current)
     /\ VariantsCompatible(TagVariantTokens(current), TagVariantTokens(t))}

FilterByNamedStreamCompatibility(tags, current, repository) ==
  LET stream == NamedTagStream(current, repository)
  IN IF IsVersionTag(current) \/ stream = NoStream THEN tags
     ELSE {t \in tags : NamedTagStream(t, repository) = stream}

(* Mutant: no distinction between v-prefixed and other tags.                *)
DottedStylesCompatible(current, candidate) ==
  Len(current.nums) >= 2 => Len(candidate.nums) >= 2

VersionStylesCompatible(current, candidate) ==
  /\ current.v = candidate.v
  /\ current.v /\ Len(current.nums) >= 2 => Len(candidate.nums) >= 2

FilterByVersionStyle(tags, current) ==
  {t \in tags : IsVersionTag(current) /\ IsVersionTag(t) => VersionStylesCompatible(current, t)}

FilterByVersionStreamCompatibility(tags, current) ==
  {t \in tags : IsVersionTag(current) /\ IsVersionTag(t) =>
                  VersionStreamTokens(t) = VersionStreamTokens(current)}

FilterByStreamCompatibility(tags, current, repository) ==
  LET stream == LinuxServerStream(current)
  IN IF repository # "linuxserver" \/ stream = NoStream THEN tags
     ELSE {t \in tags : LinuxServerStream(t) = stream}

FilterByMajorCompatibility(tags, current, repository) ==
  {t \in tags : repository = "postgres" /\ IsVersionTag(current) /\ IsVersionTag(t) =>
                  Major(t) = Major(current)}

Compatible(tags, current, platform, repository) ==
  LET byArch == FilterByArch(tags, current, ArchFromPlatform(platform))
      byTag == FilterByTagCompatibility(byArch, current, platform)
      byName == FilterByNamedStreamCompatibility(byTag, current, repository)
      byStyle == FilterByVersionStyle(byName, current)
      byVersionStream == FilterByVersionStreamCompatibility(byStyle, current)
      byStream == FilterByStreamCompatibility(byVersionStream, current, repository)
  IN FilterByMajorCompatibility(byStream, current, repository)

(* sort.Slice is not stable and looks at three numbers only: of tags with   *)
(* the same numbers any may come first.                                     *)
BestSemver(tags) ==
  {t \in tags : IsVersionTag(t) /\ \A u \in tags : IsVersionTag(u) => ~SemverGreater(u, t)}

(* Mutant: whatever is best and not the current tag itself.                 *)
SelectBestTag(tags, current, platform, repository) ==
  BestSemver(Compatible(tags, current, platform, repository)) \ {current}

(* The tags the code may return, none when it returns "".                   *)
SelectLatestSemverTag(tags, current, platform, repository) ==
  {t \in BestSemver(Compatible(tags, current, platform, repository)) :
     t # current /\ (IsVersionTag(current) => SemverGreater(t, current))}
=============================================================================
