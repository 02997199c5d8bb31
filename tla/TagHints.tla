------------------------------- MODULE TagHints -------------------------------
(* One workload and the tags of its repository over time: tags are published *)
(* and removed, scans ask for the newest compatible tag (LatestTagWithAuth,  *)
(* backend/internal/registry/checker.go), and somebody deploys the tag the   *)
(* record of the workload names, which may be an answer of long ago.         *)
EXTENDS TagSelect, FiniteSets

CONSTANTS Tags,          \* tags that may be published
          MaxPublished,  \* bound: tags in the repository at one time
          None           \* no hint

ASSUME TagsAssumption == Tags \subseteq Tag /\ None \notin Tags
ASSUME MaxPublishedAssumption == MaxPublished \in Nat

VARIABLES published,             \* the tags of the repository
          origin,                \* the tag first deployed
          running,               \* the tag of the workload now
          hint,                  \* LatestTag of its record
          platform, repository   \* of the image, for good

vars == <<published, origin, running, hint, platform, repository>>
place == <<platform, repository>>

TypeOK ==
  /\ published \subseteq Tags
  /\ origin \in Tags /\ running \in Tags
  /\ hint \in Tags \cup {None}
  /\ platform \in Platforms /\ repository \in Repositories

Init ==
  /\ origin \in Tags /\ running = origin
  /\ published = {origin}
  /\ hint = None
  /\ platform \in Platforms /\ repository \in Repositories

Publish(t) ==
  /\ t \notin published /\ Cardinality(published) < MaxPublished
  /\ published' = published \cup {t}
  /\ UNCHANGED <<origin, running, hint, place>>

Remove(t) ==
  /\ t \in published
  /\ published' = published \ {t}
  /\ UNCHANGED <<origin, running, hint, place>>

Hints == SelectLatestSemverTag(published, running, platform, repository)

(* Mutant: the tag is put together again from its numbers and tokens.       *)
CheckRebuilt ==
  /\ running \in published
  /\ \/ hint' \in {[t EXCEPT !.v = FALSE] : t \in Hints}
     \/ hint' = None
  /\ UNCHANGED <<published, origin, running, place>>

(* A scan that resolved the running tag.  Listing the tags may fail, and a  *)
(* tag without a version is looked after only when its digest moved on.     *)
Check ==
  /\ running \in published
  /\ \/ hint' \in Hints
     \/ hint' = None
  /\ UNCHANGED <<published, origin, running, place>>

(* Whoever runs the cluster deploys the hint; the record of the new tag     *)
(* starts without one.                                                      *)
Deploy ==
  /\ hint # None
  /\ running' = hint
  /\ hint' = None
  /\ UNCHANGED <<published, origin, place>>

Next ==
  \/ \E t \in Tags : Publish(t) \/ Remove(t)
  \/ Check
  \/ Deploy

Spec == Init /\ [][Next]_vars

-----------------------------------------------------------------------------
(* Properties.                                                              *)

(* What a hint for tag o may be: the guardrails of Development.md for       *)
(* architectures, distribution variants, prereleases, v-prefixed versions,  *)
(* PostgreSQL majors and LinuxServer streams.                               *)
SameStream(o, t) ==
  /\ IF TagArchSuffix(o) # NoArch THEN TagArchSuffix(t) = TagArchSuffix(o)
                                  ELSE TagArchSuffix(t) \in {NoArch, ArchFromPlatform(platform)}
  /\ IsPrereleaseTag(t) => IsPrereleaseTag(o)
  /\ TagVariantTokens(o) \subseteq TagVariantTokens(t)
  /\ TagVariantTokens(o) = {} => TagVariantTokens(t) = {}
  /\ IsVersionTag(o) => IsVersionTag(t) /\ t.v = o.v
  /\ repository = "postgres" /\ IsVersionTag(o) => Major(t) = Major(o)
  /\ repository = "linuxserver" /\ LinuxServerStream(o) # NoStream =>
       LinuxServerStream(t) = LinuxServerStream(o)

(* Following hints never leads away: after any number of them, with tags    *)
(* coming and going in between, the workload still runs a tag of the stream *)
(* it was first deployed from (the filters of selectLatestSemverTag).       *)
StaysInStream == SameStream(origin, running)

(* Following a hint never leads back, however old the hint is and whatever  *)
(* tags were removed since: from a version on, only to a greater one.       *)
NeverBack ==
  [][running' # running /\ IsVersionTag(running) => SemverGreater(running', running)]_vars

(* A hint is final: whoever follows it is not sent on by the next scan, in  *)
(* particular not between tags that write the same version differently.     *)
HintIsFinal ==
  \A t \in Hints : SelectLatestSemverTag(published, t, platform, repository) = {}

(* No update is missed: if a greater version of the very stream of the      *)
(* running version is there, there is a hint, and none of them is greater   *)
(* than it.  "Of the very stream" also asks for the variants in the same    *)
(* order and, of v-prefixed versions, no fewer than two numbers where the   *)
(* running one has them.                                                    *)
NoUpdateMissed ==
  IsVersionTag(running) =>
    \A t \in published :
      /\ SameStream(running, t) /\ SemverGreater(t, running)
      /\ VersionStreamTokens(t) = VersionStreamTokens(running)
      /\ t.v /\ Len(running.nums) > 1 => Len(t.nums) > 1
      /\ platform = "linux/amd64" => "nanoserver" \notin TagVariantTokens(t)
      => Hints # {} /\ \A h \in Hints : ~SemverGreater(t, h)

(* "LinuxServer stream jumps are intentionally not suggested as normal      *)
(* updates": no hint for a version is of another stream than the running    *)
(* tag.  The code does not keep to this for versions without a stream word: *)
(* develop and nightly builds of a greater version are suggested for them.  *)
NoStreamJump ==
  repository = "linuxserver" /\ IsVersionTag(running) /\ hint # None =>
    LinuxServerStream(hint) = LinuxServerStream(running)
=============================================================================
