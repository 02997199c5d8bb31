CONSTANTS
  self = self
  app = app
  db = db
  job = job
  bare = bare
  old = old
  new = new
  None = None
  Pods = {1, 2, 3}
  SelfPod = 1
  Self = self
  Workloads <- MCWorkloads
  Kind <- MCKind
  Helm <- MCHelm
  Release <- MCRelease
  Registry <- MCRegistry
  Images = {old, new}
  Slots <- MCSlots
  Revisions <- MCRevisions
  FirstRevision <- MCFirstRevision
  SkipCompleted = TRUE
  Internal = {}
  MaxChanges = 1
  MaxPushes = 1
  MaxFaults = 1
SPECIFICATION Spec
INVARIANTS TypeOK UpToDateIsRun FalseUpdatesOnlyInRollouts OutdatedIsReported HelmUpdatesHidden PagesAgree OwnRolloutUnseen
