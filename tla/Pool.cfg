CONSTANTS
  r1 = r1  r2 = r2  r3 = r3  r4 = r4  r5 = r5  r6 = r6
  internal = internal  hub = hub  pinned = pinned
  arm = arm  amd = amd  index = index  plain = plain  foreign = foreign
  Recs = {r1, r2, r3, r4, r5, r6}
  Jobs = {internal, hub, pinned}
  JobOf <- MCJobOf
  CtxDone = CtxDone
  Digests = {arm, amd, index, plain, foreign}
  RunningDigest <- MCRunningDigest
  TagKind <- MCTagKind
  MaxWorkers = 2
  None = None
  Hosts <- MCHosts
  Image <- MCImage
  VersionTags = {"1.2", "1.0"}
  Contents <- MCContents
  RegistryAt <- MCRegistryAt
  StartTags <- MCStartTags
  RouteAnswers <- MCRouteAnswers
  DockerConfig <- MCDockerConfig
  Token = Token
  Pushed = {plain}
  MaxPushes = 1
SPECIFICATION FairLookups
INVARIANTS LookupsTypeOK SettledByTable JudgedByItsImage FalseUpdatesExplained CredentialsOfHost
PROPERTIES KeepsContract PoolReturns
