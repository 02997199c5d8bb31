CONSTANTS
  a = a  aRS = aRS  b = b  n1 = n1  n2 = n2  web = web  webRS = webRS  m1 = m1
  Ids <- MCIds
  Images = {m1}
  CtxDone = CtxDone
  None = None
  Loop = Loop
  Manual = {p}
  Namespaces = {n1, n2}
  Workloads = {web, webRS}
  Containers = {a}
  NsOf <- MCNsOf
  WorkloadOf <- MCWorkloadOf
  RSName <- OnlyARSName
  SelfIds = {a}
  StartSettings <- MCStartSettings
  SettingsValues <- MCSettingsValues
  Requests <- MCRequests
  Persisted <- MCPersisted
  Deployed <- AnyDeployed
  MaxChanges = 1
  MaxFaults = 1
SPECIFICATION FairSpec
PROPERTIES FlagClears AcceptedScanEnds Converges ScopedPublishLocal
INVARIANTS TypeOK QuiescentNotScanning
CHECK_DEADLOCK FALSE
