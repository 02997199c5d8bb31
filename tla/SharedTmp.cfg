CONSTANTS
  a = a  b = b  n1 = n1  n2 = n2  web = web  m1 = m1
  Ids = {a, b}
  Images = {m1}
  CtxDone = CtxDone
  None = None
  Loop = Loop
  Manual = {p}
  Namespaces = {n1, n2}
  Workloads = {web}
  Containers = {a, b}
  NsOf <- MCNsOf
  WorkloadOf <- MCWorkloadOf
  RSName <- MCRSName
  SelfIds = {}
  StartSettings <- MCStartSettings
  SettingsValues = {}
  Requests <- MCRequests
  Persisted <- MCPersisted
  Deployed <- AnyDeployed
  MaxChanges = 0
  MaxFaults = 0
  Savers = {Loop, p}
  Inodes = {f1, f2, f3, f4}
  LineLen <- MCLineLen
  MaxLine = 2
SPECIFICATION ServerSpec
INVARIANT SaveIsAtomic
