CONSTANTS
  n1 = n1  n2 = n2  n3 = n3  app = app  db = db
  Namespaces = {n1, n2, n3}
  Names = {app, db}
  Upgraded <- MCUpgraded
  Others <- MCOthers
  Options <- MCOptions
  Versions <- MCVersions
  FirstVersion <- MCFirstVersion
  Repos = 2
  FirstRevision = 8
  MaxRevision = 10
  MaxHistory = 1
  MaxEntries = 2
  MaxFaults = 1
  None = None
SPECIFICATION Spec
INVARIANTS TypeOK ShownIsCurrent NoReleaseLost ChartUpdateIsReal NoChartMissed
