CONSTANTS
  n1 = n1  sys = sys
  Tabs = {t1, t2}
  Namespaces = {n1, sys}
  Unset = Unset
  Junk = Junk
  Blank = Blank
  SystemNamespaces = {sys}
  Environments <- MCEnvironments
  Edits <- MCEdits
  None = None
  MaxPending = 2
  MaxRequests = 5
  MaxFaults = 1
SPECIFICATION Spec
INVARIANTS TypeOK OptionsFollowSettings NothingLost
SYMMETRY Symmetry
CHECK_DEADLOCK FALSE
