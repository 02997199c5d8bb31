CONSTANTS
  LoopScans = {l}
  ManualScans = {}
  None = None
  MaxChanges = 0
  MaxFaults = 0
SPECIFICATION Spec
PROPERTY PageCatchesUp
