CONSTANTS
  LoopScans = {l}
  ManualScans = {m}
  None = None
  MaxChanges = 1
  MaxFaults = 1
SPECIFICATION Spec
INVARIANT TypeOK
PROPERTIES IndicatorRests SeenScanIsLoaded
