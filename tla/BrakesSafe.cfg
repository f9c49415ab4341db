SPECIFICATION BrakesSpec
CONSTANTS
  MainMax = 14
  MainMin = 12
  MainStart = 10
  MainWrap = 24
  LineMax = 9
  LineMinAuto = 4
  PerNotch = 40
  CarCounts = {0, 12}
INVARIANTS
  TrainEffortCoversLever
PROPERTIES
  GaugeKept
