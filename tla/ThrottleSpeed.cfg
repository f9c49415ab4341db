SPECIFICATION ThrottleSpec
CONSTANTS
  MainMax = 7
  MainMin = 7
  MainStart = 6
  MainWrap = 16
  LineMax = 5
  LineMinAuto = 0
  PerNotch = 100
  CarCounts = {0}
  TopNotch = 2
  StartupLoops = 0
  PrimeTime = 1
  MuStates = {"solo"}
  LeadSpeeds = {0}
  Topics = {"startstop", "notch", "longpress", "reverser", "calibrate"}
PROPERTIES
  QuietOnlyWhenInStep
  ReversesThroughZero
  NotchDownEnds
