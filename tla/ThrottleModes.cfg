SPECIFICATION ThrottleSpec
CONSTANTS
  MainMax = 7
  MainMin = 7
  MainStart = 6
  MainWrap = 16
  LineMax = 5
  LineMinAuto = 0
  PerNotch = 100
  CarCounts = {12}
  TopNotch = 2
  StartupLoops = 1
  PrimeTime = 1
  MuStates = {"solo", "trailing"}
  LeadSpeeds = {0, 3}
  Topics = {"startstop", "notch", "ibrake", "tbrake", "stop", "trainline"}
INVARIANTS
  CompressorNeedsPM
  ModeTellsTruth
PROPERTIES
  TrainlineRecovers
