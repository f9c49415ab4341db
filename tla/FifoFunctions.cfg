SPECIFICATION FifoSpec
CONSTANTS
  Functions <- MCFunctions
  Fn <- MCFn
  Levers = {"ibrake"}
  Sounds = {"horn"}
  Pulses = {"notchUp"}
  AppFunctions = {0, 29}
  MuStates = {"solo", "trailing"}
  MaxQueue = 3
INVARIANTS
  FifoTypeOK
  DecoderFollows
  BrightLampReported
PROPERTIES
  NotchReleased
