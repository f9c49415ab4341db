SPECIFICATION FairSpec
CONSTANTS
  MaxRegs = 2
  MaxLen = 2
  BitWrap = 4
  ThrottleLens <- MCThrottleLens
  FunctionLens <- MCFunctionLens
  CvLens <- MCCvLens
  Blank = Blank
  Repeats = 1
  Payloads = {p1}
  WebTasks = {web}
INVARIANTS
  CurrentRegLoaded

  
