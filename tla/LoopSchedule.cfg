SPECIFICATION Spec
CONSTANTS
  Interval <- MCQuick
  Wrap = 8
  MaxPass = 2
  MaxRead = 1
  MaxPush = 1
  MaxQueue = 1
  Bytes <- MCBytes
INVARIANTS
  FramesUnderstood
PROPERTIES
  TimersExact
  QueueDrains
