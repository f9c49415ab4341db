SPECIFICATION Spec
CONSTANTS
  Cabs = {127, 128, 10239}
  Speeds = {0, 1, 126}
  Fns = {0, 4, 5, 12, 13, 28}
  Cvs = {1, 257, 1024}
  CvValues = {255}
  CvBits = {0, 7}
  MaxPackets = 2
INVARIANTS
  DecoderObeys
  FramesFound
