SPECIFICATION FairSpec
CONSTANTS
  Backend = {A, B}
  Page = {p, q, r}
  NoPage = NoPage
  MinFrames = 1
  MaxFrames = 2
  MaxUsage = 1
  MaxPins = 2
INVARIANTS TypeOK OneFramePerPage PinsCounted PinContract SweepCorrect
PROPERTY WaitEnds
