SPECIFICATION FairSpec
CONSTANTS
  Backend = {A, B}
  Page = {p, q, r}
  NoPage = NoPage
  MinFrames = 1
  MaxFrames = 2
  MaxUsage = 1
  MaxPins = 1
PROPERTY ReadEnds
