SPECIFICATION Spec
CONSTANTS
  Backend = {A, B}
  Page = {p, q, r}
  NoPage = NoPage
  MinFrames = 2
  MaxFrames = 2
  MaxUsage = 1
  MaxPins = 1
PROPERTY DirtyIsWritten
