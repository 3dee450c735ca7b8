SPECIFICATION Spec
CONSTANTS
  N = 2
  Slot = {a, b, c}
  Nil = Nil
  ListLen = 1
  Threshold = 2
  Schemes = {"ebr", "rcu"}
PROPERTY AllFreed
