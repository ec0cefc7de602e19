SPECIFICATION Spec
CONSTANTS
  Proc = {p1}
  Body = {b1}
  Garbage = Garbage
  Long = {}
  NoProc = NoProc
  Faults = {"open", "crash", "powerloss"}
  MaxLines = 2
  Probe = {q1, q2}
INVARIANTS OkMeansDurable
PROPERTY ImplementsStore
PROPERTY QueueDrains
