SPECIFICATION Spec
CONSTANTS
  Proc = {p1, p2}
  Body = {b1, b2}
  Garbage = Garbage
  Long = {}
  NoProc = NoProc
  Faults = {"torn"}
  MaxLines = 3
INVARIANT AckedDurable
