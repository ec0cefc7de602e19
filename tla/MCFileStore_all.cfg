SPECIFICATION Spec
CONSTANTS
  Proc = {p1, p2}
  Body = {b1, b2}
  Garbage = Garbage
  Long = {b2}
  NoProc = NoProc
  Faults = {"open", "torn", "sync", "crash", "powerloss"}
  MaxLines = 4
INVARIANT VerifiedFileIsComplete
CHECK_DEADLOCK FALSE
