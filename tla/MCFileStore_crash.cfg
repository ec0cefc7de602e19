SPECIFICATION Spec
CONSTANTS
  Proc = {p1, p2}
  Body = {b1, b2, b3}
  Garbage = Garbage
  Long = {b3}
  NoProc = NoProc
  Faults = {"open", "crash", "powerloss"}
  MaxLines = 3
INVARIANTS ChainIntact AckedDurable RestartContinues
PROPERTY ImplementsTrail
CHECK_DEADLOCK FALSE
