SPECIFICATION FairSpec
CONSTANTS
  Call = {c1, c2}
  Garbage = Garbage
  NoProc = NoProc
  Faults = {"open", "torn", "sync", "crash", "powerloss"}
  MaxLines = 4
INVARIANTS SentIsOnFile FileTellsOneStory
PROPERTY CallsAreAnswered
CHECK_DEADLOCK FALSE
