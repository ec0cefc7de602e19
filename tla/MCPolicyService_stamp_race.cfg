SPECIFICATION Spec
CONSTANTS
  Loader = {l1}
  Request = {r1}
  File = {f1, f2}
  Content = {good, bad}
  Absent = absent
  Broken = {bad}
  Version = {1, 2}
  Key = {ours, theirs}
  Pub = ours
  None = none
  MaxEdits = 2
SYMMETRY Symmetry
INVARIANT StampIsTrue
