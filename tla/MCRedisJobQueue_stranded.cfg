SPECIFICATION MCSpec
CONSTANTS
  k1 = k1
  k2 = k2
  j1 = j1
  j2 = j2
  j3 = j3
  j4 = j4
  None = None
  Keys = {k1, k2}
  Jobs = {j1, j2}
  KeyOf <- MCKeyOf
  Unreadable = {}
  MaxErrors = 0
  MaxRestarts = 0
INVARIANTS
  NoStrandedJob
