SPECIFICATION MCSpec
CONSTANTS
  k1 = k1
  k2 = k2
  c1 = c1
  c2 = c2
  j1 = j1
  j2 = j2
  j3 = j3
  None = None
  Keys = {k1, k2}
  Channels = {c1, c2}
  Jobs = {j1, j2}
  KeyOf <- MCKeyOf
  ChannelOf <- MCChannelOf
  Unreadable = {}
  MaxErrors = 0
  MaxRestarts = 1
  BackoffLimit = 0
  MaxCuts = 0
INVARIANTS
  OnePodPerPR
