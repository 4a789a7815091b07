SPECIFICATION MCFairSpec
CONSTANTS
  k1 = k1
  k2 = k2
  j1 = j1
  j2 = j2
  j3 = j3
  j4 = j4
  j5 = j5
  None = None
  Keys = {k1, k2}
  Jobs = {j1, j2, j3, j4, j5}
  KeyOf <- MCKeyOf
  MaxCancellations = 2
INVARIANTS
  IdleKeysAreForgotten
  TypeOK
  SerialPerKey
  NoOrphanQueue
PROPERTIES
  EveryJobFinishes
  ImplementsPromise
