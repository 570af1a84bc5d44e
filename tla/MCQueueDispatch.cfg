SPECIFICATION Spec
CONSTANTS
  e1 = e1  e2 = e2  e3 = e3  c1 = c1  c2 = c2  s1 = s1  s2 = s2
  a1 = a1  a2 = a2  a3 = a3
  Entries = {e1, e2, e3}
  Cats = {c1, c2}
  Steers = {s1}
  Attempts = {a1, a2}
  TargetsOf <- MCTargetsOf
  Rank <- MCRank
  MaxBatch = 5
  External = External
  None = None
  SlowWrites = FALSE
  Stops = {c1}
SYMMETRY TwinSymmetry
CONSTRAINT Bounded
INVARIANTS TypeOK EntryRunByOne SlotIsLive
PROPERTIES ReservedFence TurnKeepsSlot
CHECK_DEADLOCK FALSE
