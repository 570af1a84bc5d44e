SPECIFICATION Spec
CONSTANTS
  e1 = e1  e2 = e2  e3 = e3  c1 = c1  c2 = c2  s1 = s1  s2 = s2
  a1 = a1  a2 = a2  a3 = a3
  Entries = {e1, e2}
  Cats = {c1, c2}
  Steers = {s1, s2}
  Attempts = {a1, a2}
  TargetsOf <- MCTargetsOf
  Rank <- MCRank
  MaxBatch = 5
  External = External
  None = None
  SlowWrites = FALSE
  Stops = {}
SYMMETRY AttemptSymmetry
INVARIANTS EntryRunByOne
PROPERTIES ReservedFence
CHECK_DEADLOCK FALSE
