SPECIFICATION Spec
CONSTANTS
  k1 = k1
  k2 = k2
  w1 = w1
  w2 = w2
  r1 = r1
  s1 = s1
  s2 = s2
  NoAge = NoAge
  Absent = Absent
  Malformed = Malformed
  NoKey = NoKey
  Keys = {k1}
  Writers = {w1}
  Readers = {}
  Sweepers = {}
  Ages = {NoAge}
  MaxBytes = 1
  Lengths = {1}
  MaxVersion = 2
  MaxTime = 1
  Faults = {"crash"}
  Leftovers = {"nothing"}
INVARIANT AbandonedCommitIsAMiss
CHECK_DEADLOCK FALSE
