SPECIFICATION FairSpec
CONSTANTS
  k1 = k1
  k2 = k2
  w1 = w1
  w2 = w2
  r1 = r1
  s1 = s1
  s2 = s2
  NoAge = NoAge
  Absent = Absent
  Malformed = Malformed
  NoKey = NoKey
  Keys = {k1, k2}
  Writers = {w1}
  Readers = {}
  Sweepers = {s1}
  Ages = {NoAge, 0}
  MaxBytes = 0
  Lengths = {0, 1}
  MaxVersion = 1
  MaxTime = 1
  Faults = {"io"}
  Leftovers = {"nothing", "paired", "malformedPair", "dataOnly"}
INVARIANTS TempsAreOwned ClearEmpties
PROPERTIES ClearSparesFresh EveryOperationReturns
