SPECIFICATION FairRunSpec
CONSTANTS
  f1 = f1
  f2 = f2
  NoAge = NoAge
  Absent = Absent
  Malformed = Malformed
  NoKey = NoKey
  Pairs <- Two
  Ttl = 0
  IdBase = 9
  Needs = {2}
  Asks <- Mixed
  Keys <- MCKeys
  Writers = {f1, f2}
  Readers = {f1, f2}
  Sweepers = {}
  Ages = {0}
  MaxBytes = 0
  Lengths = {0}
  MaxVersion = 2
  MaxTime = 1
  Faults = {"io"}
  Leftovers = {"nothing"}
INVARIANTS RunTypeOK IdsDisjoint SameBodiesSameIds PolicyKept WholeDownloads
PROPERTY FetchReturns
