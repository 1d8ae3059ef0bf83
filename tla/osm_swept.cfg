SPECIFICATION FairFetchSpec
CONSTANTS
  c1 = c1
  c2 = c2
  s1 = s1
  NoAge = NoAge
  Absent = Absent
  Malformed = Malformed
  NoKey = NoKey
  Wishes <- Same
  Grain = 4
  Canon <- MCCanon
  Approved <- MCApproved
  Keys <- MCKeys
  Writers = {c1, c2}
  Readers = {}
  Sweepers = {s1}
  Ages = {NoAge}
  MaxBytes = 0
  Lengths = {0}
  MaxVersion = 1
  MaxTime = 0
  Faults = {"io", "crash"}
  Leftovers = {"nothing"}
PROPERTIES FetchReturns
