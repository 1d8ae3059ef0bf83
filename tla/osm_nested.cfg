SPECIFICATION FetchSpec
CONSTANTS
  c1 = c1
  c2 = c2
  s1 = s1
  NoAge = NoAge
  Absent = Absent
  Malformed = Malformed
  NoKey = NoKey
  Wishes <- Nested
  Grain = 4
  Canon <- MCCanon
  Approved <- MCApproved
  Keys <- MCKeys
  Writers = {c1, c2}
  Readers = {}
  Sweepers = {}
  Ages = {NoAge}
  MaxBytes = 0
  Lengths = {0, 1}
  MaxVersion = 2
  MaxTime = 1
  Faults = {}
  Leftovers = {"nothing"}
SYMMETRY Clients
INVARIANTS FetchTypeOK AnswerCovers 
