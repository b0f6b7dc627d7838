SPECIFICATION FairSpec
CONSTANTS
  c1 = c1
  c2 = c2
  w1 = w1
  w2 = w2
  Cores = {c1, c2}
  Workers = {w1}
  Builds = {FALSE, TRUE}
  Addrs <- TwoAddrs
  RangeOf <- TwoRangeOf
  EntriesOf <- TwoEntriesOf
  MayFail <- None
  ArenaSize = 3
  CodeWrites <- TwoWrites
  MaxWrites = 2
  Titles = 1
CHECK_DEADLOCK FALSE
INVARIANTS
    NoStaleCode
    CodeIsRegistered
PROPERTIES
    VisitedIsDecided
