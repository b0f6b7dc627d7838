SPECIFICATION Spec
CONSTANTS
  c1 = c1
  c2 = c2
  w1 = w1
  w2 = w2
  Cores = {c1, c2}
  Workers = {w1, w2}
  Builds = {FALSE}
  Addrs <- MCAddrs
  RangeOf <- MCRangeOf
  EntriesOf <- MCEntriesOf
  MayFail <- None
  ArenaSize = 5
  CodeWrites <- MCWrites
  MaxWrites = 2
  Titles = 1
INVARIANTS NoStaleCode
CHECK_DEADLOCK FALSE
