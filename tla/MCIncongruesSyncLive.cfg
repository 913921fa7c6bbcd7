SPECIFICATION FairSpec
CONSTANTS
  Users = {u1}
  Pseudos = {p1}
  Discussions = {d1}
  Refs = {r1}
  Mixes = {m1}
  Passes = {k1, k2}
  None = None
PROPERTIES
  EveryPassEnds
  NetCatches
CHECK_DEADLOCK FALSE
