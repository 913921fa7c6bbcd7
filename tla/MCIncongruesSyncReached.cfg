SPECIFICATION Spec
CONSTANTS
  Users = {u1, u2}
  Pseudos = {p1}
  Discussions = {d1}
  Refs = {r1}
  Mixes = {m1}
  Passes = {k1}
  None = None
SYMMETRY Symetrie
INVARIANT EveryAccountIsReached
CHECK_DEADLOCK FALSE
