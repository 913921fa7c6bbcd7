SPECIFICATION Spec
CONSTANTS
  Users = {u1}
  Pseudos = {p1}
  Discussions = {d1}
  Refs = {r1}
  Mixes = {m1, m2}
  Passes = {k1}
  None = None
SYMMETRY Symetrie
INVARIANT FindBySourceGuarantees
CHECK_DEADLOCK FALSE
