SPECIFICATION InstancesSpec
CONSTANTS
  Deux = {v1, v2}
  Un = {v3}
  Pseudos = {v1, v2, v3}
  Discussions = {v1, v2, v3}
  Users = {u1}
  Refs = {r1}
  Mixes = {m1, m2}
  UnMix = {m1}
  Passes = {k1, k2}
  None = None
SYMMETRY Symetrie
INVARIANTS
  OnlyOwnDiscussions
  OneCopyPerAccount
CHECK_DEADLOCK FALSE
