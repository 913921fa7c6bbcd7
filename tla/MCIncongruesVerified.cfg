SPECIFICATION Spec
CONSTANTS
  Users = {u1, u2}
  Pseudos = {p1, p2}
  Jetons = {j1, j2}
  Requests = {r1}
  None = None
  TTL = 1
  Debounce = 1
  Horizon = 2
  MaxMessages = 1
SYMMETRY Symetrie
INVARIANT VerifiedIsProven
CHECK_DEADLOCK FALSE
