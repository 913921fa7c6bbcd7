SPECIFICATION WindowSpec
CONSTANTS
  Keys = {c1, c2, c3, c4}
  Limit = 2
  Window = 2
  MaxKeys = 3
  SweepEvery = 4
  FinFenetre = 5
SYMMETRY Symetrie
INVARIANT OrderTracksTouches
CHECK_DEADLOCK FALSE
