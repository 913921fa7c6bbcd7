SPECIFICATION MediasSpec
CONSTANTS
  Mixes = {m1}
  Comptes = {u1}
  Requetes = {r1, r2}
  Aucun = Aucun
  NbCles = 3
  Brutes = {1}
  Demandes <- CorpsPossibles
SYMMETRY Symetrie
INVARIANTS
  NoDeadMedia
  ExactlyOneSource
  NothingElseLeaks
