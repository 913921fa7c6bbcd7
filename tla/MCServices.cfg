SPECIFICATION ServicesSpec
CONSTANTS
  Users = {u1, u2}
  Pseudos = {p1}
  Jetons = {j1, j2}
  Requests = {r1, r2}
  None = None
  TTL = 1
  Debounce = 1
  Horizon = 2
  MaxMessages = 1
  Keys = {a1, a2, a3}
  Limit = 2
  Window = 2
  MaxKeys = 3
  SweepEvery = 4
  FinFenetre = 5
  Sources = {1, 2, 3}
  Adresses = {a1, a2, a3}
  Visites = {u1, u2}
  Abonnements = {j1, j2}
  Ajouts = {u1, u2}
  Plafond = 1
  Ttl = 2
  Fin = 2
  Delai = 2
  MaxSauts = 3
  MaxTics = 10
  Listes = {l1}
  Morceaux = {a1, a2, a3}
  Membres = {m1}
  Personne = Personne
  MaxPosition = 3
  Sets = {"s1", "s2"}
  Auteurs = {"u1", "u2"}
  PosteDe <- Posteurs
  Fils = {a1, a2, a3}
  Envois = {u1, u2}
  Rien = Rien
SYMMETRY Symetrie
INVARIANTS
  ProofStands
  SearchesSpaced
  BudgetHeld
  CacheCloses
  SourceCap
  SettledByDeadline
  InsertionOrder
  OneLevelThreads
CHECK_DEADLOCK FALSE
