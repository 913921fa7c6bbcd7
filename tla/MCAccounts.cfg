SPECIFICATION InstancesSpec
CONSTANTS
  Deux = {v1, v2}
  Un = {v3}
  Personnes = {v1, v2, v3}
  Casses = {v1, v2, v3}
  Numeros = {v1, v2, v3}
  Noms = {n1}
  Emetteurs = {"keycloak"}
  Comptes = {u1, u2}
  Requetes = {r1, r2}
  None = None
SYMMETRY Symetrie
INVARIANTS
  SessionsOwned
  TwinsOverlapped
  SubjectSticks
PROPERTY ChosenOnce
CHECK_DEADLOCK FALSE
