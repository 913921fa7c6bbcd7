SPECIFICATION SiteSpec
CONSTANTS
  Titres = {"a", "b"}
  Base <- Adresse
  Lignes = {1, 2, 3}
  Anciennes = {1, 2}
  Createurs = {c1}
  MaxEssais = 3
  Parutions = {1, 2, 3, 4}
  Voisines = {1, 2}
  Affiche = 2
  Auditeurs = {"v", "a"}
  Visiteur = "v"
  Anonyme = Anonyme
  Places = 2
  Fichiers = {f1, f2}
  Mixclouds = {m1, m2}
  Soundclouds = {s1}
  Rien = Rien
  MaxCadres = 3
  Comptes = {"ca", "cb"}
  Neuf = "neuf"
  Invite = "invite"
  MaxDemandes = 2
  Montee = 4
  Grace = 2
  Attente = 14
  Sortie = 6
  Pochettes = {"x", "y"}
  MaxCompte = 3
  Termes = {t1}
  Vide = Vide
  MaxPages = 2
  EnVol = 2
  Mixes = {mx1, mx2}
  NulMix = NulMix
  MaxVisites = 2
  Emissions = {e1, e2}
  Sans = Sans
  Objets = {"coeur", "profil"}
  EnMeme = 2
  Playlistes = {"pl1", "pl2"}
  Rangee <- EnRang
  EnCours = 2
  Aucune = Aucune
  Noms = {"na", "nb"}
  Pseudo = "ps"
  Nul = Nul
  MaxJetons = 2
  Suivies = {"s"}
  Libelles = {"l", "m"}
  EnTete = 2
  Versions = {"v0", "v1"}
  Demande <- DemandeMC
  Depart = "v0"
  Absent = Absent
  Reprenables = {1, 2}
  Refs = {"lyl", "brain", "www brain", "sc", "x"}
  Voie <- VoieMC
  Normale <- NormaleMC
  Rangees = {1, 2, 3}
  Limite = 2
  Nulle = Nulle
  MaxGestes = 1
  Parus = {"w0", "w1"}
  Feuillets <- FeuilletsMC
  Citables = {"dj/a", "dj/b", "vj/a"}
  Cite <- CiteMC
  Manque = Manque
  Jours = {1, 2}
  MaxRemous = 1
  Deposants = {d1, d2}
  Appels = {"n"}
  SansNom = SansNom
  Parti = Parti
  SlugsPris = {"t"}
  MaxItems = 2
  MaxParus = 3
  MaxActes = 2
  Paroles = {1, 2, 3, 4}
  Guichets = {1, 2}
  Tete = 0
  Refusee = Refusee
PROPERTY ShownStays
VIEW Vue
CHECK_DEADLOCK FALSE
