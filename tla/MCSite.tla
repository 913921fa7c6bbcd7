-------------------------------- MODULE MCSite --------------------------------
(* One instance of the addresses of mixes, of the suggestions, of each part  *)
(* of the frontend, of a deployment and of the scripts.  They share no       *)
(* variable, so that their interleavings tell nothing: a behaviour moves the *)
(* one `partie` names, and the others stay as one of their initial states    *)
(* has them.                                                                 *)
EXTENDS Slugs, Suggestions, Player, Session, Volet, Recherche, Pages, Depot, Bascules,
        PagePlaylist, Reglages, Deploiement, Reprises, Fournees, Publications,
        Fil,
        TLC

VARIABLE partie   \* the component of this behaviour

Parties == {"adresses", "suggestions", "lecteur", "session", "volet", "recherche", "entete", "page",
            "depot", "bascules", "playlist", "compte", "sources", "deploiement", "pages reprises",
            "caches repris", "fournees", "publications", "fil"}
SiteInit ==
  /\ partie \in Parties
  /\ SlugsInit /\ (partie = "adresses" \/ \A i \in Lignes : titre[i] = "a")
  /\ SuggestionsInit
  /\ partie = "suggestions" \/ (parues = Parutions /\ historique = [u \in Auditeurs |-> {}])
  /\ PlayerInit
  /\ SessionInit /\ (partie = "session" \/ carte = Invite)
  /\ VoletInit /\ RechercheInit
  /\ PagesInit /\ (partie = "page" \/ adresse = CHOOSE d \in Dehors : TRUE)
  /\ DepotInit /\ (partie = "depot" \/ enLigne = {})
  /\ BasculesInit /\ (partie = "bascules" \/ \A o \in Objets : serveur[o])
  /\ PagePlaylistInit
  /\ ReglagesInit /\ (partie = "compte" \/ titulaire.nom = CHOOSE n \in Noms : TRUE)
  /\ partie = "sources" \/ \A s \in Suivies : suivi[s] = Nul
  /\ DeploiementInit
  /\ ReprisesInit
  /\ partie = "pages reprises" \/ \A m \in Reprenables : mixs[m].ref = "x"
  /\ FourneesInit
  /\ partie = "fournees" \/ (paquet = dossier /\ paquet = CHOOSE v \in Parus : TRUE)
  /\ PublicationsInit
  /\ partie = "publications" \/ \A c \in Deposants : noms[c] = SansNom
  /\ LET d == CHOOSE c \in Deposants : TRUE
     IN  parus[1].auteur = d /\ noms[d] = SansNom /\ parus[1].audio = "distant"
  /\ liste = <<2, 1>>
  /\ FilInit /\ (partie = "fil" \/ donnees = 1)
  /\ partie = "caches repris" \/ \A o \in Rangees : bucket[o].cache

Immobile(siens, vars) == partie \notin siens => UNCHANGED vars

Au(nom, pas) ==
  /\ partie = nom /\ UNCHANGED partie
  /\ Immobile({"adresses"}, slugsVars)
  /\ Immobile({"suggestions"}, suggestionsVars)
  /\ Immobile({"lecteur"}, playerVars)
  /\ Immobile({"session"}, sessionVars)
  /\ Immobile({"volet"}, voletVars)
  /\ Immobile({"recherche", "entete"}, rechercheVars)
  /\ Immobile({"page"}, pagesVars)
  /\ Immobile({"depot"}, depotVars)
  /\ Immobile({"bascules"}, basculesVars)
  /\ Immobile({"playlist"}, pagePlaylistVars)
  /\ Immobile({"compte"}, compteVars)
  /\ Immobile({"sources"}, sourcesVars)
  /\ Immobile({"deploiement"}, deploiementVars)
  /\ Immobile({"pages reprises", "caches repris"}, reprisesVars)
  /\ Immobile({"fournees"}, fourneesVars)
  /\ Immobile({"publications"}, publicationsVars)
  /\ Immobile({"fil"}, filVars)
  /\ pas

SiteNext ==
  \/ Au("adresses", SlugsNext)
  \/ Au("suggestions", SuggestionsNext)
  \/ Au("lecteur", PlayerNext)
  \/ Au("session", SessionNext)
  \/ Au("volet", VoletNext)
  \/ Au("recherche", DecouvrirNext)
  \/ Au("entete", EnteteNext)
  \/ Au("page", PagesNext)
  \/ Au("depot", DepotNext)
  \/ Au("bascules", BasculesNext)
  \/ Au("playlist", PagePlaylistNext)
  \/ Au("compte", CompteNext)
  \/ Au("sources", SourcesNext)
  \/ Au("deploiement", DeploiementNext)
  \/ Au("pages reprises", PagesReprisesNext \/ ArreterReprises)
  \/ Au("caches repris", CacheNext \/ ArreterReprises)
  \/ Au("fournees", FourneesNext)
  \/ Au("publications", PublicationsNext)
  \/ Au("fil", FilNext)

siteVars == <<partie, slugsVars, suggestionsVars, playerVars, sessionVars, voletVars,
              rechercheVars, pagesVars, depotVars, basculesVars, pagePlaylistVars, reglagesVars,
              deploiementVars, reprisesVars, fourneesVars, publicationsVars, filVars>>

SiteSpec == SiteInit /\ [][SiteNext]_siteVars

\* What tells two states apart: the others have one initial state each.
Vue ==
  <<partie,
    CASE partie = "adresses" -> slugsVars
      [] partie = "suggestions" -> suggestionsVars
      [] partie = "lecteur" -> playerVars
      [] partie = "session" -> sessionVars
      [] partie = "volet" -> voletVars
      [] partie \in {"recherche", "entete"} -> rechercheVars
      [] partie = "page" -> pagesVars
      [] partie = "depot" -> depotVars
      [] partie = "bascules" -> basculesVars
      [] partie = "playlist" -> pagePlaylistVars
      [] partie \in {"compte", "sources"} -> reglagesVars
      [] partie = "deploiement" -> deploiementVars
      [] partie \in {"pages reprises", "caches repris"} -> reprisesVars
      [] partie = "fournees" -> fourneesVars
      [] partie = "publications" -> publicationsVars
      [] partie = "fil" -> filVars>>

-----------------------------------------------------------------------------
\* The titles meet: the second number of "a" is the first of "b".
Adresse == [t \in {"a", "b"} |-> IF t = "a" THEN 1 ELSE 2]

\* One list to reorder, one without any mix.
EnRang == [p \in {"pl1", "pl2"} |-> IF p = "pl1" THEN <<"a", "b">> ELSE <<>>]

\* The second version asks for two migrations more.
DemandeMC == [v \in {"v0", "v1"} |-> IF v = "v0" THEN {1} ELSE {1, 2, 3}]

\* Two addresses of one Brain file, one of each other kind.
VoieMC == [r \in {"lyl", "brain", "www brain", "sc", "x"} |->
  CASE r = "lyl" -> "lyl" [] r = "sc" -> "deduite" [] r = "x" -> "aucune" [] OTHER -> "brain"]
NormaleMC == [r \in {"lyl", "brain", "www brain", "sc", "x"} |->
  IF r = "brain" THEN "www brain" ELSE r]

\* "DJ/a" is "dj/a" in another case.  A version whose issues overlap, each with
\* a repetition; one with a draft that has its day and a file without its head.
CiteMC == [r \in {"dj/a", "DJ/a", "dj/b", "vj/a"} |-> IF r = "DJ/a" THEN "dj/a" ELSE r]
Feuillet(n, de, refs) ==
  [gabarit |-> "large", numero |-> n, de |-> de, a |-> 2, refs |-> refs, affichee |-> TRUE,
   exemple |-> FALSE, entete |-> TRUE, habillage |-> TRUE]
Premiere == Feuillet(1, 1, <<"vj/a", "dj/a", "dj/b", "DJ/a">>)
Suite2 == Feuillet(2, 2, <<"DJ/a", "dj/b", "vj/a", "dj/b">>)
FeuilletsMC == [v \in {"w0", "w1"} |->
  IF v = "w0" THEN <<Premiere, Suite2>>
  ELSE <<[Suite2 EXCEPT !.exemple = TRUE], [Suite2 EXCEPT !.entete = FALSE], Premiere>>]
===============================================================================
