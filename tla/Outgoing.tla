------------------------------ MODULE Outgoing ------------------------------
(***************************************************************************)
(* The requests the server sends: safeFetch (common/safe-fetch.ts), its    *)
(* twin in mixcloud.service.ts, and the calls built from them: reading an  *)
(* address with the importers (imports/), resolving a watched source       *)
(* (veille.resolver.ts, bandcamp.reader.ts), fetching a cover.  A call is  *)
(* a chain of exchanges; what the parsers find in a body is a choice among *)
(* the cases that lead the call to different places.                       *)
(***************************************************************************)
EXTENDS Integers

CONSTANTS
  Delai,       \* timeoutMs of an exchange, in ticks
  MaxSauts,    \* MAX_REDIRECTS
  MaxTics      \* bound: ticks a call is followed for

ASSUME OutgoingAssumption == Delai \in Nat \ {0} /\ MaxSauts \in Nat /\ MaxTics \in Nat

VARIABLES
  appel,     \* "import", "veille", "pochette", or "aucun" before the call
  echange,   \* the exchange in progress, "aucun" between two
  phase,     \* "entetes" while its headers are awaited, then "corps"
  saut,      \* hop
  age,       \* ticks since setTimeout
  armee,     \* is the timer set?
  tour,      \* 1, then 2 for the feed that a page declares
  attente,   \* history: ticks since the call began
  reponse    \* what the caller got

outgoingVars == <<appel, echange, phase, saut, age, armee, tour, attente, reponse>>

-----------------------------------------------------------------------------
Echecs == {"refus", "absent", "panne"}   \* 400, 404 and 502

\* Two tables of the same kind, one after the other.
f ++ g == [x \in DOMAIN f \cup DOMAIN g |-> IF x \in DOMAIN f THEN f[x] ELSE g[x]]

\* What each body may turn out to be: an answer, or the exchange that follows.
MixcloudSuites ==
  [fiche_mixcloud |-> {"mix", "panne"}, compte_mixcloud |-> {"liste", "sans_page", "panne"}]
SoundcloudSuites == [oembed |-> {"mix", "panne"}]
ArchiveSuites ==
  [archive |-> {"panne", "absent", "archive_fichier", "liste"},
   archive_fichier |-> {"panne", "absent", "mix"}]
OuiedireSuites == [ouiedire |-> {"absent", "mix"}]
BrainSuites == [brain |-> {"absent", "mix"}]
LylSuites ==
  [lyl_episode |-> {"panne", "absent", "refus", "mix"},
   lyl_emission |-> {"panne", "absent", "liste"}]
ForumSuites == [discussion |-> {"panne", "refus", "fiche_mixcloud", "oembed"}]
PodcastSuites ==
  [flux |-> {"refus", "absent", "liste", "sans_page"},
   flux_episode |-> {"refus", "absent", "mix"}]
BandcampSuites == [grille |-> {"absent", "album"}, album |-> {"liste"}]
PageSuites == [page |-> {"sans_flux", "flux_declare"}]
CoverSuites == [image |-> {"refus", "pochette"}]

Suites ==
  MixcloudSuites ++ SoundcloudSuites ++ ArchiveSuites ++ OuiedireSuites ++ BrainSuites
    ++ LylSuites ++ ForumSuites ++ PodcastSuites ++ BandcampSuites ++ PageSuites ++ CoverSuites

Echanges == DOMAIN Suites

\* Where an address leads: the first importer that claims it, the catch-all
\* last, or a refusal before any request.
Adressages ==
  {"fiche_mixcloud", "compte_mixcloud", "oembed", "archive", "ouiedire", "brain",
   "lyl_episode", "lyl_emission", "discussion", "flux", "refus"}
References ==
  {"fiche_mixcloud", "oembed", "archive_fichier", "ouiedire", "brain", "lyl_episode",
   "discussion", "flux_episode", "refus"}

OutgoingInit ==
  /\ appel = "aucun" /\ echange = "aucun" /\ phase = "entetes" /\ saut = 0 /\ age = 0
  /\ armee = FALSE /\ tour = 1 /\ attente = 0 /\ reponse = "aucun"

-----------------------------------------------------------------------------
\* The call ends; or fetch is called, its timer armed before.
Repondre(r) == /\ reponse' = r /\ echange' = "aucun" /\ armee' = FALSE
               /\ phase' = "entetes" /\ saut' = 0 /\ age' = 0
Emettre(e) == /\ echange' = e /\ armee' = TRUE /\ UNCHANGED reponse
              /\ phase' = "entetes" /\ saut' = 0 /\ age' = 0

\* viaImports with nothing to show: the feed the page declares, once.
Autodetecter == IF tour = 1 THEN Emettre("page") ELSE Repondre("rien")

\* What veille makes of an importer's answer: only the failure of the
\* catch-all is worth another try.
SuiteVeille(e, r) ==
  IF r = "mix" THEN Repondre("refus")
  ELSE IF r = "sans_page" \/ (r \in Echecs /\ e = "flux") THEN Autodetecter
  ELSE Repondre(r)

\* The feed the page declares is read as an address of its own.
SuitePage(r) ==
  IF r # "flux_declare" THEN Repondre("rien")
  ELSE \E f \in Adressages : IF f = "refus" THEN Repondre(f) ELSE Emettre(f)

\* An exchange e has given r: another exchange, or the end of the call.
Suivre(e, r) ==
  /\ tour' = IF e = "page" THEN 2 ELSE tour
  /\ IF r \in Echanges THEN Emettre(r)
     ELSE IF e = "album" THEN Repondre("liste")
     ELSE IF e = "page" THEN SuitePage(r)
     ELSE IF appel = "veille" /\ e # "grille" THEN SuiteVeille(e, r)
     ELSE Repondre(IF r = "sans_page" THEN "liste" ELSE r)

Appeler(a, e) ==
  /\ appel = "aucun" /\ appel' = a
  /\ IF e = "refus" THEN Repondre(e) ELSE Emettre(e)
  /\ UNCHANGED <<tour, attente>>

Importer == \E e \in Adressages \cup References : Appeler("import", e)
ResoudreSource == \E e \in Adressages \cup {"grille"} : Appeler("veille", e)
ChercherPochette == \E e \in {"image", "refus"} : Appeler("pochette", e)

-----------------------------------------------------------------------------
Attendu(p) == echange # "aucun" /\ phase = p
ApiMixcloud == echange \in DOMAIN MixcloudSuites
GarderReponse == UNCHANGED <<appel, attente>>

\* The connection fails, the guard of the addresses included; or the status
\* says no.
Refuser ==
  /\ Attendu("entetes")
  /\ \E r \in {"absent", "panne"} : Suivre(echange, r)
  /\ GarderReponse

\* A redirection is followed by hand, its address checked again; the Mixcloud
\* relay follows none.
Rediriger ==
  /\ Attendu("entetes")
  /\ \/ ApiMixcloud /\ Suivre(echange, "panne")
     \/ ~ApiMixcloud /\ \E r \in {"panne", "refus"} : Suivre(echange, r)
     \/ /\ ~ApiMixcloud /\ saut < MaxSauts
        /\ saut' = saut + 1
        /\ UNCHANGED <<echange, phase, age, armee, tour, reponse>>
  /\ GarderReponse

\* Mutant: the timer is cleared once the headers are there.
EntetesDesarment ==
  /\ Attendu("entetes")
  /\ phase' = "corps" /\ armee' = FALSE
  /\ UNCHANGED <<echange, saut, age, tour, reponse>>
  /\ GarderReponse

Entetes ==
  /\ Attendu("entetes")
  /\ phase' = "corps"
  /\ UNCHANGED <<echange, saut, age, armee, tour, reponse>>
  /\ GarderReponse

\* The size announced or counted is past the cap.
Deborder ==
  /\ Attendu("corps") /\ ~ApiMixcloud
  /\ Suivre(echange, "refus")
  /\ GarderReponse

Couper == Attendu("corps") /\ Suivre(echange, "panne") /\ GarderReponse

LireCorps ==
  /\ Attendu("corps")
  /\ \E r \in Suites[echange] : Suivre(echange, r)
  /\ GarderReponse

\* The deadline: whatever is awaited fails.
Avorter ==
  /\ echange # "aucun" /\ armee /\ age = Delai
  /\ Suivre(echange, "panne")
  /\ GarderReponse

\* A timer that is due fires before time goes on.
TicReseau ==
  /\ echange # "aucun" /\ attente < MaxTics
  /\ ~(armee /\ age = Delai)
  /\ age' = IF armee THEN age + 1 ELSE age
  /\ attente' = attente + 1
  /\ UNCHANGED <<appel, echange, phase, saut, armee, tour, reponse>>

OutgoingNext ==
  \/ Importer \/ ResoudreSource \/ ChercherPochette
  \/ Refuser \/ Rediriger \/ Entetes \/ Deborder \/ Couper \/ LireCorps \/ Avorter
  \/ TicReseau

OutgoingSpec == OutgoingInit /\ [][OutgoingNext]_outgoingVars

-----------------------------------------------------------------------------
EchangesAuPlus == CASE appel = "veille" -> 4 [] appel = "import" -> 2 [] OTHER -> 1

(* No call waits longer than the deadlines of the exchanges it is made of:  *)
(* a host that answers and then stalls holds nobody, and no chain of        *)
(* redirections, feeds and pages goes on for longer than that.              *)
SettledByDeadline == attente <= Delai * EchangesAuPlus
=============================================================================
