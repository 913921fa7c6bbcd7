------------------------------- MODULE Session -------------------------------
(***************************************************************************)
(* The session of one tab: stores/auth.ts and its token, the guard of the  *)
(* router, and the round trip to the realm of the club (api/keycloak.ts,   *)
(* OidcCallbackView.vue, LoginView.vue).  Leaving for the realm, coming    *)
(* back, reloading and the buttons of the history all destroy the page;    *)
(* sessionStorage survives them.  One member card, hence one realm user.   *)
(***************************************************************************)
EXTENDS Integers, Sequences

CONSTANTS
  Comptes,      \* accounts that exist
  Neuf,         \* the account a sign-in by card may create
  Invite,       \* nobody: no token
  MaxDemandes   \* bound: departures for the realm

ASSUME SessionAssumption ==
  Neuf \notin Comptes /\ Invite \notin Comptes \cup {Neuf} /\ MaxDemandes \in Nat

VARIABLES
  ecran,        \* the route, or "realm" when the page is the realm's
  banniere,     \* the query of /login says rattachement=1
  jeton,        \* accessToken, as the account it was made for
  fiche,        \* user, as the account it describes
  moi,          \* the account whose /auth/me has not answered, or Invite
  sansNom,      \* accounts without a username
  demandes,     \* intents of the departures so far
  tampon,       \* keycloak.verifier, .state, .intent: their departure, or 0
  enSuspens,    \* keycloak.pendingLink
  departs,      \* departures whose code_challenge is awaited
  vers,         \* departure the browser, or the realm's page, is bound for
  onglet,       \* history of the tab: pages of the realm, and callbacks
  echange,      \* departure whose return is being dealt with, or 0
  etape,        \* "jeton" then "session", what that awaits
  carte,        \* server: the account of the card
  presentes,    \* history: by departure, the codes shown to the realm
  bilan         \* history: relinks minus refusals

sessionVars == <<ecran, banniere, jeton, fiche, moi, sansNom, demandes, tampon, enSuspens,
                 departs, vers, onglet, echange, etape, carte, presentes, bilan>>

-----------------------------------------------------------------------------
Demandes == 1..MaxDemandes
EnPage == ecran # "realm"

SessionInit ==
  /\ ecran = "accueil" /\ banniere = FALSE
  /\ jeton = Invite /\ fiche = Invite /\ moi = Invite /\ sansNom = {}
  /\ demandes = <<>> /\ tampon = 0 /\ enSuspens = FALSE /\ departs = {} /\ vers = 0
  /\ onglet = {} /\ echange = 0 /\ etape = ""
  /\ carte \in Comptes \cup {Invite}
  /\ presentes = [d \in Demandes |-> 0] /\ bilan = 0

\* router.beforeEach, its redirections followed.
Garde(e, j, f) ==
  LET vise == IF e \in {"reglages", "bienvenue"} /\ j = Invite THEN "connexion"
              ELSE IF e = "connexion" /\ j # Invite THEN "accueil" ELSE e
  IN IF j # Invite /\ f \in sansNom /\ vise # "retour" THEN "bienvenue" ELSE vise

\* A route is shown.  /login forgets a pending link when it is mounted without
\* its banner; navigating from /login to itself mounts nothing.
Montrer(e, j, f, b, monte) ==
  LET la == Garde(e, j, f) IN
  /\ ecran' = la
  /\ banniere' = (la = "connexion" /\ b)
  /\ enSuspens' = (enSuspens /\ ~(la = "connexion" /\ monte /\ ~b))

Entrer(e, j, f) == Montrer(e, j, f, FALSE, ecran # Garde(e, j, f))

\* Inside the site: the callback that is left there goes on with its exchange.
Aller(e) ==
  /\ EnPage /\ Entrer(e, jeton, fiche)
  /\ UNCHANGED <<jeton, fiche, moi, sansNom, demandes, tampon, departs, vers, onglet, echange,
                 etape, carte, presentes, bilan>>

SeDeconnecter ==
  /\ EnPage /\ jeton # Invite
  /\ jeton' = Invite /\ fiche' = Invite
  /\ Entrer("accueil", Invite, Invite)
  /\ UNCHANGED <<moi, sansNom, demandes, tampon, departs, vers, onglet, echange, etape, carte,
                 presentes, bilan>>

\* fetchCurrentUser answers, whoever is signed in by then; its failure closes
\* the session.
MoiRepond ==
  /\ EnPage /\ moi # Invite
  /\ moi' = Invite
  /\ \/ fiche' = moi /\ UNCHANGED jeton
     \/ fiche' = Invite /\ jeton' = Invite
  /\ UNCHANGED <<ecran, banniere, sansNom, demandes, tampon, enSuspens, departs, vers, onglet,
                 echange, etape, carte, presentes, bilan>>

ChoisirNom ==
  /\ ecran = "bienvenue" /\ jeton \in sansNom
  /\ sansNom' = sansNom \ {jeton} /\ fiche' = jeton
  /\ ecran' = "accueil"
  /\ UNCHANGED <<banniere, jeton, moi, demandes, tampon, enSuspens, departs, vers, onglet,
                 echange, etape, carte, presentes, bilan>>

-----------------------------------------------------------------------------
(* Leaving                                                                 *)

\* startKeycloakFlow, as far as its await: three items in one go.
Partir(intention) ==
  /\ Len(demandes) < MaxDemandes
  /\ demandes' = Append(demandes, intention)
  /\ tampon' = Len(demandes')
  /\ departs' = departs \cup {Len(demandes')}

ParLaCarte ==
  /\ EnPage
  /\ \/ ecran = "connexion" /\ Partir("signin")
     \/ ecran = "reglages" /\ jeton # Invite /\ Partir("link")
  /\ UNCHANGED <<ecran, banniere, jeton, fiche, moi, sansNom, enSuspens, vers, onglet, echange,
                 etape, carte, presentes, bilan>>

\* window.location.assign: the last one called decides.
Assigner(d) ==
  /\ EnPage /\ d \in departs
  /\ departs' = departs \ {d} /\ vers' = d
  /\ UNCHANGED <<ecran, banniere, jeton, fiche, moi, sansNom, demandes, tampon, enSuspens,
                 onglet, echange, etape, carte, presentes, bilan>>

\* The page is destroyed, with what it awaited.
Detruite == departs' = {} /\ moi' = Invite /\ echange' = 0 /\ etape' = ""

Quitter ==
  /\ EnPage /\ vers # 0
  /\ ecran' = "realm" /\ banniere' = FALSE /\ Detruite
  /\ onglet' = onglet \cup {<<"realm", vers>>}
  /\ UNCHANGED <<jeton, fiche, sansNom, demandes, tampon, enSuspens, vers, carte, presentes,
                 bilan>>

\* By password or by Google; a link that was pending leaves for the realm at
\* once, and is pending no more.
SeConnecter(c) ==
  /\ ecran = "connexion" /\ jeton = Invite /\ c \in Comptes
  /\ jeton' = c /\ fiche' = c
  /\ IF enSuspens
     THEN /\ Partir("relink") /\ bilan' = bilan + 1 /\ enSuspens' = FALSE
          /\ UNCHANGED <<ecran, banniere>>
     ELSE /\ Entrer("accueil", c, c) /\ UNCHANGED <<demandes, tampon, departs, bilan>>
  /\ UNCHANGED <<moi, sansNom, vers, onglet, echange, etape, carte, presentes>>

-----------------------------------------------------------------------------
(* Coming back                                                             *)

\* Any load of a page of the site: the store is restored, /auth/me leaves.
Charge == moi' = jeton /\ departs' = {} /\ vers' = 0

\* The site is opened again: back button, address bar, reload.
Rouvrir ==
  /\ \/ Montrer("accueil", jeton, fiche, FALSE, TRUE)
     \/ Montrer("connexion", jeton, fiche, banniere, TRUE)
  /\ Charge /\ echange' = 0 /\ etape' = ""
  /\ UNCHANGED <<jeton, fiche, sansNom, demandes, tampon, onglet, carte, presentes, bilan>>

\* A page of the realm that the history still holds.
RetrouverRealm(d) ==
  /\ <<"realm", d>> \in onglet
  /\ ecran' = "realm" /\ vers' = d /\ banniere' = FALSE /\ Detruite
  /\ UNCHANGED <<jeton, fiche, sansNom, demandes, tampon, enSuspens, onglet, carte, presentes,
                 bilan>>

\* Mutant: the items are erased by an exchange that succeeds only.
DebuterSansEffacer(d) ==
  /\ ecran' = "retour" /\ banniere' = FALSE /\ Charge
  /\ IF d = tampon
     THEN echange' = d /\ etape' = "jeton" /\ presentes' = [presentes EXCEPT ![d] = @ + 1]
     ELSE echange' = 0 /\ etape' = "" /\ UNCHANGED presentes
  /\ UNCHANGED <<jeton, fiche, sansNom, demandes, tampon, enSuspens, carte, bilan>>

\* The callback is mounted: the items are read and erased, the states are
\* compared, and only then is the code shown to the realm.
Debuter(d) ==
  /\ ecran' = "retour" /\ banniere' = FALSE /\ Charge
  /\ tampon' = 0
  /\ IF d = tampon
     THEN echange' = d /\ etape' = "jeton" /\ presentes' = [presentes EXCEPT ![d] = @ + 1]
     ELSE echange' = 0 /\ etape' = "" /\ UNCHANGED presentes
  /\ UNCHANGED <<jeton, fiche, sansNom, demandes, enSuspens, carte, bilan>>

Autoriser ==
  ecran = "realm" /\ Debuter(vers) /\ onglet' = onglet \cup {<<"retour", vers>>}

\* The callback again, by the history or a reload.
Revenir(d) == <<"retour", d>> \in onglet /\ Debuter(d) /\ UNCHANGED onglet

\* ... or by the history inside the site: the items were erased when it was
\* first mounted, so that this one fails, and an exchange under way goes on.
Remonter(d) ==
  /\ EnPage /\ ecran # "retour" /\ <<"retour", d>> \in onglet /\ d # tampon
  /\ ecran' = "retour" /\ banniere' = FALSE /\ tampon' = 0
  /\ UNCHANGED <<jeton, fiche, moi, sansNom, demandes, enSuspens, departs, vers, onglet,
                 echange, etape, carte, presentes, bilan>>

\* The realm refuses, or the member does: an error instead of a code.
Renoncer ==
  /\ ecran = "realm" /\ ecran' = "retour" /\ banniere' = FALSE /\ Charge
  /\ tampon' = 0 /\ echange' = 0 /\ etape' = ""
  /\ UNCHANGED <<jeton, fiche, sansNom, demandes, enSuspens, onglet, carte, presentes, bilan>>

Finir == echange' = 0 /\ etape' = ""

\* The token endpoint: an id_token, or a failure, certain for a code shown
\* before.
JetonArrive ==
  /\ etape = "jeton"
  /\ \/ presentes[echange] = 1 /\ etape' = "session" /\ UNCHANGED echange
     \/ Finir
  /\ UNCHANGED <<ecran, banniere, jeton, fiche, moi, sansNom, demandes, tampon, enSuspens,
                 departs, vers, onglet, carte, presentes, bilan>>

\* router.replace, wherever the reader is by then: a callback that is on display
\* leaves the history.
RetirerRetour ==
  IF ecran = "retour" THEN \E d \in Demandes : onglet' = onglet \ {<<"retour", d>>}
  ELSE UNCHANGED onglet
Remplacer(e, j, f) == RetirerRetour /\ Entrer(e, j, f)

\* linkKeycloak: the account of the token takes the card, unless another one
\* has it; without a token, 401 closes the session.
Rattacher ==
  /\ etape = "session" /\ demandes[echange] # "signin" /\ Finir
  /\ IF jeton # Invite /\ carte \in {Invite, jeton}
     THEN /\ carte' = jeton /\ fiche' = jeton /\ UNCHANGED jeton
          /\ Remplacer("reglages", jeton, jeton)
     ELSE /\ fiche' = IF jeton = Invite THEN Invite ELSE fiche
          /\ UNCHANGED <<ecran, banniere, enSuspens, onglet, carte, jeton>>
  /\ UNCHANGED <<moi, sansNom, demandes, tampon, departs, vers, presentes, bilan>>

\* loginWithKeycloak for a card that has an account.
ConnecterCarte ==
  /\ etape = "session" /\ demandes[echange] = "signin" /\ carte # Invite /\ Finir
  /\ jeton' = carte /\ fiche' = carte
  /\ Remplacer("accueil", carte, carte)
  /\ UNCHANGED <<moi, sansNom, demandes, tampon, departs, vers, carte, presentes, bilan>>

\* ... whose address has no account either: one is created, without a name.
CreerParCarte ==
  /\ etape = "session" /\ demandes[echange] = "signin" /\ carte = Invite /\ Finir
  /\ carte' = Neuf /\ jeton' = Neuf /\ fiche' = Neuf /\ sansNom' = sansNom \cup {Neuf}
  /\ RetirerRetour /\ ecran' = "bienvenue" /\ banniere' = FALSE /\ UNCHANGED enSuspens
  /\ UNCHANGED <<moi, demandes, tampon, departs, vers, presentes, bilan>>

\* ... whose address has an account: CARD_EMAIL_TAKEN.
CarteRefusee ==
  /\ etape = "session" /\ demandes[echange] = "signin" /\ carte = Invite /\ Finir
  /\ LET la == Garde("connexion", jeton, fiche) IN ecran' = la /\ banniere' = (la = "connexion")
  /\ enSuspens' = TRUE /\ bilan' = bilan - 1
  /\ RetirerRetour
  /\ UNCHANGED <<jeton, fiche, moi, sansNom, demandes, tampon, departs, vers, carte, presentes>>

SessionNext ==
  \/ \E e \in {"accueil", "connexion", "reglages", "bienvenue"} : Aller(e)
  \/ SeDeconnecter \/ MoiRepond \/ ChoisirNom \/ ParLaCarte
  \/ \E d \in Demandes : Assigner(d) \/ RetrouverRealm(d) \/ Revenir(d) \/ Remonter(d)
  \/ \E c \in Comptes : SeConnecter(c)
  \/ Quitter \/ Rouvrir \/ Autoriser \/ Renoncer
  \/ JetonArrive \/ Rattacher \/ ConnecterCarte \/ CreerParCarte \/ CarteRefusee

SessionSpec == SessionInit /\ [][SessionNext]_sessionVars

-----------------------------------------------------------------------------
(* Properties                                                              *)

\* Nothing that a round trip leaves behind serves twice.  A code is shown to
\* the realm once, and only for the departure it belongs to, whatever the
\* history, reloads and departures that cross bring back ("efface l'etat de
\* l'aller-retour dans tous les cas, y compris en erreur"); and a card refused
\* sends its owner back to the realm at most once, after one sign-in ("elle ne
\* vaut que pour la connexion qui suit immediatement").
CardLeavesOnce == (\A d \in Demandes : presentes[d] <= 1) /\ bilan <= 0
===============================================================================
