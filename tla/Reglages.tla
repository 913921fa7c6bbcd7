------------------------------ MODULE Reglages ------------------------------
(***************************************************************************)
(* The settings page (SettingsView.vue): the account, whose copy in the    *)
(* store every answer completes field by field or replaces whole, and the  *)
(* watched sources, edited in place.  Each button waits for its own        *)
(* answer; only verifying and asking for a key again wait for each other.  *)
(***************************************************************************)
EXTENDS Integers

CONSTANTS
  Noms,       \* display names
  Pseudo,     \* the forum name that is claimed
  Nul,        \* null
  MaxJetons,  \* bound: keys given
  Suivies,    \* watched sources
  Libelles,   \* their labels
  EnTete      \* bound: requests at a time

ASSUME ReglagesAssumption ==
  /\ Nul \notin Noms \cup Libelles \cup {Pseudo}
  /\ MaxJetons \in Nat /\ EnTete \in Nat \ {0}

VARIABLES
  titulaire,  \* server: the account
  magasin,    \* authStore.user
  jetons,     \* server: keys given so far
  appels,     \* requests about the account
  heurtes,    \* history: answers that can undo one another, or one lost
  suivi,      \* server: label of each source, or Nul
  affichees,  \* watchedSources: label in each field, or Nul
  retenues,   \* savedLabels
  envois,     \* requests about the sources
  heurtees    \* history, per source

compteVars == <<titulaire, magasin, jetons, appels, heurtes>>
sourcesVars == <<suivi, affichees, retenues, envois, heurtees>>
reglagesVars == <<titulaire, magasin, jetons, appels, heurtes, suivi, affichees, retenues, envois,
                  heurtees>>

-----------------------------------------------------------------------------
Rangs == 1..EnTete
AppelLibre == [quoi |-> "aucun", val |-> Nul, etat |-> "aucun", lu |-> Nul]
EnvoiLibre == [quoi |-> "aucun", source |-> Nul, val |-> Nul, etat |-> "aucun", lu |-> Nul]
NonLie(c) == [c EXCEPT !.pseudo = Nul, !.jeton = 0, !.verifie = FALSE]

ReglagesInit ==
  /\ \E n \in Noms : titulaire = [nom |-> n, pseudo |-> Nul, jeton |-> 0, verifie |-> FALSE]
  /\ magasin = titulaire /\ jetons = 0 /\ appels = [r \in Rangs |-> AppelLibre] /\ heurtes = FALSE
  /\ suivi \in [Suivies -> {Nul} \cup Libelles]
  /\ affichees = [s \in Suivies |-> Nul] /\ retenues = affichees
  /\ envois = [r \in Rangs |->
       IF r = 1 THEN [EnvoiLibre EXCEPT !.quoi = "charger", !.etat = "parti"] ELSE EnvoiLibre]
  /\ heurtees = {}

-----------------------------------------------------------------------------
(* The account *)

Lances == {appels[r].quoi : r \in {x \in Rangs : appels[x] # AppelLibre}}
EnAttente == magasin.pseudo # Nul /\ ~magasin.verifie

\* What the page disables while something is on its way, and what it shows.
Offert(quoi) ==
  CASE quoi = "nom"        -> "nom" \notin Lances
    [] quoi = "lier"       -> magasin.pseudo = Nul /\ {"lier", "redemander"} \cap Lances = {}
    [] quoi = "redemander" -> EnAttente /\ {"lier", "redemander", "verifier"} \cap Lances = {}
    [] quoi = "verifier"   -> EnAttente /\ {"lier", "redemander", "verifier"} \cap Lances = {}
    [] quoi = "delier"     -> magasin.pseudo # Nul /\ "delier" \notin Lances
    [] OTHER               -> TRUE   \* "entier": submitPassword, onGoogleCredential

\* Two requests whose answers can undo one another: nothing keeps unlinking
\* apart from what it undoes, and an answer that replaces the whole account
\* carries what the server held by then.
Heurte(a, b) ==
  \/ "entier" \in {a, b}
  \/ "delier" \in {a, b} /\ "nom" \notin {a, b}

Solliciter(quoi, val) ==
  /\ Offert(quoi)
  /\ \E r \in Rangs :
       /\ appels[r] = AppelLibre /\ \A x \in 1..(r - 1) : appels[x] # AppelLibre
       /\ appels' = [appels EXCEPT ![r] = [AppelLibre EXCEPT !.quoi = quoi, !.val = val,
                                                             !.etat = "parti"]]
  /\ heurtes' = (heurtes \/ \E q \in Lances : Heurte(quoi, q))
  /\ UNCHANGED <<titulaire, magasin, jetons>>

\* The server grants a request: the account it leaves, and what it answers.
AppelTraite(r) ==
  LET q == appels[r] IN
  /\ q.etat = "parti"
  /\ \/ /\ q.quoi = "nom" /\ titulaire' = [titulaire EXCEPT !.nom = q.val]
        /\ appels' = [appels EXCEPT ![r].etat = "oui"] /\ UNCHANGED jetons
     \/ /\ q.quoi \in {"lier", "redemander"} /\ jetons < MaxJetons /\ jetons' = jetons + 1
        /\ titulaire' = [titulaire EXCEPT !.pseudo = q.val, !.jeton = jetons + 1, !.verifie = FALSE]
        /\ appels' = [appels EXCEPT ![r].etat = "oui", ![r].lu = jetons + 1]
     \/ /\ q.quoi = "verifier" /\ titulaire.pseudo # Nul /\ titulaire.jeton # 0
        /\ titulaire' = [titulaire EXCEPT !.jeton = 0, !.verifie = TRUE]
        /\ appels' = [appels EXCEPT ![r].etat = "oui"] /\ UNCHANGED jetons
     \/ /\ q.quoi = "delier" /\ titulaire' = NonLie(titulaire)
        /\ appels' = [appels EXCEPT ![r].etat = "oui"] /\ UNCHANGED jetons
     \/ /\ q.quoi = "entier" /\ appels' = [appels EXCEPT ![r].etat = "oui", ![r].lu = titulaire]
        /\ UNCHANGED <<titulaire, jetons>>
     \/ appels' = [appels EXCEPT ![r].etat = "non"] /\ UNCHANGED <<titulaire, jetons>>
  /\ UNCHANGED <<magasin, heurtes>>

\* Mutant: the key that has served stays in the store.
ApresSansVider(q) ==
  CASE q.quoi = "nom"        -> [magasin EXCEPT !.nom = q.val]
    [] q.quoi = "lier"       -> [magasin EXCEPT !.pseudo = q.val, !.jeton = q.lu, !.verifie = FALSE]
    [] q.quoi = "redemander" -> [magasin EXCEPT !.jeton = q.lu, !.verifie = FALSE]
    [] q.quoi = "verifier"   -> [magasin EXCEPT !.verifie = TRUE]
    [] q.quoi = "delier"     -> NonLie(magasin)
    [] OTHER                 -> q.lu

\* What an answer writes in the store.
ApresAppel(q) ==
  CASE q.quoi = "nom"        -> [magasin EXCEPT !.nom = q.val]
    [] q.quoi = "lier"       -> [magasin EXCEPT !.pseudo = q.val, !.jeton = q.lu, !.verifie = FALSE]
    [] q.quoi = "redemander" -> [magasin EXCEPT !.jeton = q.lu, !.verifie = FALSE]
    [] q.quoi = "verifier"   -> [magasin EXCEPT !.jeton = 0, !.verifie = TRUE]
    [] q.quoi = "delier"     -> NonLie(magasin)
    [] OTHER                 -> q.lu

\* An answer, or a failure, which says a word and writes nothing.
AppelRepond(r) ==
  LET q == appels[r] IN
  /\ q.etat \in {"oui", "non"} /\ appels' = [appels EXCEPT ![r] = AppelLibre]
  /\ \/ q.etat = "oui" /\ magasin' = ApresAppel(q) /\ UNCHANGED heurtes
     \/ UNCHANGED magasin /\ heurtes' = (heurtes \/ (q.etat = "oui" /\ q.quoi # "entier"))
  /\ UNCHANGED <<titulaire, jetons>>

\* The page is loaded again, and the account with it.
RechargerCompte ==
  /\ Lances = {} /\ magasin' = titulaire /\ heurtes' = FALSE
  /\ UNCHANGED <<titulaire, jetons, appels>>

CompteNext ==
  \/ \E n \in Noms : Solliciter("nom", n)
  \/ Solliciter("lier", Pseudo) \/ Solliciter("redemander", magasin.pseudo)
  \/ Solliciter("verifier", Nul) \/ Solliciter("delier", Nul) \/ Solliciter("entier", Nul)
  \/ \E r \in Rangs : AppelTraite(r) \/ AppelRepond(r)
  \/ RechargerCompte

-----------------------------------------------------------------------------
(* The watched sources *)

Partis == {r \in Rangs : envois[r] # EnvoiLibre}
Chargement == \E r \in Partis : envois[r].quoi = "charger"
EnvoyerSource(quoi, s, val) ==
  \E r \in Rangs :
    /\ envois[r] = EnvoiLibre /\ \A x \in 1..(r - 1) : envois[x] # EnvoiLibre
    /\ envois' = [envois EXCEPT ![r] = [EnvoiLibre EXCEPT !.quoi = quoi, !.source = s,
                                                          !.val = val, !.etat = "parti"]]

\* loadWatchedSources: the page is mounted anew.
ChargerSources ==
  /\ Partis = {} /\ EnvoyerSource("charger", Nul, Nul)
  /\ affichees' = [s \in Suivies |-> Nul] /\ retenues' = [s \in Suivies |-> Nul]
  /\ heurtees' = {} /\ UNCHANGED suivi

\* addSource, one at a time; a row made again has another id.
AjouterSource(s) ==
  /\ affichees[s] = Nul /\ \A r \in Partis : envois[r].quoi # "ajouter"
  /\ \A r \in Partis : envois[r].source # s   \* bound: once the old id is answered for
  /\ EnvoyerSource("ajouter", s, Nul)
  /\ heurtees' = IF Chargement THEN heurtees \cup {s} ELSE heurtees
  /\ UNCHANGED <<suivi, affichees, retenues>>

\* renameSource: the field holds the new label already.
RenommerSource(s, l) ==
  /\ affichees[s] \notin {Nul, l} /\ affichees' = [affichees EXCEPT ![s] = l]
  /\ EnvoyerSource("renommer", s, l)
  /\ heurtees' = IF \E r \in Partis : envois[r].quoi = "renommer" /\ envois[r].source = s
                 THEN heurtees \cup {s} ELSE heurtees
  /\ UNCHANGED <<suivi, retenues>>

\* A label left blank goes back at once; removeSource waits.
RetirerSource(s) ==
  /\ affichees[s] # Nul /\ EnvoyerSource("retirer", s, Nul)
  /\ UNCHANGED <<suivi, affichees, retenues, heurtees>>

EnvoiTraite(r) ==
  LET q == envois[r] IN
  /\ q.etat = "parti"
  /\ \/ /\ q.quoi = "charger" /\ envois' = [envois EXCEPT ![r].etat = "oui", ![r].lu = suivi]
        /\ UNCHANGED suivi
     \/ /\ q.quoi = "ajouter" /\ suivi[q.source] = Nul
        /\ \E l \in Libelles : /\ suivi' = [suivi EXCEPT ![q.source] = l]
                               /\ envois' = [envois EXCEPT ![r].etat = "oui", ![r].lu = l]
     \/ /\ q.quoi = "renommer" /\ suivi[q.source] # Nul
        /\ suivi' = [suivi EXCEPT ![q.source] = q.val]
        /\ envois' = [envois EXCEPT ![r].etat = "oui"]
     \/ /\ q.quoi = "retirer" /\ suivi[q.source] # Nul
        /\ suivi' = [suivi EXCEPT ![q.source] = Nul]
        /\ envois' = [envois EXCEPT ![r].etat = "oui"]
     \/ envois' = [envois EXCEPT ![r].etat = "non"] /\ UNCHANGED suivi
  /\ UNCHANGED <<affichees, retenues, heurtees>>

Montrees(f) == affichees' = f /\ retenues' = f

EnvoiRepond(r) ==
  LET q == envois[r] s == envois[r].source IN
  /\ q.etat = "oui" /\ envois' = [envois EXCEPT ![r] = EnvoiLibre]
  /\ CASE q.quoi = "charger" -> Montrees(q.lu)
       [] q.quoi = "ajouter" -> /\ affichees' = [affichees EXCEPT ![s] = q.lu]
                                /\ retenues' = [retenues EXCEPT ![s] = q.lu]
       [] q.quoi = "renommer" -> /\ affichees' = [affichees EXCEPT ![s] = IF @ = Nul THEN Nul ELSE q.val]
                                 /\ retenues' = [retenues EXCEPT ![s] = q.val]
       [] OTHER -> /\ affichees' = [affichees EXCEPT ![s] = Nul]
                   /\ retenues' = [retenues EXCEPT ![s] = Nul]
  /\ UNCHANGED <<suivi, heurtees>>

\* A refusal, or an answer that is lost: a label goes back to the last one the
\* server agreed to.
EnvoiEchoue(r) ==
  LET q == envois[r] s == envois[r].source IN
  /\ q.etat \in {"oui", "non"} /\ envois' = [envois EXCEPT ![r] = EnvoiLibre]
  /\ affichees' = IF q.quoi = "renommer" /\ affichees[s] # Nul /\ retenues[s] # Nul
                  THEN [affichees EXCEPT ![s] = retenues[s]] ELSE affichees
  /\ heurtees' = heurtees \cup IF q.quoi = "charger" THEN Suivies
                              ELSE IF q.etat = "oui" THEN {s} ELSE {}
  /\ UNCHANGED <<suivi, retenues>>

SourcesNext ==
  \/ ChargerSources
  \/ \E s \in Suivies : AjouterSource(s) \/ RetirerSource(s) \/ \E l \in Libelles : RenommerSource(s, l)
  \/ \E r \in Rangs : EnvoiTraite(r) \/ EnvoiRepond(r) \/ EnvoiEchoue(r)

ReglagesNext ==
  \/ CompteNext /\ UNCHANGED sourcesVars
  \/ SourcesNext /\ UNCHANGED compteVars

ReglagesSpec == ReglagesInit /\ [][ReglagesNext]_reglagesVars

-----------------------------------------------------------------------------
(* Properties                                                              *)

\* Once everything is answered the page shows the account and the sources the
\* server holds, whatever was refused and however the answers crossed, but for
\* the pairs Heurte names, two renamings of one source, what was done while
\* the list loaded, and a lost answer.  The key on screen in particular is the
\* one the forum will be searched for, and none once it has served: "sinon
\* l'ecran resterait bloque sur l'etat en attente".
SettingsAreHeld ==
  /\ (Lances = {} /\ ~heurtes) => magasin = titulaire
  /\ \A s \in Suivies :
       (Partis = {} /\ s \notin heurtees) => affichees[s] = suivi[s]
==============================================================================
