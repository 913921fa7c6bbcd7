---------------------------- MODULE PagePlaylist ----------------------------
(***************************************************************************)
(* The page of a playlist, as its owner uses it (PlaylistDetailView.vue).  *)
(* A mix leaves the list before the server has answered and comes back     *)
(* where it was when the request fails; a new title waits for the answer.  *)
(* The component stays mounted from one playlist to another, and every     *)
(* answer writes into the playlist it finds there.                         *)
(***************************************************************************)
EXTENDS Integers, Sequences, SequencesExt

CONSTANTS
  Playlistes,   \* playlists of this member
  Rangee,       \* the mixes of each, in order
  EnCours,      \* bound: requests at a time
  Aucune        \* no playlist

ASSUME PagePlaylistAssumption ==
  /\ Aucune \notin Playlistes /\ EnCours \in Nat
  /\ Rangee = [p \in Playlistes |-> Rangee[p]]
  /\ \A p \in Playlistes : Rangee[p] \in Seq(Range(Rangee[p])) /\ IsInjective(Rangee[p])

VARIABLES
  route,      \* route.params.id, Aucune once the page is left
  tenue,      \* server: mixes of each playlist
  intitule,   \* server: title of each, by the playlist it was typed for
  montree,    \* playlist.value: which, its title, its mixes, its count
  enLecture,  \* loading
  introuvable, \* notFound
  saisie,     \* editing: the playlist whose title is in the fields, or Aucune
  requis,   \* requests
  croisees    \* history: something crossed since the page was last settled

pagePlaylistVars == <<route, tenue, intitule, montree, enLecture, introuvable, saisie,
                     requis, croisees>>

-----------------------------------------------------------------------------
Postes == 1..EnCours
PosteLibre == [quoi |-> "aucun", de |-> Aucune, mix |-> Aucune, rang |-> 0, etat |-> "libre", lu |-> <<>>]
Emise(quoi, p, m, i) ==
  [quoi |-> quoi, de |-> p, mix |-> m, rang |-> i, etat |-> "partie", lu |-> <<>>]
Repondue(q, e, l) == [q EXCEPT !.etat = e, !.lu = l]
Ecran(p) == [id |-> p, titre |-> intitule[p], mixes |-> tenue[p], compte |-> Len(tenue[p])]
RienAffiche == [id |-> Aucune, titre |-> Aucune, mixes |-> <<>>, compte |-> 0]
\* A mix has one row in a playlist, or none.
Otee(s, m) ==
  IF m \in Range(s) THEN RemoveAt(s, CHOOSE i \in DOMAIN s : s[i] = m) ELSE s
Occupes == {d \in Postes : requis[d] # PosteLibre}
Poser(d, q) ==
  /\ requis[d] = PosteLibre /\ \A x \in 1..(d - 1) : requis[x] # PosteLibre
  /\ requis' = [requis EXCEPT ![d] = q]
Oublier(d) == requis' = [requis EXCEPT ![d] = PosteLibre]

PagePlaylistInit ==
  /\ route = Aucune /\ tenue = Rangee /\ intitule = [p \in Playlistes |-> p]
  /\ montree = RienAffiche /\ enLecture = FALSE /\ introuvable = FALSE
  /\ saisie = Aucune
  /\ requis = [d \in Postes |-> PosteLibre] /\ croisees = FALSE

\* loadPlaylist, mounted or watching the id: nothing of what is under way is
\* given up.
AllerA(p) ==
  /\ route # p /\ route' = p /\ enLecture' = TRUE /\ introuvable' = FALSE
  /\ \E d \in Postes : Poser(d, Emise("charger", p, Aucune, 0))
  /\ croisees' = (Occupes # {} \/ saisie # Aucune)
  /\ UNCHANGED <<tenue, intitule, montree, saisie>>

\* The page is left.
FermerPlaylist ==
  /\ route # Aucune /\ Occupes = {}   \* bound: once all is answered
  /\ route' = Aucune /\ montree' = RienAffiche /\ enLecture' = FALSE /\ introuvable' = FALSE
  /\ saisie' = Aucune
  /\ croisees' = FALSE
  /\ UNCHANGED <<tenue, intitule, requis>>

Visible == route # Aucune /\ ~enLecture /\ ~introuvable /\ montree # RienAffiche

\* What is done to a page.  Bound: two requests that cross, and no third
\* before a reload.
Agir == Visible /\ ~croisees

\* removeMix, as far as its await; no guard between two mixes.
RetirerDeLaListe(i) ==
  /\ Agir
  /\ \E d \in Postes : Poser(d, Emise("retirer", montree.id, montree.mixes[i], i))
  /\ montree' = [montree EXCEPT !.mixes = RemoveAt(@, i), !.compte = @ - 1]
  /\ croisees' = (croisees \/ Occupes # {})
  /\ UNCHANGED <<route, tenue, intitule, enLecture, introuvable, saisie>>

\* startEditing, Annuler, saveEdit as far as its await.
Editer ==
  /\ Agir /\ saisie' = IF saisie = Aucune THEN montree.id ELSE Aucune
  /\ UNCHANGED <<route, tenue, intitule, montree, enLecture, introuvable, requis, croisees>>

Enregistrer ==
  /\ Agir /\ saisie # Aucune /\ \A d \in Occupes : requis[d].quoi # "titrer"
  /\ \E d \in Postes : Poser(d, Emise("titrer", montree.id, saisie, 0))
  /\ croisees' = (croisees \/ Occupes # {})
  /\ UNCHANGED <<route, tenue, intitule, montree, enLecture, introuvable, saisie>>

\* The server deals with a request, or refuses it.
ServirDemande(d) ==
  LET q == requis[d] IN
  /\ q.etat = "partie"
  /\ \/ /\ requis' = [requis EXCEPT ![d] =
               Repondue(q, "faite", IF q.quoi = "charger" THEN Ecran(q.de) ELSE <<>>)]
        /\ tenue' = IF q.quoi = "retirer" THEN [tenue EXCEPT ![q.de] = Otee(@, q.mix)] ELSE tenue
        /\ intitule' = IF q.quoi = "titrer" THEN [intitule EXCEPT ![q.de] = q.mix] ELSE intitule
     \/ /\ requis' = [requis EXCEPT ![d] = Repondue(q, "refusee", <<>>)]
        /\ UNCHANGED <<tenue, intitule>>
  /\ UNCHANGED <<route, montree, enLecture, introuvable, saisie, croisees>>

ListeArrive(d) ==
  LET q == requis[d] IN
  /\ q.quoi = "charger" /\ q.etat \in {"faite", "refusee"} /\ Oublier(d) /\ enLecture' = FALSE
  /\ montree' = IF q.etat = "faite" THEN q.lu ELSE montree
  /\ introuvable' = (introuvable \/ q.etat = "refusee")
  /\ UNCHANGED <<route, tenue, intitule, saisie, croisees>>

\* Mutant: the mix comes back at the end.
RemettreALaFin(q) == montree' = [montree EXCEPT !.mixes = Append(@, q.mix), !.compte = @ + 1]

\* splice puts it at the end of a shorter list.
Remettre(q) ==
  montree' = [montree EXCEPT !.mixes = InsertAt(@, IF q.rang > Len(@) THEN Len(@) + 1 ELSE q.rang, q.mix),
                             !.compte = @ + 1]

RetraitRepond(d) ==
  LET q == requis[d] IN
  /\ q.quoi = "retirer" /\ q.etat \in {"faite", "refusee"} /\ Oublier(d)
  /\ \/ q.etat = "faite" /\ UNCHANGED <<montree, croisees>>
     \/ Remettre(q) /\ croisees' = (croisees \/ q.etat = "faite")   \* the answer is lost
  /\ UNCHANGED <<route, tenue, intitule, enLecture, introuvable, saisie>>

TitreRepond(d) ==
  LET q == requis[d] IN
  /\ q.quoi = "titrer" /\ q.etat \in {"faite", "refusee"} /\ Oublier(d)
  /\ \/ /\ q.etat = "faite" /\ montree' = [montree EXCEPT !.titre = q.mix] /\ saisie' = Aucune
        /\ UNCHANGED croisees
     \/ croisees' = (croisees \/ q.etat = "faite") /\ UNCHANGED <<montree, saisie>>
  /\ UNCHANGED <<route, tenue, intitule, enLecture, introuvable>>

PagePlaylistNext ==
  \/ \E p \in Playlistes : AllerA(p)
  \/ FermerPlaylist \/ Editer \/ Enregistrer \/ \E i \in DOMAIN montree.mixes : RetirerDeLaListe(i)
  \/ \E d \in Postes : ServirDemande(d) \/ ListeArrive(d) \/ RetraitRepond(d) \/ TitreRepond(d)

PagePlaylistSpec == PagePlaylistInit /\ [][PagePlaylistNext]_pagePlaylistVars

-----------------------------------------------------------------------------
(* Properties                                                              *)

\* A page at rest shows its playlist as the server has it, its order, count
\* and title included, whatever was refused: only requests that crossed, a
\* navigation meanwhile or an answer that was lost leave it wrong, until the
\* next load.
PlaylistShownIsHeld ==
  (Visible /\ Occupes = {} /\ ~croisees) => montree = Ecran(route)
==============================================================================
