------------------------------- MODULE Bascules -------------------------------
(***************************************************************************)
(* What the pages show changed before the server has agreed: a favourite   *)
(* (utils/favorites.ts), a follow (utils/follows.ts), a mix in a playlist  *)
(* (utils/playlists.ts).  Each is a flag and a count, turned over at once  *)
(* and put back when the request fails.  Only one of their buttons waits   *)
(* for the answer.                                                         *)
(***************************************************************************)
EXTENDS Integers

CONSTANTS
  Objets,   \* what is turned over: "coeur", "carte", "ligne", "profil"
  EnMeme    \* bound: requests at a time

ASSUME BasculesAssumption ==
  /\ Objets \subseteq {"coeur", "carte", "ligne", "profil"}
  /\ EnMeme \in Nat

VARIABLES
  serveur,    \* rows: is this reader's there?
  drapeau,    \* isFavorited, isFollowing, containsMix
  compte,     \* favoritesCount, followersCount, mixesCount, beyond the others'
  abonnes,    \* times the reader is listed in followers
  occupe,     \* followBusy
  requetes,   \* requests: their object, the flag before them, how far they are
  relecture,  \* object being loaded again: what the server answered, or Repos
  croises     \* history: objects whose requests overlapped, or lost an answer

basculesVars == <<serveur, drapeau, compte, abonnes, occupe, requetes, relecture, croises>>

-----------------------------------------------------------------------------
Requetes == 1..EnMeme
Libre == [objet |-> "", avant |-> FALSE, etat |-> "libre"]
AuRepos == "repos"
Un(b) == IF b THEN 1 ELSE 0
EnRoute(o) == {r \in Requetes : requetes[r].objet = o}

BasculesInit ==
  /\ serveur \in [Objets -> BOOLEAN]
  /\ drapeau = serveur /\ compte = [o \in Objets |-> Un(serveur[o])]
  /\ abonnes = IF "profil" \in Objets THEN Un(serveur["profil"]) ELSE 0
  /\ occupe = FALSE /\ requetes = [r \in Requetes |-> Libre]
  /\ relecture = [o \in Objets |-> AuRepos] /\ croises = {}

\* toggleMixFavorite, toggleUserFollow and toggleMixInPlaylist, as far as
\* their await.
Retourner(o) ==
  /\ relecture[o] = AuRepos
  /\ o \notin croises   \* bound: two requests that cross, and no third before a reload
  /\ \E r \in Requetes :
       /\ requetes[r] = Libre /\ \A q \in 1..(r - 1) : requetes[q] # Libre
       /\ requetes' = [requetes EXCEPT ![r] = [objet |-> o, avant |-> drapeau[o], etat |-> "partie"]]
  /\ drapeau' = [drapeau EXCEPT ![o] = ~@]
  /\ compte' = [compte EXCEPT ![o] = @ + Un(~drapeau[o]) - Un(drapeau[o])]
  /\ croises' = IF EnRoute(o) = {} THEN croises ELSE croises \cup {o}
  /\ UNCHANGED <<serveur, abonnes, relecture>>

\* The heart of a mix, the follow of the card under it, a line of the menu:
\* no guard.
BasculerLibre(o) == o # "profil" /\ Retourner(o) /\ UNCHANGED occupe

\* toggleFollow, by the button of the profile, disabled meanwhile, or by the
\* one of the invitation to an empty list, which is not.
SuivreProfil ==
  /\ ~occupe \/ abonnes = 0
  /\ Retourner("profil") /\ occupe' = TRUE

\* addFavorite, follow and addMix insert the row unless it is there, their
\* opposites delete it if it is; or the server refuses.
Traiter(r) ==
  LET q == requetes[r] IN
  /\ q.etat = "partie"
  /\ \/ /\ serveur' = [serveur EXCEPT ![q.objet] = ~q.avant]
        /\ requetes' = [requetes EXCEPT ![r].etat = "faite"]
     \/ /\ requetes' = [requetes EXCEPT ![r].etat = "refusee"]
        /\ UNCHANGED serveur
  /\ UNCHANGED <<drapeau, compte, abonnes, occupe, relecture, croises>>

Rendre(r) == requetes' = [requetes EXCEPT ![r] = Libre]
Liberer(o) == occupe' = (occupe /\ o # "profil")

\* The answer; the list of followers follows the flag there is by then.
Aboutir(r) ==
  LET o == requetes[r].objet IN
  /\ requetes[r].etat \in {"faite", "orpheline"} /\ Rendre(r) /\ Liberer(o)
  /\ abonnes' = IF o # "profil" THEN abonnes
                ELSE IF drapeau[o] THEN abonnes + 1 ELSE 0
  /\ UNCHANGED <<serveur, drapeau, compte, relecture, croises>>

\* Mutant: the flag is put back, and not the count.
DefaireSansCompter(o, avant) ==
  drapeau' = [drapeau EXCEPT ![o] = avant] /\ UNCHANGED compte

Defaire(o, avant) ==
  /\ drapeau' = [drapeau EXCEPT ![o] = avant]
  /\ compte' = [compte EXCEPT ![o] = @ + Un(avant) - Un(~avant)]

\* A refusal, or an answer that is lost: as it was before.
Echouer(r) ==
  LET q == requetes[r] IN
  /\ q.etat \in {"faite", "refusee"} /\ Rendre(r) /\ Liberer(q.objet)
  /\ Defaire(q.objet, q.avant)
  /\ croises' = IF q.etat = "faite" THEN croises \cup {q.objet} ELSE croises
  /\ UNCHANGED <<serveur, abonnes, relecture>>

\* The failure of a request whose object has been replaced touches nothing
\* that is shown.
EchouerDansLeVide(r) ==
  /\ requetes[r].etat = "orpheline" /\ Rendre(r) /\ Liberer(requetes[r].objet)
  /\ UNCHANGED <<serveur, drapeau, compte, abonnes, relecture, croises>>

-----------------------------------------------------------------------------
\* loadProfile, loadMix, loadPlaylists: the object is hidden while it loads,
\* and another one takes its place.
Relire(o) ==
  /\ relecture[o] = AuRepos /\ relecture' = [relecture EXCEPT ![o] = "demandee"]
  /\ UNCHANGED <<serveur, drapeau, compte, abonnes, occupe, requetes, croises>>

LireServeur(o) ==
  /\ relecture[o] = "demandee"
  /\ relecture' = [relecture EXCEPT ![o] = IF serveur[o] THEN "oui" ELSE "non"]
  /\ croises' = IF EnRoute(o) = {} THEN croises \ {o} ELSE croises \cup {o}
  /\ UNCHANGED <<serveur, drapeau, compte, abonnes, occupe, requetes>>

Relu(o) ==
  /\ relecture[o] \in {"oui", "non"} /\ relecture' = [relecture EXCEPT ![o] = AuRepos]
  /\ LET lu == relecture[o] = "oui" IN
     /\ drapeau' = [drapeau EXCEPT ![o] = lu] /\ compte' = [compte EXCEPT ![o] = Un(lu)]
     /\ abonnes' = IF o = "profil" THEN Un(lu) ELSE abonnes
  /\ requetes' = [r \in Requetes |->
       IF requetes[r].objet = o /\ requetes[r].etat # "partie"
       THEN [requetes[r] EXCEPT !.etat = "orpheline"] ELSE requetes[r]]
  /\ \A r \in EnRoute(o) : requetes[r].etat # "partie"   \* bound: those are dealt with
  /\ UNCHANGED <<serveur, occupe, croises>>

BasculesNext ==
  \/ \E o \in Objets : BasculerLibre(o) \/ Relire(o) \/ LireServeur(o) \/ Relu(o)
  \/ "profil" \in Objets /\ SuivreProfil
  \/ \E r \in Requetes : Traiter(r) \/ Aboutir(r) \/ Echouer(r) \/ EchouerDansLeVide(r)

BasculesSpec == BasculesInit /\ [][BasculesNext]_basculesVars

-----------------------------------------------------------------------------
(* Properties                                                              *)

\* A page at rest shows what the server holds, flag, count and list of
\* followers together, whatever was refused; only requests that overlapped on
\* one object, or an answer that was lost, can leave it wrong, and until the
\* next load only.
ShownIsHeld ==
  \A o \in Objets :
    (EnRoute(o) = {} /\ relecture[o] = AuRepos /\ o \notin croises) =>
      /\ drapeau[o] = serveur[o]
      /\ compte[o] = Un(serveur[o])
      /\ o = "profil" => abonnes = Un(serveur[o])
===============================================================================
