--------------------------------- MODULE Fil ---------------------------------
(***************************************************************************)
(* The comments under a mix, as one member's page shows and changes them   *)
(* (CommentsSection.vue, CommentItem.vue), and the number MixDetailView    *)
(* keeps of them.  The number is never read again: each change announces   *)
(* by how much it moves.  Other members are left out, as the page hears of *)
(* them when it is loaded again and not before.  The member owns the mix,  *)
(* so that every button is offered.                                        *)
(***************************************************************************)
EXTENDS Integers, FiniteSets

CONSTANTS
  Paroles,    \* ids of comments and replies, drawn in increasing order
  Guichets,   \* requests in flight at the same time, numbered
  Tete,       \* parent of a comment that answers none
  Refusee     \* an answer that is an error

ASSUME FilAssumption ==
  /\ {1, 2} \subseteq Paroles /\ Paroles \subseteq Nat /\ {Tete, Refusee} \cap Paroles = {}
  /\ Tete # Refusee
  /\ Guichets \subseteq Nat

VARIABLES
  tenues,     \* comments of the mix in the base: the parent of each
  donnees,    \* ids drawn
  amorce,     \* the list: how far its reading is, then what it says
  auFil,      \* comments.value: the replies of each comment
  total,      \* mix.commentsCount
  postes,     \* requests, each with its answer once the server has served it
  ecartee     \* history: an answer was lost, or a comment was to be shown twice

filVars == <<tenues, donnees, amorce, auFil, total, postes, ecartee>>

-----------------------------------------------------------------------------
Chome == [quoi |-> "aucun", sur |-> Tete, rendu |-> Tete]
Sous(c) == {r \in DOMAIN tenues : tenues[r] = c}
EnChemin(g, quoi) == postes[g].quoi = quoi /\ postes[g].rendu = Tete
Servie(g, quoi) == postes[g].quoi = quoi /\ postes[g].rendu # Tete
SansParoles(f, cs) == [c \in DOMAIN f \ cs |-> f[c]]

\* One comment already there, with one reply or none.
FilInit ==
  /\ donnees \in {1, 2}
  /\ tenues = [c \in 1..donnees |-> IF c = 1 THEN Tete ELSE 1]
  /\ amorce = [etat |-> "envoye", lu |-> <<>>]
  /\ auFil = <<>> /\ total = donnees
  /\ postes = [g \in Guichets |-> Chome] /\ ecartee = FALSE

-----------------------------------------------------------------------------
\* loadComments, when the section is mounted: the list is read, then shown in
\* place of what was, or the call fails and what was stays.  The list may have
\* a comment whose own answer, still awaited, will show it again.
LireFil ==
  /\ amorce.etat = "envoye"
  /\ amorce' = [etat |-> "lu", lu |-> [c \in Sous(Tete) |-> Sous(c)]]
  /\ UNCHANGED <<tenues, donnees, auFil, total, postes, ecartee>>

FilArrive ==
  /\ amorce.etat = "lu"
  /\ auFil' = amorce.lu /\ amorce' = [etat |-> "fini", lu |-> <<>>]
  /\ ecartee' = (ecartee \/ \E g \in Guichets :
                    postes[g].quoi = "poster" /\ postes[g].rendu \in DOMAIN amorce.lu)
  /\ UNCHANGED <<tenues, donnees, total, postes>>

FilEchoue ==
  /\ amorce.etat # "fini"
  /\ amorce' = [etat |-> "fini", lu |-> <<>>]
  /\ UNCHANGED <<tenues, donnees, auFil, total, postes, ecartee>>

Adresser(g, quoi, sur) ==
  /\ ~ecartee   \* bound: nothing new before the page is loaded again
  /\ postes[g] = Chome /\ \A h \in Guichets : h < g => postes[h] # Chome
  /\ postes' = [postes EXCEPT ![g] = [quoi |-> quoi, sur |-> sur, rendu |-> Tete]]
  /\ UNCHANGED <<tenues, donnees, amorce, auFil, total, ecartee>>

Seule(quoi, sur) == \A g \in Guichets : ~(postes[g].quoi = quoi /\ postes[g].sur = sur)

\* postComment: the form is there before the list is.
PosterParole(g) == Seule("poster", Tete) /\ Adresser(g, "poster", Tete)

\* The items come with the list.  Each waits for its own answer before it
\* replies again, or deletes itself again; the button of a reply does not.
Offertes == IF amorce.etat = "fini" THEN DOMAIN auFil ELSE {}

RepondreA(g, c) == c \in Offertes /\ Seule("repondre", c) /\ Adresser(g, "repondre", c)
EffacerFil(g, c) == c \in Offertes /\ Seule("effacer", c) /\ Adresser(g, "effacer", c)
OterReponse(g, r) == (\E c \in Offertes : r \in auFil[c]) /\ Adresser(g, "oter", r)

-----------------------------------------------------------------------------
Repartir(g, n) == postes' = [postes EXCEPT ![g] = [postes[g] EXCEPT !.rendu = n]]

\* The server: a new comment, or a reply to one that is still there.
Ecrire(g, parent) ==
  IF parent \in DOMAIN tenues \cup {Tete}
  THEN /\ donnees + 1 \in Paroles
       /\ donnees' = donnees + 1
       /\ tenues' = [c \in DOMAIN tenues \cup {donnees + 1} |->
            IF c = donnees + 1 THEN parent ELSE tenues[c]]
       /\ Repartir(g, donnees + 1)
  ELSE Repartir(g, Refusee) /\ UNCHANGED <<tenues, donnees>>

\* A deletion takes the replies along; it fails on what is gone.
Retrancher(g, c) ==
  /\ tenues' = SansParoles(tenues, {c} \cup Sous(c))
  /\ Repartir(g, IF c \in DOMAIN tenues THEN c ELSE Refusee)
  /\ UNCHANGED donnees

ServirParole(g) ==
  /\ \/ EnChemin(g, "poster") /\ Ecrire(g, Tete)
     \/ EnChemin(g, "repondre") /\ Ecrire(g, postes[g].sur)
     \/ (EnChemin(g, "effacer") \/ EnChemin(g, "oter")) /\ Retrancher(g, postes[g].sur)
  /\ UNCHANGED <<amorce, auFil, total, ecartee>>

-----------------------------------------------------------------------------
Rendue(g, quoi) ==
  /\ Servie(g, quoi)
  /\ postes' = [postes EXCEPT ![g] = Chome]
  /\ UNCHANGED <<tenues, donnees, amorce>>

\* The comment joins the list.
ParolePostee(g) ==
  LET n == postes[g].rendu IN
  /\ Rendue(g, "poster")
  /\ auFil' = [c \in DOMAIN auFil \cup {n} |-> IF c = n THEN {} ELSE auFil[c]]
  /\ total' = total + 1
  /\ UNCHANGED ecartee

\* What an item announces once it has left the page is not heard.
Entendu(g, c) == c \in DOMAIN auFil /\ postes[g].rendu # Refusee

ReponsePostee(g) ==
  LET c == postes[g].sur IN
  /\ Rendue(g, "repondre")
  /\ IF Entendu(g, c)
     THEN auFil' = [auFil EXCEPT ![c] = @ \cup {postes[g].rendu}] /\ total' = total + 1
     ELSE UNCHANGED <<auFil, total>>
  /\ UNCHANGED ecartee

\* Mutant: the replies that leave with their comment are not counted.
EmporteSeul(c) == 1

Emporte(c) == 1 + Cardinality(auFil[c])

FilEfface(g) ==
  LET c == postes[g].sur IN
  /\ Rendue(g, "effacer")
  /\ IF Entendu(g, c)
     THEN auFil' = SansParoles(auFil, {c}) /\ total' = total - Emporte(c)
     ELSE UNCHANGED <<auFil, total>>
  /\ UNCHANGED ecartee

\* onReplyDeleted, heard by the item that still shows the reply's comment.
ReponseOtee(g) ==
  LET r == postes[g].sur IN
  /\ Rendue(g, "oter")
  /\ IF \E c \in DOMAIN auFil : r \in auFil[c] /\ Entendu(g, c)
     THEN /\ auFil' = [c \in DOMAIN auFil |-> auFil[c] \ {r}]
          /\ total' = total - 1
     ELSE UNCHANGED <<auFil, total>>
  /\ UNCHANGED ecartee

\* The connection is lost, before the server is reached or after.
ReponsePerdue(g) ==
  /\ postes[g] # Chome
  /\ postes' = [postes EXCEPT ![g] = Chome]
  /\ ecartee' = (ecartee \/ postes[g].rendu \in Paroles)
  /\ UNCHANGED <<tenues, donnees, amorce, auFil, total>>

FilNext ==
  \/ LireFil \/ FilArrive \/ FilEchoue
  \/ \E g \in Guichets :
       \/ PosterParole(g)
       \/ \E c \in Paroles : RepondreA(g, c) \/ EffacerFil(g, c) \/ OterReponse(g, c)
       \/ ServirParole(g) \/ ParolePostee(g) \/ ReponsePostee(g) \/ FilEfface(g)
       \/ ReponseOtee(g) \/ ReponsePerdue(g)

FilSpec == FilInit /\ [][FilNext]_filVars

-----------------------------------------------------------------------------
(* Properties                                                              *)

\* "L'API les supprime en cascade, le compte du mix doit en faire autant": in
\* whatever order replies and deletions are served and answered, once nothing
\* is in flight the number the page shows is that of the comments in the base.
CountFollowsThread ==
  (~ecartee /\ \A g \in Guichets : postes[g] = Chome) => total = Cardinality(DOMAIN tenues)
===============================================================================
