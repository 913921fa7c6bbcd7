------------------------------- MODULE Comments -------------------------------
(***************************************************************************)
(* The comments of a mix (comments.service.ts): a comment at a timecode,   *)
(* and one level of replies.  The checks on the parent and the insertion   *)
(* are separate statements; the database only knows foreign keys.          *)
(***************************************************************************)
EXTENDS Integers

CONSTANTS
  Sets,          \* mixes that carry comments
  Auteurs,       \* accounts, owners of the mixes among them
  PosteDe,       \* the account each mix belongs to
  Fils,          \* comment identifiers
  Envois,        \* requests in flight at the same time
  Rien           \* SQL NULL

ASSUME CommentsAssumption ==
  Rien \notin Sets \cup Fils /\ PosteDe \in [Sets -> Auteurs]

VARIABLES
  inscrits,      \* accounts that exist
  sets,          \* mixes that exist
  commentaire,   \* comments that exist, Rien otherwise
  envoi,         \* what each request is doing
  utilises       \* identifiers drawn

commentsVars == <<inscrits, sets, commentaire, envoi, utilises>>

-----------------------------------------------------------------------------
Inactif == [quoi |-> "", etape |-> "", auteur |-> Rien, set |-> Rien, fil |-> Rien, parent |-> Rien]

Poste(c) == commentaire[c] # Rien

CommentsInit ==
  /\ inscrits = Auteurs
  /\ sets = Sets
  /\ commentaire = [c \in Fils |-> Rien]
  /\ envoi = [e \in Envois |-> Inactif]
  /\ utilises = {}

\* create: a comment for a mix, that answers `p` or stands at a timecode.
Commenter(e, u, s, p) ==
  /\ envoi[e] = Inactif /\ u \in inscrits
  /\ p = Rien \/ p \in utilises
  /\ envoi' = [envoi EXCEPT ![e] =
       [Inactif EXCEPT !.quoi = "creer", !.etape = "mix", !.auteur = u, !.set = s, !.parent = p]]
  /\ UNCHANGED <<inscrits, sets, commentaire, utilises>>

\* create: the mix exists.
LireSet(e) ==
  /\ envoi[e].etape = "mix"
  /\ envoi' = [envoi EXCEPT ![e] =
       IF @.set \notin sets THEN Inactif
       ELSE [@ EXCEPT !.etape = IF envoi[e].parent = Rien THEN "inserer" ELSE "parent"]]
  /\ UNCHANGED <<inscrits, sets, commentaire, utilises>>

\* Mutant: the parent may be on another mix.
ParentQuelconque(p, s) == Poste(p) /\ commentaire[p].parent = Rien

\* The parent is there, on the same mix, and is not itself a reply.
ParentConvenable(p, s) ==
  Poste(p) /\ commentaire[p].set = s /\ commentaire[p].parent = Rien

LireParent(e) ==
  /\ envoi[e].etape = "parent"
  /\ envoi' = [envoi EXCEPT ![e] =
       IF ParentConvenable(@.parent, @.set) THEN [@ EXCEPT !.etape = "inserer"] ELSE Inactif]
  /\ UNCHANGED <<inscrits, sets, commentaire, utilises>>

\* The insertion; an account, a mix or a parent deleted meanwhile fails it.
InsererCommentaire(e, c) ==
  /\ envoi[e].etape = "inserer" /\ c \notin utilises
  /\ LET q == envoi[e] IN
     IF q.auteur \in inscrits /\ q.set \in sets /\ (q.parent = Rien \/ Poste(q.parent))
     THEN /\ commentaire' = [commentaire EXCEPT ![c] =
               [set |-> q.set, auteur |-> q.auteur, parent |-> q.parent]]
          /\ utilises' = utilises \cup {c}
     ELSE UNCHANGED <<commentaire, utilises>>
  /\ envoi' = [envoi EXCEPT ![e] = Inactif]
  /\ UNCHANGED <<inscrits, sets>>

\* ON DELETE CASCADE: the replies go with their parent.
Emporter(cs) ==
  commentaire' = [c \in Fils |->
    IF c \in cs \/ (Poste(c) /\ commentaire[c].parent \in cs) THEN Rien ELSE commentaire[c]]

\* remove: its author, or the owner of the mix.
DemanderRetrait(e, u, c) ==
  /\ envoi[e] = Inactif /\ Poste(c) /\ u \in inscrits
  /\ u \in {commentaire[c].auteur, PosteDe[commentaire[c].set]}
  /\ envoi' = [envoi EXCEPT ![e] =
       [Inactif EXCEPT !.quoi = "retirer", !.etape = "effacer", !.auteur = u, !.fil = c]]
  /\ UNCHANGED <<inscrits, sets, commentaire, utilises>>

\* Deleted by someone else since, the request fails.
Retirer(e) ==
  /\ envoi[e].etape = "effacer"
  /\ IF Poste(envoi[e].fil) THEN Emporter({envoi[e].fil}) ELSE UNCHANGED commentaire
  /\ envoi' = [envoi EXCEPT ![e] = Inactif]
  /\ UNCHANGED <<inscrits, sets, utilises>>

\* A mix leaves with its comments.
SetSupprime(s) ==
  /\ s \in sets
  /\ sets' = sets \ {s}
  /\ Emporter({c \in Fils : Poste(c) /\ commentaire[c].set = s})
  /\ UNCHANGED <<inscrits, envoi, utilises>>

\* An account leaves with its comments, the replies to them, and its mixes.
AuteurParti(u) ==
  /\ u \in inscrits
  /\ inscrits' = inscrits \ {u}
  /\ sets' = {s \in sets : PosteDe[s] # u}
  /\ Emporter({c \in Fils : Poste(c) /\ (commentaire[c].auteur = u \/ commentaire[c].set \notin sets')})
  /\ UNCHANGED <<envoi, utilises>>

CommentsNext ==
  \/ \E e \in Envois :
       \/ \E u \in Auteurs, s \in Sets, p \in Fils \cup {Rien} : Commenter(e, u, s, p)
       \/ LireSet(e) \/ LireParent(e) \/ Retirer(e)
       \/ \E c \in Fils : InsererCommentaire(e, c)
       \/ \E u \in Auteurs, c \in Fils : DemanderRetrait(e, u, c)
  \/ \E s \in Sets : SetSupprime(s)
  \/ \E u \in Auteurs : AuteurParti(u)

CommentsSpec == CommentsInit /\ [][CommentsNext]_commentsVars

-----------------------------------------------------------------------------
(* Properties                                                              *)

\* Every comment shown under a mix belongs to it, and a reply stands under a
\* first-level comment of the same mix that still exists: whatever is deleted
\* between the checks and the insertion, no thread is deeper than one level
\* and no reply is lost from sight.
OneLevelThreads ==
  \A c \in Fils : Poste(c) =>
    /\ commentaire[c].set \in sets
    /\ LET p == commentaire[c].parent IN
       p # Rien => /\ Poste(p)
                   /\ commentaire[p].set = commentaire[c].set
                   /\ commentaire[p].parent = Rien
===============================================================================
